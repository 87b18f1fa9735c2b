------------------------------ MODULE Transport ------------------------------
(***************************************************************************)
(* Transport.roundTrip (client/transport.go): the retry loop every call of *)
(* Client.Do goes through, for several concurrent calls over one ConnPool. *)
(*                                                                         *)
(* A call takes a pooled connection or dials one, makes one trip on it     *)
(* (module PersistConn looks inside the trip; here it succeeds or fails),  *)
(* and gives the connection back to the pool or closes it.  A failed trip  *)
(* is tried again only if its connection had been pooled before.           *)
(***************************************************************************)
EXTENDS ConnPool

CONSTANT maxRetryCount  \* the constant of transport.go

ASSUME RetryAssumption == maxRetryCount \in Nat

VARIABLES
  pc,          \* where each call is in roundTrip
  target,      \* the connectKey of the call's address
  expired,     \* the call's context is done
  retryCount,  \* roundTrip's local variable
  err,         \* roundTrip's err is not nil: what it returns, once it returned
  handled      \* how often the server has run the handler for this call

callVars == <<pc, target, expired, retryCount, err, handled>>
vars == <<poolVars, callVars>>

Steps == {"idle", "loop", "get", "dial", "trip", "defer", "put", "crashed"}

Init ==
  /\ PoolInit
  /\ pc = [u \in Users |-> "idle"]
  /\ target \in [Users -> Keys]
  /\ expired = [u \in Users |-> FALSE]
  /\ retryCount = [u \in Users |-> 0]
  /\ err = [u \in Users |-> FALSE]
  /\ handled = [u \in Users |-> 0]

Goto(u, from, to) == pc[u] = from /\ pc' = [pc EXCEPT ![u] = to]

\* roundTrip returns, with an error or not; its other variables are gone.
Leave(u, from, failed) ==
  /\ Goto(u, from, "idle")
  /\ err' = [err EXCEPT ![u] = failed]
  /\ expired' = [expired EXCEPT ![u] = FALSE]
  /\ retryCount' = [retryCount EXCEPT ![u] = 0]
  /\ handled' = [handled EXCEPT ![u] = 0]
  /\ UNCHANGED target

\* Client.Do builds the request and enters roundTrip.
Call(u) ==
  /\ Goto(u, "idle", "loop")
  /\ target' \in {[target EXCEPT ![u] = k] : k \in Keys}
  /\ err' = [err EXCEPT ![u] = FALSE]
  /\ UNCHANGED <<poolVars, expired, retryCount, handled>>

\* The deadline of the call's context passes, at any point of the call where
\* that still makes a difference: nothing looks at it after a trip succeeded.
Expire(u) ==
  /\ pc[u] \in {"loop", "get", "dial", "trip"} /\ ~expired[u]
  /\ expired' = [expired EXCEPT ![u] = TRUE]
  /\ UNCHANGED <<poolVars, pc, target, retryCount, err, handled>>

\* The select at the top of the loop finds the context done.  The deferred
\* function then runs with conn = nil: if a failed trip left its error in err
\* it returns, and otherwise it evaluates conn.closed, a nil dereference that
\* takes the process down.
LoopDone(u) ==
  /\ expired[u]
  /\ \/ err[u] /\ Leave(u, "loop", TRUE)
     \/ /\ ~err[u] /\ Goto(u, "loop", "crashed")
        /\ UNCHANGED <<target, expired, retryCount, err, handled>>
  /\ UNCHANGED poolVars

\* The context is live: only the first attempt looks into the pool.
LoopLive(u) ==
  /\ ~expired[u]
  /\ Goto(u, "loop", IF retryCount[u] <= 0 THEN "get" ELSE "dial")
  /\ UNCHANGED <<poolVars, target, expired, retryCount, err, handled>>

FromPool(u) ==
  /\ Goto(u, "get", "trip") /\ GetHit(u, target[u])
  /\ err' = [err EXCEPT ![u] = FALSE]
  /\ UNCHANGED <<target, expired, retryCount, handled>>

PoolEmpty(u) ==
  /\ Goto(u, "get", "dial")
  /\ \/ GetMiss(u, target[u])
     \/ pool[target[u]] = <<>> /\ UNCHANGED poolVars
  /\ UNCHANGED <<target, expired, retryCount, err, handled>>

DialOk(u) ==
  /\ Goto(u, "dial", "trip")
  /\ \E c \in Conns : KeyOf[c] = target[u] /\ Dial(u, c)
  /\ err' = [err EXCEPT ![u] = FALSE]
  /\ UNCHANGED <<target, expired, retryCount, handled>>

\* Dial fails: conn is nil and err is set, so the deferred function is a no-op.
DialError(u) == Leave(u, "dial", TRUE) /\ UNCHANGED poolVars

\* PersistConn.roundTrip returns a response.  The connection may be closed by
\* now, even if it was open when the response arrived.
TripOk(u) ==
  /\ Goto(u, "trip", "defer")
  /\ handled' = [handled EXCEPT ![u] = @ + 1]
  /\ UNCHANGED <<poolVars, target, expired, retryCount, err>>

\* Fault: any failed trip is tried again, until the counter stops it.
MayRetryFresh(u) == retryCount[u] <= maxRetryCount

\* Fault: the retry test has its comparison the wrong way round.
MayRetryReversed(u) == lease[u] \in reused /\ retryCount[u] > maxRetryCount

MayRetry(u) == lease[u] \in reused /\ retryCount[u] <= maxRetryCount

\* It returns an error: the server may or may not have run the handler.  The
\* connection is closed either way.
TripError(u) ==
  /\ Discard(u)
  /\ \/ /\ MayRetry(u)
        /\ Goto(u, "trip", "loop")
        /\ err' = [err EXCEPT ![u] = TRUE]
        /\ \E n \in {0, 1} : handled' = [handled EXCEPT ![u] = @ + n]
        /\ retryCount' = [retryCount EXCEPT ![u] = @ + 1]
        /\ UNCHANGED <<target, expired>>
     \/ ~MayRetry(u) /\ Leave(u, "trip", TRUE)

\* The deferred function after a success: isClosed decides between putConn
\* and dropping the connection.
DeferOpen(u) ==
  /\ Goto(u, "defer", "put") /\ Return(u)
  /\ UNCHANGED <<target, expired, retryCount, err, handled>>

DeferClosed(u) ==
  /\ lease[u] \in closed
  /\ Leave(u, "defer", FALSE) /\ Discard(u)

PutConn(u) == Leave(u, "put", FALSE) /\ Put(u)

Advance(u) ==
  \/ LoopDone(u) \/ LoopLive(u) \/ FromPool(u) \/ PoolEmpty(u)
  \/ DialOk(u) \/ DialError(u) \/ TripOk(u) \/ TripError(u)
  \/ DeferOpen(u) \/ DeferClosed(u) \/ PutConn(u)

\* No call has panicked: the process is alive.
Running == \A u \in Users : pc[u] # "crashed"

Next ==
  /\ Running
  /\ \/ \E u \in Users : Call(u) \/ Expire(u) \/ Advance(u)
     \/ Background /\ UNCHANGED callVars

Spec == Init /\ [][Next]_vars

\* Every goroutine keeps running, and a trip returns (PersistConn's
\* TripReturns, for calls that have a deadline).
FairSpec == Spec /\ \A u \in Users : WF_vars(Running /\ Advance(u))
-----------------------------------------------------------------------------
\* Every local variable of a call holds a value of its Go type, and a call
\* holds a connection exactly between getConn and the end of the deferred
\* function.
CallTypeOK ==
  /\ TypeOK
  /\ pc \in [Users -> Steps]
  /\ target \in [Users -> Keys]
  /\ retryCount \in [Users -> 0 .. maxRetryCount + 1] /\ handled \in [Users -> Nat]
  /\ expired \in [Users -> BOOLEAN] /\ err \in [Users -> BOOLEAN]
  /\ \A u \in Users : lease[u] # NoConn <=> pc[u] \in {"trip", "defer", "put"}

\* The counter alone would allow maxRetryCount + 1 retries.  What stops the
\* loop is that a retry dials: its connection was never pooled, so its failure
\* is final.  A call makes at most two trips, on its own address, and the
\* server runs the handler at most twice for it (transport.go:243-250).
AtMostTwoTrips ==
  \A u \in Users :
    /\ handled[u] <= 2
    /\ pc[u] = "trip" => KeyOf[lease[u]] = target[u]
    /\ pc[u] = "trip" /\ retryCount[u] > 0 => lease[u] \notin reused

\* A call that succeeded ran the handler; a call that failed did so with its
\* context done, without a connection, or on a connection that no other call
\* had used.  A pooled connection the server closed in the meantime never
\* makes a call fail by itself.
StaleConnIsRetried ==
  [][\A u \in Users :
       pc[u] # "idle" /\ pc'[u] = "idle" =>
         IF err'[u]
           THEN expired[u] \/ pc[u] = "dial" \/ lease[u] \notin reused
           ELSE handled[u] > 0]_vars

\* The round trips use the pool only as ConnPool assumes: what is proved of
\* PoolSpec holds here too.
UsesPool == PoolSpec

\* Every call returns, unless one of them panics in LoopDone.
CallReturns == \A u \in Users : (pc[u] = "loop") ~> (pc[u] = "idle" \/ ~Running)

\* A system error is returned to the caller (client.go:86): a call whose
\* context is done before its first attempt returns ctx.Err().
ExpiredCallReturns == Running
=============================================================================
