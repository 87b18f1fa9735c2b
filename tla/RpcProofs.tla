------------------------------ MODULE RpcProofs ------------------------------
(***************************************************************************)
(* Proofs about Transport, for any number of concurrent calls, connections *)
(* and addresses and any maxRetryCount, and about Rpc, for any number of   *)
(* calls and goroutines as well.                                           *)
(*                                                                         *)
(* The retry loop implements PoolSpec step by step, so what ConnPoolProofs *)
(* proves of the pool holds of it.  AtMostTwoTrips needs more: a call that *)
(* retries holds a connection it dialed itself, nobody else can have       *)
(* pooled that connection because nobody else holds it (Exclusive), so a   *)
(* second failure is final and retryCount never passes 1.                  *)
(*                                                                         *)
(* A call from end to end is a call of Transport, so all of this holds of  *)
(* it.  That an answer reaches the call it was made for rests on the       *)
(* streams: a connection that nobody is making a trip on is closed or      *)
(* carries nothing, so at most one request or one answer is under way on   *)
(* it, that of its last trip.  That no handler runs a third time rests on  *)
(* counting connections: a call makes one trip per connection and uses at  *)
(* most two, and the handler runs for it at most once for every connection *)
(* on which the server has read it.                                        *)
(***************************************************************************)
EXTENDS Rpc, ConnPoolProofs, FiniteSetTheorems

-----------------------------------------------------------------------------
(* The retry loop implements PoolSpec.                                     *)

\* A call's address is one of the addresses.
TargetOK == target \in [Users -> Keys]

\* Only Call chooses an address.
LEMMA TargetStep == TargetOK /\ [Next]_vars => TargetOK'
<1> SUFFICES ASSUME TargetOK, [Next]_vars PROVE TargetOK'
  OBVIOUS
<1>1. ASSUME NEW u \in Users, Call(u) PROVE TargetOK'
  BY <1>1 DEF Call, TargetOK
<1>2. ASSUME NEW u \in Users, Expire(u) \/ Advance(u) PROVE target' = target
  BY <1>2 DEF Expire, Advance, LoopDone, LoopLive, FromPool, PoolEmpty, DialOk,
              DialError, TripOk, TripError, DeferOpen, DeferClosed, PutConn, Leave
<1>3. ASSUME UNCHANGED vars \/ UNCHANGED callVars PROVE target' = target
  BY <1>3 DEF vars, callVars
<1> QED
  BY <1>1, <1>2, <1>3 DEF Next, TargetOK

\* Every step of a call is a step of the pool, or leaves it alone.
LEMMA StepUsesPool == TargetOK /\ [Next]_vars => [PoolNext]_poolVars
<1> SUFFICES ASSUME TargetOK, [Next]_vars PROVE [PoolNext]_poolVars
  OBVIOUS
<1>1. ASSUME NEW u \in Users, Call(u) \/ Expire(u) PROVE UNCHANGED poolVars
  BY <1>1 DEF Call, Expire
<1>2. ASSUME NEW u \in Users, Advance(u) PROVE [PoolNext]_poolVars
  <2>1. CASE LoopDone(u) \/ LoopLive(u) \/ DialError(u) \/ TripOk(u)
    BY <2>1 DEF LoopDone, LoopLive, DialError, TripOk
  <2>2. CASE FromPool(u) \/ PoolEmpty(u)
    <3>1. target[u] \in Keys
      BY DEF TargetOK
    <3> QED
      BY <2>2, <3>1 DEF FromPool, PoolEmpty, PoolNext
  <2>3. CASE DialOk(u)
    BY <2>3 DEF DialOk, PoolNext
  <2>4. CASE TripError(u) \/ DeferClosed(u)
    BY <2>4 DEF TripError, DeferClosed, PoolNext
  <2>5. CASE DeferOpen(u) \/ PutConn(u)
    BY <2>5 DEF DeferOpen, PutConn, PoolNext
  <2> QED
    BY <1>2, <2>1, <2>2, <2>3, <2>4, <2>5 DEF Advance
<1>3. CASE Background
  BY <1>3 DEF PoolNext
<1>4. CASE UNCHANGED vars
  BY <1>4 DEF vars
<1> QED
  BY <1>1, <1>2, <1>3, <1>4 DEF Next

\* The round trips use the pool only in the ways ConnPool models
\* (transport.go:98-252 against connpool.go and persistconn.go): the detailed
\* specification implements PoolSpec, and so what is proved of PoolSpec holds.
THEOREM CallsUsePool == Spec => UsesPool
<1>1. Init => PoolInit /\ TargetOK
  BY DEF Init, TargetOK
<1> QED
  BY <1>1, TargetStep, StepUsesPool, PTL DEF Spec, UsesPool, PoolSpec

\* With the retry loop and the deferred function of transport.go:177-252 on top
\* of it, the pool still never has a connection in two hands and loses none.
THEOREM CallsAreExclusive == Spec => [](Exclusive /\ NoLeak)
BY CallsUsePool, PoolIsExclusive, NoConnectionLeaks, PTL DEF UsesPool

-----------------------------------------------------------------------------
(* The retry loop's own invariant.                                         *)

\* What call u has done so far: retryCount counts the trips that failed and
\* bounds the runs of the handler, and a retry is on a connection that was
\* never pooled.
Accounting(u) ==
  /\ retryCount[u] \in {0, 1} /\ handled[u] \in Nat
  /\ handled[u] <= retryCount[u] + 1
  /\ pc[u] = "idle" => retryCount[u] = 0 /\ handled[u] = 0
  /\ pc[u] \in {"loop", "get", "dial", "trip"} => handled[u] <= retryCount[u]
  /\ pc[u] = "get" => retryCount[u] = 0
  /\ pc[u] \in {"defer", "put"} => handled[u] > 0
  /\ pc[u] = "trip" =>
       KeyOf[lease[u]] = target[u] /\ (retryCount[u] > 0 => lease[u] \notin reused)

\* The inductive invariant of the calls.
CallInv ==
  TypeOK /\ Exclusive /\ CallTypeOK /\ \A u \in Users : Accounting(u)

\* No call has begun.
LEMMA CallInit == Init => CallInv
<1> SUFFICES ASSUME Init PROVE CallInv
  OBVIOUS
<1>1. TypeOK /\ Exclusive
  BY TypeInit, ExclusiveInit DEF Init
<1>2. \A u \in Users : Accounting(u)
  BY DEF Init, Accounting
<1>3. CallTypeOK
  <2>1. 0 \in 0 .. maxRetryCount + 1
    BY RetryAssumption
  <2>2. \A u \in Users : lease[u] = NoConn
    BY DEF Init, PoolInit
  <2> QED
    BY <1>1, <2>1, <2>2 DEF Init, CallTypeOK, Steps
<1> QED
  BY <1>1, <1>2, <1>3 DEF CallInv

\* A step of call v leaves the variables of call u alone, and does not pool
\* the connection that u holds.
LEMMA OtherCalls ==
  ASSUME CallInv, NEW v \in Users, NEW u \in Users \ {v},
         Call(v) \/ Expire(v) \/ Advance(v)
  PROVE  Accounting(u)' /\ (lease'[u] # NoConn <=> pc'[u] \in {"trip", "defer", "put"})
<1>1. /\ pc \in [Users -> Steps] /\ target \in [Users -> Keys]
      /\ lease \in [Users -> dialed \cup {NoConn}] /\ phase \in [Users -> Phases]
      /\ retryCount \in [Users -> 0 .. maxRetryCount + 1] /\ handled \in [Users -> Nat]
      /\ Accounting(u) /\ (lease[u] # NoConn <=> pc[u] \in {"trip", "defer", "put"})
  BY DEF CallInv, CallTypeOK, TypeOK
<1>2. pc'[u] = pc[u] /\ target'[u] = target[u] /\ retryCount'[u] = retryCount[u]
      /\ handled'[u] = handled[u]
  <2>1. CASE Call(v) \/ Expire(v)
    BY <1>1, <2>1 DEF Call, Expire, Goto
  <2>2. CASE Advance(v)
    BY <1>1, <2>2 DEF Advance, Goto, LoopDone, LoopLive, FromPool, PoolEmpty, DialOk,
              DialError, TripOk, TripError, DeferOpen, DeferClosed, PutConn, Leave
  <2> QED
    BY <2>1, <2>2
<1>3. lease'[u] = lease[u]
  <2>1. CASE Call(v) \/ Expire(v) \/ LoopDone(v) \/ LoopLive(v) \/ DialError(v) \/ TripOk(v)
    BY <2>1 DEF Call, Expire, LoopDone, LoopLive, DialError, TripOk, poolVars
  <2>2. CASE FromPool(v) \/ PoolEmpty(v)
    BY <1>1, <2>2 DEF FromPool, PoolEmpty, GetHit, GetMiss, poolVars
  <2>3. CASE DialOk(v)
    BY <1>1, <2>3 DEF DialOk, Dial
  <2>4. CASE TripError(v) \/ DeferClosed(v)
    BY <1>1, <2>4 DEF TripError, DeferClosed, Discard
  <2>5. CASE DeferOpen(v) \/ PutConn(v)
    BY <1>1, <2>5 DEF DeferOpen, PutConn, Return, Put
  <2> QED
    BY <2>1, <2>2, <2>3, <2>4, <2>5 DEF Advance
<1>4. lease[u] # NoConn /\ lease[u] \in reused' => lease[u] \in reused
  <2>1. CASE PutConn(v)
    <3>1. reused' = reused \cup {lease[v]}
      BY <2>1 DEF PutConn, Put
    <3>2. lease[u] # NoConn => lease[u] # lease[v]
      BY DEF CallInv, Exclusive
    <3> QED
      BY <3>1, <3>2
  <2>2. CASE Call(v) \/ Expire(v) \/ LoopDone(v) \/ LoopLive(v) \/ DialError(v) \/ TripOk(v)
    BY <2>2 DEF Call, Expire, LoopDone, LoopLive, DialError, TripOk, poolVars
  <2>3. CASE FromPool(v) \/ PoolEmpty(v) \/ DialOk(v)
    BY <2>3 DEF FromPool, PoolEmpty, DialOk, GetHit, GetMiss, Dial, poolVars
  <2>4. CASE TripError(v) \/ DeferClosed(v) \/ DeferOpen(v)
    BY <2>4 DEF TripError, DeferClosed, DeferOpen, Discard, Return
  <2> QED
    BY <2>1, <2>2, <2>3, <2>4 DEF Advance
<1> QED
  BY <1>1, <1>2, <1>3, <1>4 DEF Accounting

\* A step of call u keeps its own account.
LEMMA OwnCall ==
  ASSUME CallInv, NEW u \in Users, Call(u) \/ Expire(u) \/ Advance(u)
  PROVE  Accounting(u)' /\ (lease'[u] # NoConn <=> pc'[u] \in {"trip", "defer", "put"})
<1> USE DEF Accounting, Goto
<1>1. /\ pc \in [Users -> Steps] /\ target \in [Users -> Keys]
      /\ lease \in [Users -> dialed \cup {NoConn}]
      /\ retryCount \in [Users -> 0 .. maxRetryCount + 1] /\ handled \in [Users -> Nat]
      /\ Accounting(u) /\ (lease[u] # NoConn <=> pc[u] \in {"trip", "defer", "put"})
      /\ reused \subseteq dialed /\ dialed \subseteq Conns /\ NoConn \notin Conns
  BY PoolAssumption DEF CallInv, CallTypeOK, TypeOK
<1>2. CASE Call(u)
  <2>1. lease' = lease /\ pc[u] = "idle" /\ pc'[u] = "loop"
    BY <1>1, <1>2 DEF Call, poolVars
  <2>2. retryCount' = retryCount /\ handled' = handled
    BY <1>2 DEF Call
  <2> QED
    BY <1>1, <2>1, <2>2
<1>3. CASE Expire(u) \/ LoopLive(u)
  BY <1>1, <1>3 DEF Expire, LoopLive, poolVars
<1>4. CASE LoopDone(u) \/ DialError(u)
  BY <1>1, <1>4 DEF LoopDone, DialError, Leave, poolVars
<1>5. CASE FromPool(u)
  <2>1. PICK i \in Usable(target[u]) : lease' = [lease EXCEPT ![u] = pool[target[u]][i]]
    BY <1>5 DEF FromPool, GetHit
  <2> DEFINE c == pool[target[u]][i]
  <2>2. target[u] \in Keys /\ c \in Pooled(target[u])
    BY <1>1, <2>1 DEF Usable, Pooled
  <2>3. KeyOf[c] = target[u] /\ c \in dialed
    BY <2>2, PooledAreDialed DEF CallInv, Exclusive
  <2> HIDE DEF c
  <2>4. lease'[u] = c /\ c # NoConn
    BY <1>1, <2>1, <2>3 DEF c
  <2>5. /\ pc[u] = "get" /\ pc'[u] = "trip" /\ retryCount' = retryCount
        /\ handled' = handled /\ target' = target
    BY <1>1, <1>5 DEF FromPool
  <2> QED
    BY <1>1, <2>3, <2>4, <2>5
<1>6. CASE PoolEmpty(u)
  BY <1>1, <1>6 DEF PoolEmpty, GetMiss, poolVars
<1>7. CASE DialOk(u)
  <2>1. PICK c \in Conns : KeyOf[c] = target[u] /\ Dial(u, c)
    BY <1>7 DEF DialOk
  <2>2. lease'[u] = c /\ c # NoConn /\ c \notin reused /\ reused' = reused
    BY <1>1, <2>1 DEF Dial
  <2>3. /\ pc[u] = "dial" /\ pc'[u] = "trip" /\ retryCount' = retryCount
        /\ handled' = handled /\ target' = target
    BY <1>1, <1>7 DEF DialOk
  <2> QED
    BY <1>1, <2>1, <2>2, <2>3
<1>8. CASE TripOk(u)
  <2>1. handled'[u] = handled[u] + 1 /\ lease' = lease /\ retryCount' = retryCount
    BY <1>1, <1>8 DEF TripOk, poolVars
  <2>2. pc[u] = "trip" /\ pc'[u] = "defer"
    BY <1>1, <1>8 DEF TripOk
  <2> QED
    BY <1>1, <2>1, <2>2
<1>9. CASE TripError(u)
  <2>1. lease'[u] = NoConn
    BY <1>1, <1>9 DEF TripError, Discard
  <2>2. CASE /\ MayRetry(u) /\ pc[u] = "trip" /\ pc'[u] = "loop"
             /\ \E n \in {0, 1} : handled'[u] = handled[u] + n
             /\ retryCount'[u] = retryCount[u] + 1
    <3>1. retryCount[u] = 0
      BY <1>1, <2>2 DEF MayRetry
    <3> QED
      BY <1>1, <2>1, <2>2, <3>1
  <2>3. CASE Leave(u, "trip", TRUE)
    BY <1>1, <2>1, <2>3 DEF Leave
  <2> QED
    BY <1>1, <1>9, <2>2, <2>3 DEF TripError
<1>10. CASE DeferOpen(u)
  BY <1>1, <1>10 DEF DeferOpen, Return
<1>11. CASE DeferClosed(u)
  BY <1>1, <1>11 DEF DeferClosed, Discard, Leave
<1>12. CASE PutConn(u)
  <2>1. /\ pc[u] = "put" /\ pc'[u] = "idle" /\ retryCount'[u] = 0 /\ handled'[u] = 0
        /\ lease'[u] = NoConn
    BY <1>1, <1>12 DEF PutConn, Put, Leave
  <2> QED
    BY <1>1, <2>1
<1> QED
  BY <1>2, <1>3, <1>4, <1>5, <1>6, <1>7, <1>8, <1>9, <1>10, <1>11, <1>12 DEF Advance

\* The pool's own goroutines touch neither a lease nor reused.
LEMMA BackgroundFrame ==
  ASSUME CallInv, Background
  PROVE  lease' = lease /\ reused' = reused
BY DEF Background, Break, TimerFire, IdleRemove, IdleClose, Tick

\* A step keeps every account and holds a connection where it should.
LEMMA AccountingStep ==
  ASSUME CallInv, [Next]_vars, NEW u \in Users
  PROVE  Accounting(u)' /\ (lease'[u] # NoConn <=> pc'[u] \in {"trip", "defer", "put"})
<1>1. Accounting(u) /\ (lease[u] # NoConn <=> pc[u] \in {"trip", "defer", "put"})
  BY DEF CallInv, CallTypeOK
<1>2. ASSUME NEW v \in Users, Call(v) \/ Expire(v) \/ Advance(v)
      PROVE  Accounting(u)' /\ (lease'[u] # NoConn <=> pc'[u] \in {"trip", "defer", "put"})
  <2>1. CASE u = v
    BY <1>2, <2>1, OwnCall
  <2>2. CASE u # v
    BY <1>2, <2>2, OtherCalls
  <2> QED
    BY <2>1, <2>2
<1>3. CASE Background /\ UNCHANGED callVars
  BY <1>1, <1>3, BackgroundFrame DEF callVars, Accounting
<1>4. CASE UNCHANGED vars
  BY <1>1, <1>4 DEF vars, poolVars, callVars, Accounting
<1> QED
  BY <1>2, <1>3, <1>4 DEF Next

\* A step keeps every local variable in its type.
LEMMA CallTypeStep ==
  ASSUME CallInv, [Next]_vars, TypeOK'
  PROVE  CallTypeOK'
<1> DEFINE Locals ==
      /\ pc \in [Users -> Steps] /\ target \in [Users -> Keys]
      /\ handled \in [Users -> Nat]
      /\ expired \in [Users -> BOOLEAN] /\ err \in [Users -> BOOLEAN]
      /\ \E f \in [Users -> Nat] : retryCount = f
<1>1. Locals
  <2>1. retryCount \in [Users -> Nat]
    BY RetryAssumption DEF CallInv, CallTypeOK
  <2> QED
    BY <2>1 DEF CallInv, CallTypeOK
<1>2. Locals'
  <2>0. ASSUME NEW u \in Users, Expire(u) PROVE Locals'
    BY <1>1, <2>0 DEF Expire
  <2>1. ASSUME NEW u \in Users, Call(u) PROVE Locals'
    <3>1. PICK k \in Keys : target' = [target EXCEPT ![u] = k]
      BY <2>1 DEF Call
    <3>2. /\ pc' \in [Users -> Steps] /\ err' \in [Users -> BOOLEAN]
          /\ expired' = expired /\ handled' = handled /\ retryCount' = retryCount
      BY <1>1, <2>1 DEF Call, Goto, Steps
    <3> QED
      BY <1>1, <3>1, <3>2
  <2>2. ASSUME NEW u \in Users, NEW from, NEW failed \in BOOLEAN, Leave(u, from, failed)
        PROVE  Locals'
    BY <1>1, <2>2 DEF Leave, Goto, Steps
  <2>3. ASSUME NEW u \in Users, DialError(u) \/ DeferClosed(u) \/ PutConn(u) PROVE Locals'
    BY <2>2, <2>3 DEF DialError, DeferClosed, PutConn
  <2>4. ASSUME NEW u \in Users,
               LoopLive(u) \/ FromPool(u) \/ PoolEmpty(u) \/ DialOk(u) \/ DeferOpen(u)
        PROVE  Locals'
    BY <1>1, <2>4 DEF LoopLive, FromPool, PoolEmpty, DialOk, DeferOpen, Goto, Steps
  <2>5. ASSUME NEW u \in Users, TripOk(u) PROVE Locals'
    BY <1>1, <2>5 DEF TripOk, Goto, Steps
  <2>6. ASSUME NEW u \in Users, LoopDone(u) PROVE Locals'
    <3>1. CASE Leave(u, "loop", TRUE)
      BY <2>2, <3>1
    <3>2. CASE Goto(u, "loop", "crashed") /\ UNCHANGED <<target, expired, retryCount, err, handled>>
      BY <1>1, <3>2 DEF Goto, Steps
    <3> QED
      BY <2>6, <3>1, <3>2 DEF LoopDone
  <2>7. ASSUME NEW u \in Users, TripError(u) PROVE Locals'
    <3>1. CASE Leave(u, "trip", TRUE)
      BY <2>2, <3>1
    <3>2. CASE /\ Goto(u, "trip", "loop") /\ err' = [err EXCEPT ![u] = TRUE]
               /\ \E n \in {0, 1} : handled' = [handled EXCEPT ![u] = @ + n]
               /\ retryCount' = [retryCount EXCEPT ![u] = @ + 1]
               /\ UNCHANGED <<target, expired>>
      <4>1. PICK n \in {0, 1} : handled' = [handled EXCEPT ![u] = @ + n]
        BY <3>2
      <4>2. handled' \in [Users -> Nat] /\ \E f \in [Users -> Nat] : retryCount' = f
        BY <1>1, <3>2, <4>1
      <4>3. pc' \in [Users -> Steps]
        BY <1>1, <3>2 DEF Goto, Steps
      <4> QED
        BY <1>1, <3>2, <4>2, <4>3
    <3> QED
      BY <2>7, <3>1, <3>2 DEF TripError
  <2>8. CASE UNCHANGED callVars \/ UNCHANGED vars
    BY <1>1, <2>8 DEF vars, callVars
  <2> QED
    BY <2>0, <2>1, <2>3, <2>4, <2>5, <2>6, <2>7, <2>8 DEF Next, Advance
<1>3. retryCount' \in [Users -> 0 .. maxRetryCount + 1]
  <2>1. \A u \in Users : retryCount'[u] \in {0, 1}
    BY AccountingStep DEF Accounting
  <2>2. {0, 1} \subseteq 0 .. maxRetryCount + 1
    BY RetryAssumption
  <2> QED
    BY <1>2, <2>1, <2>2
<1>4. \A u \in Users : (lease'[u] # NoConn <=> pc'[u] \in {"trip", "defer", "put"})
  BY AccountingStep
<1> QED
  BY <1>2, <1>3, <1>4 DEF CallTypeOK

\* The invariant is inductive.
LEMMA CallStep == CallInv /\ [Next]_vars => CallInv'
<1> SUFFICES ASSUME CallInv, [Next]_vars PROVE CallInv'
  OBVIOUS
<1>1. [PoolNext]_poolVars
  BY StepUsesPool DEF CallInv, CallTypeOK, TargetOK
<1>2. TypeOK' /\ Exclusive'
  BY <1>1, TypeStep, ExclusiveStep DEF CallInv
<1>3. CallTypeOK'
  BY <1>2, CallTypeStep
<1>4. \A u \in Users : Accounting(u)'
  BY AccountingStep
<1> QED
  BY <1>2, <1>3, <1>4 DEF CallInv

\* The local variables of roundTrip (transport.go:177-184) keep their types,
\* and a call holds a connection exactly from getConn to the end of the
\* deferred function.
THEOREM CallTypeCorrect == Spec => []CallTypeOK
<1>1. CallInv => CallTypeOK
  BY DEF CallInv
<1> QED
  BY <1>1, CallInit, CallStep, PTL DEF Spec

\* However many calls share the pool and whatever maxRetryCount is, a call
\* makes at most two trips, its retry is on a connection of its own, and the
\* server runs the handler for it at most twice (transport.go:223-250).
THEOREM CallsMakeTwoTrips == Spec => []AtMostTwoTrips
<1>1. CallInv => AtMostTwoTrips
  BY DEF CallInv, Accounting, AtMostTwoTrips
<1> QED
  BY <1>1, CallInit, CallStep, PTL DEF Spec

\* What a step that ends call u says of it.
Outcome(u) ==
  pc[u] # "idle" /\ pc'[u] = "idle" =>
    IF err'[u]
      THEN expired[u] \/ pc[u] = "dial" \/ lease[u] \notin reused
      ELSE handled[u] > 0

\* Leave is the only way a call ends.
LEMMA EndsByLeave ==
  ASSUME CallInv, [Next]_vars, NEW u \in Users, pc[u] # "idle", pc'[u] = "idle"
  PROVE  \/ LoopDone(u) /\ Leave(u, "loop", TRUE)
         \/ DialError(u) \/ DeferClosed(u) \/ PutConn(u)
         \/ ~MayRetry(u) /\ Leave(u, "trip", TRUE)
<1>1. pc \in [Users -> Steps]
  BY DEF CallInv, CallTypeOK
<1>2. ~UNCHANGED vars /\ ~UNCHANGED callVars
  BY DEF vars, callVars
<1>3. PICK v \in Users : Call(v) \/ Expire(v) \/ Advance(v)
  BY <1>2 DEF Next
<1>4. u = v
  BY <1>1, <1>3 DEF Call, Expire, Advance, Goto, LoopDone, LoopLive, FromPool, PoolEmpty,
            DialOk, DialError, TripOk, TripError, DeferOpen, DeferClosed, PutConn, Leave
<1>5. ~Call(u) /\ ~Expire(u) /\ ~LoopLive(u) /\ ~FromPool(u) /\ ~PoolEmpty(u)
      /\ ~DialOk(u) /\ ~TripOk(u) /\ ~DeferOpen(u)
  BY <1>1 DEF Call, Expire, Goto, LoopLive, FromPool, PoolEmpty, DialOk, TripOk, DeferOpen
<1>6. CASE LoopDone(u)
  BY <1>1, <1>6 DEF LoopDone, Goto
<1>7. CASE TripError(u)
  BY <1>1, <1>7 DEF TripError, Goto
<1> QED
  BY <1>3, <1>4, <1>5, <1>6, <1>7 DEF Advance

\* A failed trip on a pooled connection is retried, since only a first trip
\* can be on a pooled connection.
LEMMA OutcomeStep == ASSUME CallInv, [Next]_vars, NEW u \in Users PROVE Outcome(u)
<1> SUFFICES ASSUME pc[u] # "idle", pc'[u] = "idle" PROVE Outcome(u)
  BY DEF Outcome
<1>1. Accounting(u) /\ err \in [Users -> BOOLEAN]
  BY DEF CallInv, CallTypeOK
<1>2. CASE LoopDone(u) /\ Leave(u, "loop", TRUE)
  BY <1>1, <1>2 DEF LoopDone, Leave, Outcome
<1>3. CASE DialError(u)
  BY <1>1, <1>3 DEF DialError, Leave, Goto, Outcome
<1>4. CASE DeferClosed(u) \/ PutConn(u)
  BY <1>1, <1>4 DEF DeferClosed, PutConn, Leave, Goto, Outcome, Accounting
<1>5. CASE ~MayRetry(u) /\ Leave(u, "trip", TRUE)
  <2>1. lease[u] \notin reused
    BY <1>1, <1>5, RetryAssumption DEF MayRetry, Accounting, Leave, Goto
  <2> QED
    BY <1>1, <1>5, <2>1 DEF Leave, Outcome
<1> QED
  BY <1>2, <1>3, <1>4, <1>5, EndsByLeave

\* A call that returns a response ran the handler, and one that fails did so
\* with its context done, while dialing, or on a connection that was never
\* pooled: a stale pooled connection alone fails no call (transport.go:242-251).
THEOREM StaleConnectionsAreRetried == Spec => StaleConnIsRetried
<1>1. CallInv /\ [Next]_vars => [\A u \in Users : Outcome(u)]_vars
  BY OutcomeStep
<1>2. Spec => [][\A u \in Users : Outcome(u)]_vars
  BY <1>1, CallInit, CallStep, PTL DEF Spec
<1> QED
  BY <1>2 DEF StaleConnIsRetried, Outcome

-----------------------------------------------------------------------------
(* The calls are calls of Transport.                                       *)

\* What the client's side of a step does, Transport does, and the server's
\* steps leave its variables alone.
LEMMA StepIsTransports == [RpcNext]_rpcVars => [Next]_vars
<1>1. ASSUME NEW u \in Users, Ask(u) PROVE Call(u)
  BY <1>1 DEF Ask
<1>2. ASSUME NEW u \in Users, Proceed(u) PROVE Advance(u) \/ UNCHANGED vars
  BY <1>2 DEF Proceed, OffTrip, BeginTrip, Write, TripAnswered, TripFails, Advance
<1>3. ASSUME NEW c \in Conns, ServerHandles(c) \/ ServerCloses(c) PROVE UNCHANGED vars
  BY <1>3 DEF ServerHandles, ServerCloses
<1>4. CASE UNCHANGED rpcVars
  BY <1>4 DEF rpcVars
<1> QED
  BY <1>1, <1>2, <1>3, <1>4 DEF RpcNext, Environment, Next

\* Putting the streams and the server around the retry loop adds nothing to
\* what it may do (transport.go:177-252 over persistconn.go): the end-to-end
\* specification implements Transport's.
THEOREM CallsAreTransports == RpcSpec => Spec
<1>1. RpcInit => Init
  BY DEF RpcInit
<1> QED
  BY <1>1, StepIsTransports, PTL DEF RpcSpec, Spec

\* The invariant of the retry loop holds end to end.
LEMMA CallInvHolds == RpcSpec => []CallInv
BY CallsAreTransports, CallInit, CallStep, PTL DEF Spec

\* With a server that runs handlers late, answers late or closes, a call still
\* makes at most two trips, and a stale pooled connection alone fails no call
\* (transport.go:223-251).
THEOREM RetriesEndToEnd == RpcSpec => []AtMostTwoTrips /\ StaleConnIsRetried
BY CallsAreTransports, CallsMakeTwoTrips, StaleConnectionsAreRetried, PTL

-----------------------------------------------------------------------------
(* The inductive invariant.                                                *)

\* The number of the last trip on connection c.
LastTrip(c) == Len(trips[c])

\* The connections on which call n has made a trip, and those on which the
\* server has read its request.
TripsOf(n) == {c \in Conns : \E t \in DOMAIN trips[c] : trips[c][t] = n}
ReadOf(n) == {c \in Conns : \E t \in taken[c] : trips[c][t] = n}

\* Every variable of Rpc's own holds a value of its type, and no two
\* goroutines make the same call.
HistoryOK ==
  /\ asked \in 0 .. MaxCalls
  /\ request \in [Users -> 0 .. asked]
  /\ outcome \in [Calls -> Nat] /\ ran \in [Calls -> Nat]
  /\ trips \in [Conns -> Seq(1 .. asked)] /\ written \subseteq Users
  /\ up \in [Conns -> Seq(Nat)]
  /\ down \in [Conns -> Seq([trip : Nat, ok : BOOLEAN])]
  /\ taken \in [Conns -> SUBSET Nat] /\ served \in [Conns -> SUBSET Nat]
  /\ \A u, v \in Users : request[u] = request[v] /\ request[u] # 0 => u = v

\* No trip is under way on connection c.
Unused(c) == \A u \in Users : lease[u] = c => ~OnTrip(u)

\* The streams of connection c carry a request of its last trip that the
\* server has not read, or an answer to one that it has, or nothing; nothing
\* at all if it is open with no trip under way.  No call makes two trips on c.
StreamsOK(c) ==
  /\ up[c] # <<>> =>
       up[c] = <<LastTrip(c)>> /\ LastTrip(c) > 0 /\ LastTrip(c) \notin taken[c]
  /\ down[c] # <<>> =>
       /\ \E ok \in BOOLEAN :
            /\ down[c] = <<[trip |-> LastTrip(c), ok |-> ok]>>
            /\ ok => ran[trips[c][LastTrip(c)]] > 0
       /\ LastTrip(c) \in taken[c]
  /\ taken[c] \subseteq 1 .. LastTrip(c)
  /\ \A s, t \in 1 .. LastTrip(c) : trips[c][s] = trips[c][t] => s = t
  /\ c \notin dialed => trips[c] = <<>>
  /\ c \notin closed /\ Unused(c) => up[c] = <<>> /\ down[c] = <<>>

\* While goroutine u is on a trip, the last trip of its connection is its own,
\* and nothing is under way before it is written.
TripOK(u) ==
  /\ u \in written => OnTrip(u)
  /\ OnTrip(u) =>
       LET c == lease[u] IN
         /\ LastTrip(c) > 0 /\ trips[c][LastTrip(c)] = request[u]
         /\ u \notin written =>
              up[c] = <<>> /\ down[c] = <<>> /\ LastTrip(c) \notin taken[c]

\* Until its outcome is known a call has made as many trips as it has retried,
\* and one more when it is on a trip.
CallOK(u) ==
  /\ pc[u] # "idle" => request[u] # 0
  /\ pc[u] \in {"loop", "get", "dial", "trip"} =>
       /\ outcome[request[u]] = Pending
       /\ Cardinality(TripsOf(request[u])) <=
            retryCount[u] + (IF OnTrip(u) THEN 1 ELSE 0)

\* Call n is on at most two connections, and its handler has run at most once
\* for each one on which the server has read it.
RunsOK(n) ==
  /\ IsFiniteSet(TripsOf(n)) /\ Cardinality(TripsOf(n)) <= 2
  /\ ran[n] <= Cardinality(ReadOf(n))
  /\ n > asked => outcome[n] = Pending

\* The inductive invariant, next to CallInv.
RpcInv ==
  /\ HistoryOK
  /\ \A c \in Conns : StreamsOK(c)
  /\ \A u \in Users : TripOK(u) /\ CallOK(u)
  /\ \A n \in Calls : RunsOK(n)

\* No call has been made.
LEMMA RpcInvInit == RpcInit => RpcInv
<1> SUFFICES ASSUME RpcInit PROVE RpcInv
  OBVIOUS
<1>1. HistoryOK
  BY CallsAssumption DEF RpcInit, HistoryOK, Calls, Pending
<1>2. \A c \in Conns : StreamsOK(c)
  BY DEF RpcInit, StreamsOK, LastTrip, Init, PoolInit
<1>3. \A u \in Users : TripOK(u) /\ CallOK(u)
  BY DEF RpcInit, TripOK, CallOK, Init, OnTrip
<1>4. ASSUME NEW n \in Calls PROVE RunsOK(n)
  <2>1. TripsOf(n) = {} /\ ReadOf(n) = {}
    BY DEF RpcInit, TripsOf, ReadOf
  <2> QED
    BY <2>1, FS_EmptySet DEF RunsOK, RpcInit, Calls, Pending
<1> QED
  BY <1>1, <1>2, <1>3, <1>4 DEF RpcInv

-----------------------------------------------------------------------------
(* Each step keeps the invariant: the steps outside a trip.                *)

\* The steps of a call whose outcome is not known yet.
Active == {"loop", "get", "dial", "trip"}

\* The types the steps are read with.
LEMMA Types ==
  ASSUME CallInv, RpcInv
  PROVE  /\ pc \in [Users -> Steps] /\ retryCount \in [Users -> 0 .. maxRetryCount + 1]
         /\ err \in [Users -> BOOLEAN] /\ lease \in [Users -> dialed \cup {NoConn}]
         /\ dialed \subseteq Conns /\ NoConn \notin Conns /\ NoConn \notin dialed
         /\ closed \subseteq dialed
         /\ \A u \in Users : lease[u] # NoConn <=> pc[u] \in {"trip", "defer", "put"}
         /\ \A u \in Users : OnTrip(u) => lease[u] \in Conns
         /\ \A u \in Users : pc[u] # "idle" => request[u] \in Calls
         /\ \A u, v \in Users : lease[u] = lease[v] /\ lease[u] # NoConn => u = v
<1>1. TypeOK /\ CallTypeOK /\ Exclusive /\ HistoryOK /\ \A u \in Users : CallOK(u)
  BY DEF CallInv, RpcInv
<1>2. /\ pc \in [Users -> Steps] /\ retryCount \in [Users -> 0 .. maxRetryCount + 1]
      /\ err \in [Users -> BOOLEAN] /\ lease \in [Users -> dialed \cup {NoConn}]
      /\ dialed \subseteq Conns /\ NoConn \notin Conns
      /\ closed \subseteq dialed
      /\ \A u \in Users : lease[u] # NoConn <=> pc[u] \in {"trip", "defer", "put"}
  BY <1>1, PoolAssumption DEF TypeOK, CallTypeOK
<1>3. \A u \in Users : pc[u] # "idle" => request[u] \in Calls
  BY <1>1, CallsAssumption DEF HistoryOK, CallOK, Calls
<1>4. \A u \in Users : OnTrip(u) => lease[u] \in Conns
  BY <1>2 DEF OnTrip
<1>5. \A u, v \in Users : lease[u] = lease[v] /\ lease[u] # NoConn => u = v
  BY <1>1 DEF Exclusive
<1> QED
  BY <1>2, <1>3, <1>4, <1>5

\* A step that neither begins nor ends a trip, and touches no stream.
LEMMA QuietKeeps ==
  ASSUME CallInv, RpcInv,
         UNCHANGED <<asked, request, trips, served, written, streams, ran, dialed>>,
         closed \subseteq closed',
         \A u \in Users : (OnTrip(u)' <=> OnTrip(u)) /\ (OnTrip(u) => lease'[u] = lease[u]),
         \A u \in Users : pc'[u] # "idle" => pc[u] # "idle",
         \A u \in Users : pc'[u] \in Active =>
            /\ pc[u] \in Active /\ retryCount'[u] = retryCount[u]
            /\ outcome'[request[u]] = outcome[request[u]],
         outcome' \in [Calls -> Nat],
         \A n \in Calls : n > asked => outcome'[n] = outcome[n]
  PROVE  RpcInv'
<1>1. HistoryOK'
  BY DEF RpcInv, HistoryOK, streams
<1>2. ASSUME NEW c \in Conns PROVE StreamsOK(c)'
  <2>1. Unused(c)' => Unused(c)
    BY DEF Unused
  <2> QED
    BY <2>1 DEF RpcInv, StreamsOK, LastTrip, streams
<1>3. ASSUME NEW u \in Users PROVE TripOK(u)' /\ CallOK(u)'
  <2>1. TripOK(u) /\ CallOK(u)
    BY DEF RpcInv
  <2>2. TripOK(u)'
    BY <2>1 DEF TripOK, LastTrip, streams
  <2>3. TripsOf(request[u])' = TripsOf(request[u])
    BY DEF TripsOf
  <2>4. CallOK(u)'
    BY <2>1, <2>3 DEF CallOK, Active
  <2> QED
    BY <2>2, <2>4
<1>4. ASSUME NEW n \in Calls PROVE RunsOK(n)'
  <2>1. TripsOf(n)' = TripsOf(n) /\ ReadOf(n)' = ReadOf(n)
    BY DEF TripsOf, ReadOf, streams
  <2> QED
    BY <2>1 DEF RpcInv, RunsOK
<1> QED
  BY <1>1, <1>2, <1>3, <1>4 DEF RpcInv

\* Outside a trip a call only moves on, gives its connection up or ends; it
\* fails, if it does, before its outcome is known.
LEMMA OffTripEffect ==
  ASSUME CallInv, RpcInv, NEW u \in Users, OffTrip(u)
  PROVE  /\ pc[u] \notin {"idle", "trip"} /\ pc'[u] \notin {"trip", "defer"}
         /\ \A v \in Users \ {u} :
              pc'[v] = pc[v] /\ lease'[v] = lease[v] /\ retryCount'[v] = retryCount[v]
         /\ dialed' = dialed /\ closed \subseteq closed'
         /\ pc'[u] \in Active => pc[u] \in Active /\ retryCount'[u] = retryCount[u]
         /\ pc'[u] = "idle" /\ err'[u] => pc[u] \in Active
<1> USE Types DEF Goto, Active, poolVars
<1>1. CASE LoopDone(u) \/ DialError(u)
  BY <1>1 DEF LoopDone, DialError, Leave
<1>2. CASE LoopLive(u)
  BY <1>2 DEF LoopLive
<1>3. CASE PoolEmpty(u)
  BY <1>3 DEF PoolEmpty, GetMiss, CloseAll
<1>4. CASE DeferOpen(u)
  BY <1>4 DEF DeferOpen, Return
<1>5. CASE DeferClosed(u)
  BY <1>5 DEF DeferClosed, Discard, CloseAll, Leave
<1>6. CASE PutConn(u)
  BY <1>6 DEF PutConn, Put, CloseAll, Leave
<1> QED
  BY <1>1, <1>2, <1>3, <1>4, <1>5, <1>6 DEF OffTrip

\* A step of call u outside a trip keeps the invariant.
LEMMA OffTripKeeps ==
  ASSUME CallInv, RpcInv, NEW u \in Users, OffTrip(u)
  PROVE  RpcInv'
<1>1. /\ pc[u] \notin {"idle", "trip"} /\ pc'[u] # "trip"
      /\ \A v \in Users \ {u} :
           pc'[v] = pc[v] /\ lease'[v] = lease[v] /\ retryCount'[v] = retryCount[v]
      /\ dialed' = dialed /\ closed \subseteq closed'
      /\ pc'[u] \in Active => pc[u] \in Active /\ retryCount'[u] = retryCount[u]
  BY OffTripEffect
<1>2. UNCHANGED <<asked, request, trips, served, written, streams, ran>>
  BY DEF OffTrip, streams
<1>3. /\ outcome' \in [Calls -> Nat] /\ request[u] \in Calls
      /\ pc'[u] # "idle" => outcome' = outcome
      /\ \A n \in Calls : n # request[u] => outcome'[n] = outcome[n]
  BY <1>1, Types, CallsAssumption DEF OffTrip, RpcInv, HistoryOK, Failed
<1>4. \A v \in Users \ {u} : request[v] # request[u] /\ request[v] \in 0 .. asked
  BY <1>3, CallsAssumption DEF RpcInv, HistoryOK, Calls
<1>5. \A v \in Users : (OnTrip(v)' <=> OnTrip(v)) /\ (OnTrip(v) => lease'[v] = lease[v])
  BY <1>1 DEF OnTrip
<1>6. \A v \in Users : pc'[v] # "idle" => pc[v] # "idle"
  BY <1>1
<1>7. \A v \in Users : pc'[v] \in Active =>
            /\ pc[v] \in Active /\ retryCount'[v] = retryCount[v]
            /\ outcome'[request[v]] = outcome[request[v]]
  <2> SUFFICES ASSUME NEW v \in Users, pc'[v] \in Active
               PROVE  /\ pc[v] \in Active /\ retryCount'[v] = retryCount[v]
                      /\ outcome'[request[v]] = outcome[request[v]]
    OBVIOUS
  <2>1. CASE v = u
    BY <1>1, <1>3, <2>1 DEF Active
  <2>2. CASE v # u
    BY <1>1, <1>3, <1>4, <2>2, Types DEF Active
  <2> QED
    BY <2>1, <2>2
<1>8. \A n \in Calls : n > asked => outcome'[n] = outcome[n]
  BY <1>3 DEF RpcInv, HistoryOK, Calls
<1> QED
  BY <1>1, <1>2, <1>3, <1>5, <1>6, <1>7, <1>8, QuietKeeps

\* Deadlines, the pool's timers and connections that break keep the invariant.
LEMMA EnvironmentKeeps ==
  ASSUME CallInv, RpcInv, Environment
  PROVE  RpcInv'
<1>1. /\ UNCHANGED <<asked, request, trips, served, written, streams, ran, dialed, outcome>>
      /\ closed \subseteq closed' /\ UNCHANGED <<pc, retryCount, lease>>
  <2>1. UNCHANGED <<asked, request, trips, served, written, streams, ran, outcome>>
    BY DEF Environment, history
  <2>2. ASSUME NEW u \in Users, Expire(u)
        PROVE  UNCHANGED <<dialed, closed, pc, retryCount, lease>>
    BY <2>2 DEF Expire, poolVars
  <2>3. ASSUME Background, UNCHANGED callVars
        PROVE  closed \subseteq closed' /\ UNCHANGED <<dialed, pc, retryCount, lease>>
    BY <2>3 DEF callVars, Background, Break, TimerFire, IdleRemove, IdleClose, Tick, CloseAll
  <2> QED
    BY <2>1, <2>2, <2>3 DEF Environment
<1>2. \A u \in Users : OnTrip(u)' <=> OnTrip(u)
  BY <1>1 DEF OnTrip
<1> QED
  BY <1>1, <1>2, QuietKeeps DEF RpcInv, HistoryOK

\* A new call is numbered after all others, and has made no trip.
LEMMA AskKeeps ==
  ASSUME CallInv, RpcInv, NEW u \in Users, Ask(u)
  PROVE  RpcInv'
<1>0. PICK n \in Calls : n = asked + 1
  BY CallsAssumption DEF Ask, RpcInv, HistoryOK, Calls
<1>1. /\ n = asked + 1 /\ asked' = n /\ request' = [request EXCEPT ![u] = n]
      /\ UNCHANGED <<outcome, written, trips, served, streams, ran>>
  BY <1>0 DEF Ask
<1>2. /\ pc[u] = "idle" /\ pc' = [pc EXCEPT ![u] = "loop"]
      /\ UNCHANGED <<dialed, closed, lease, retryCount>>
  BY DEF Ask, Call, Goto, poolVars
<1>3. \A v \in Users : OnTrip(v)' <=> OnTrip(v)
  BY <1>2, Types DEF OnTrip
<1>4. HistoryOK'
  <2>1. /\ asked' \in 0 .. MaxCalls /\ request' \in [Users -> 0 .. asked']
        /\ \A v, w \in Users : request'[v] = request'[w] /\ request'[v] # 0 => v = w
    BY <1>1, CallsAssumption DEF RpcInv, HistoryOK, Calls
  <2>2. 1 .. asked \subseteq 1 .. asked'
    BY <1>1 DEF RpcInv, HistoryOK
  <2>3. \A c \in Conns : trips[c] \in Seq(1 .. asked')
    BY <2>2, SeqMonotonic DEF RpcInv, HistoryOK
  <2>4. trips' \in [Conns -> Seq(1 .. asked')]
    BY <1>1, <2>3 DEF RpcInv, HistoryOK
  <2> QED
    BY <1>1, <2>1, <2>4 DEF RpcInv, HistoryOK, streams
<1>5. ASSUME NEW c \in Conns PROVE StreamsOK(c)'
  BY <1>1, <1>2, <1>3 DEF RpcInv, StreamsOK, LastTrip, Unused, streams
<1>6. \A m \in Calls : TripsOf(m)' = TripsOf(m) /\ ReadOf(m)' = ReadOf(m)
  BY <1>1 DEF TripsOf, ReadOf, streams
<1>7. TripsOf(n) = {}
  <2>1. \A c \in Conns : \A t \in DOMAIN trips[c] : trips[c][t] \in 1 .. asked
    BY DEF RpcInv, HistoryOK
  <2> QED
    BY <1>0, <2>1 DEF TripsOf, RpcInv, HistoryOK
<1>8. ASSUME NEW v \in Users PROVE TripOK(v)' /\ CallOK(v)'
  <2>1. CASE v = u
    <3>1. outcome[n] = Pending /\ retryCount[u] = 0
      BY <1>1, <1>2 DEF RpcInv, RunsOK, HistoryOK, CallInv, Accounting
    <3>2. request'[u] = n /\ pc'[u] = "loop"
      BY <1>1, <1>2, Types DEF RpcInv, HistoryOK
    <3>3. Cardinality(TripsOf(n)') = 0
      BY <1>1, <1>6, <1>7, FS_EmptySet
    <3>4. CallOK(u)'
      BY <1>1, <1>2, <3>1, <3>2, <3>3 DEF CallOK, OnTrip, RpcInv, HistoryOK
    <3>5. TripOK(u)'
      BY <1>1, <1>2, <3>2 DEF TripOK, OnTrip, RpcInv
    <3> QED
      BY <2>1, <3>4, <3>5
  <2>2. CASE v # u
    <3>1. request'[v] = request[v] /\ pc'[v] = pc[v]
      BY <1>1, <1>2, <2>2, Types DEF RpcInv, HistoryOK
    <3>2. TripOK(v)'
      BY <1>1, <1>2, <1>3, <3>1 DEF RpcInv, TripOK, LastTrip, streams
    <3>3. TripsOf(request[v])' = TripsOf(request[v])
      BY <1>1, <3>1 DEF TripsOf
    <3>4. CallOK(v)'
      BY <1>1, <1>2, <1>3, <3>1, <3>3 DEF RpcInv, CallOK
    <3> QED
      BY <3>2, <3>4
  <2> QED
    BY <2>1, <2>2
<1>9. ASSUME NEW m \in Calls PROVE RunsOK(m)'
  BY <1>1, <1>6 DEF RpcInv, RunsOK, HistoryOK, Calls
<1> QED
  BY <1>4, <1>5, <1>8, <1>9 DEF RpcInv

-----------------------------------------------------------------------------
(* Each step keeps the invariant: the steps of a trip.                     *)

\* getConn hands out an open connection that nobody holds; a call that looks
\* into the pool has made no trip yet, and a dialed connection has had none.
LEMMA BeginTripEffect ==
  ASSUME CallInv, RpcInv, NEW u \in Users, BeginTrip(u)
  PROVE  \E c \in Conns \ closed :
            /\ lease' = [lease EXCEPT ![u] = c] /\ pc' = [pc EXCEPT ![u] = "trip"]
            /\ pc[u] \in {"get", "dial"} /\ lease[u] = NoConn /\ retryCount[u] \in {0, 1}
            /\ c \notin TripsOf(request[u])
            /\ \A v \in Users : lease[v] # c
            /\ dialed' = dialed \cup {c} /\ closed \subseteq closed'
            /\ UNCHANGED retryCount
<1> USE DEF Goto
<1>1. /\ TypeOK /\ Exclusive /\ Accounting(u) /\ target[u] \in Keys
      /\ pc[u] \in {"get", "dial"} /\ lease[u] = NoConn
  BY Types DEF BeginTrip, FromPool, DialOk, CallInv, CallTypeOK
<1>4. /\ Cardinality(TripsOf(request[u])) <= retryCount[u]
      /\ IsFiniteSet(TripsOf(request[u])) /\ \A c \in Conns : StreamsOK(c)
  BY <1>1, Types DEF RpcInv, CallOK, OnTrip, RunsOK
<1>2. CASE FromPool(u)
  <2>1. PICK i \in Usable(target[u]) :
           /\ lease' = [lease EXCEPT ![u] = pool[target[u]][i]]
           /\ dialed' = dialed /\ closed \subseteq closed'
    BY <1>2 DEF FromPool, GetHit, CloseAll
  <2> DEFINE c == pool[target[u]][i]
  <2>2. c \in Pooled(target[u]) /\ c \notin closed
    BY <2>1 DEF Usable, Pooled
  <2>3. c \in dialed /\ ~Leased(c)
    BY <1>1, <2>2, PooledAreDialed DEF Exclusive
  <2> HIDE DEF c
  <2>4. c \in Conns /\ \A v \in Users : lease[v] # c
    BY <1>1, <2>3 DEF TypeOK, Leased
  <2>5. lease' = [lease EXCEPT ![u] = c]
    BY <2>1 DEF c
  <2>6. pc[u] = "get" /\ pc' = [pc EXCEPT ![u] = "trip"] /\ UNCHANGED retryCount
    BY <1>2 DEF FromPool
  <2>7. TripsOf(request[u]) = {}
    BY <1>1, <1>4, <2>6, FS_EmptySet, FS_CardinalityType DEF Accounting
  <2> QED
    BY <1>1, <2>1, <2>2, <2>3, <2>4, <2>5, <2>6, <2>7 DEF Accounting
<1>3. CASE DialOk(u)
  <2>1. PICK c \in Conns : Dial(u, c)
    BY <1>3 DEF DialOk
  <2>2. /\ c \notin dialed /\ c \notin closed /\ dialed' = dialed \cup {c}
        /\ closed' = closed /\ lease' = [lease EXCEPT ![u] = c]
    BY <1>1, <2>1 DEF Dial, TypeOK
  <2>3. \A v \in Users : lease[v] # c
    BY <2>2, Types
  <2>4. pc[u] = "dial" /\ pc' = [pc EXCEPT ![u] = "trip"] /\ UNCHANGED retryCount
    BY <1>3 DEF DialOk
  <2>5. c \notin TripsOf(request[u])
    BY <1>4, <2>2 DEF StreamsOK, TripsOf
  <2> QED
    BY <1>1, <2>2, <2>3, <2>4, <2>5 DEF Accounting
<1> QED
  BY <1>2, <1>3 DEF BeginTrip

\* One element more.
LEMMA OneMore ==
  ASSUME NEW S, NEW T, NEW x, IsFiniteSet(S), x \notin S, T = S \cup {x}
  PROVE  /\ IsFiniteSet(T) /\ Cardinality(S) \in Nat
         /\ Cardinality(T) = Cardinality(S) + 1
BY FS_AddElement, FS_CardinalityType

\* A trip begins on a connection that carries nothing and that the call has
\* not used before.
LEMMA BeginTripKeeps ==
  ASSUME CallInv, RpcInv, NEW u \in Users, BeginTrip(u)
  PROVE  RpcInv'
<1>0. PICK c \in Conns \ closed :
            /\ lease' = [lease EXCEPT ![u] = c] /\ pc' = [pc EXCEPT ![u] = "trip"]
            /\ pc[u] \in {"get", "dial"} /\ lease[u] = NoConn /\ retryCount[u] \in {0, 1}
            /\ c \notin TripsOf(request[u])
            /\ \A v \in Users : lease[v] # c
            /\ dialed' = dialed \cup {c} /\ closed \subseteq closed'
            /\ UNCHANGED retryCount
  BY BeginTripEffect
<1>1. PICK n \in Calls : n = request[u]
  BY <1>0, Types
<1>2. UNCHANGED <<asked, request, outcome, written, served, up, down, gone, taken, ran>>
  BY DEF BeginTrip, history, streams
<1>3. /\ HistoryOK /\ StreamsOK(c) /\ RunsOK(n) /\ CallOK(u) /\ TripOK(u)
      /\ n \in 1 .. asked /\ Cardinality(TripsOf(n)) <= retryCount[u] /\ outcome[n] = Pending
      /\ u \notin written
  <2>1. HistoryOK /\ StreamsOK(c) /\ RunsOK(n) /\ CallOK(u) /\ TripOK(u)
    BY DEF RpcInv
  <2>2. n \in 1 .. asked
    BY <1>1, <2>1, CallsAssumption DEF HistoryOK, Calls
  <2>3. Cardinality(TripsOf(n)) <= retryCount[u] /\ outcome[n] = Pending /\ u \notin written
    BY <1>0, <1>1, <2>1, Types DEF CallOK, TripOK, OnTrip
  <2> QED
    BY <2>1, <2>2, <2>3
<1>4. lease'[u] = c /\ pc'[u] = "trip" /\ \A v \in Users \ {u} : pc'[v] = pc[v] /\ lease'[v] = lease[v]
  BY <1>0, Types
<1>5. Unused(c) /\ up[c] = <<>> /\ down[c] = <<>>
  BY <1>0, <1>3 DEF Unused, StreamsOK
<1>6. c \notin TripsOf(n)
  BY <1>0, <1>1
<1> DEFINE L == Len(trips[c])
<1>7. /\ trips[c] \in Seq(1 .. asked) /\ L \in Nat
      /\ DOMAIN trips[c] = 1 .. L
      /\ trips' = [trips EXCEPT ![c] = Append(trips[c], n)]
  BY <1>1, <1>3, <1>4 DEF BeginTrip, HistoryOK
<1>8. /\ trips'[c] \in Seq(1 .. asked) /\ Len(trips'[c]) = L + 1
      /\ DOMAIN trips'[c] = 1 .. L + 1
      /\ trips'[c][L + 1] = n /\ \A t \in 1 .. L : trips'[c][t] = trips[c][t]
  BY <1>3, <1>7 DEF HistoryOK
<1>9. \A d \in Conns \ {c} : trips'[d] = trips[d]
  BY <1>3, <1>7 DEF HistoryOK
<1>10. \A t \in 1 .. L : trips[c][t] # n
  BY <1>6, <1>7 DEF TripsOf
<1>11. /\ \A m \in Calls : m # n => TripsOf(m)' = TripsOf(m)
       /\ TripsOf(n)' = TripsOf(n) \cup {c}
  <2> SUFFICES ASSUME NEW m \in Calls, NEW d \in Conns
               PROVE  d \in TripsOf(m)' <=> d \in TripsOf(m) \/ (m = n /\ d = c)
    BY DEF TripsOf
  <2>1. CASE d # c
    BY <1>9, <2>1 DEF TripsOf
  <2>2. CASE d = c
    <3>1. (\E t \in 1 .. L + 1 : trips'[c][t] = m) <=> (\E t \in 1 .. L : trips[c][t] = m) \/ m = n
      BY <1>7, <1>8
    <3> QED
      BY <1>7, <1>8, <2>2, <3>1 DEF TripsOf
  <2> QED
    BY <2>1, <2>2
<1>17. /\ IsFiniteSet(TripsOf(n)') /\ Cardinality(TripsOf(n)) \in Nat
       /\ Cardinality(TripsOf(n)') = Cardinality(TripsOf(n)) + 1
  <2>1. IsFiniteSet(TripsOf(n)) /\ TripsOf(n)' = TripsOf(n) \cup {c}
    BY <1>3, <1>11 DEF RunsOK
  <2> QED
    BY <1>6, <2>1, OneMore
<1>12. \A m \in Calls : ReadOf(m)' = ReadOf(m)
  <2> SUFFICES ASSUME NEW m \in Calls, NEW d \in Conns
               PROVE  d \in ReadOf(m)' <=> d \in ReadOf(m)
    BY DEF ReadOf
  <2>1. CASE d # c
    BY <1>2, <1>9, <2>1 DEF ReadOf
  <2>2. CASE d = c
    <3>1. taken[c] \subseteq 1 .. L
      BY <1>3 DEF StreamsOK, LastTrip
    <3> QED
      BY <1>2, <1>8, <2>2, <3>1 DEF ReadOf
  <2> QED
    BY <2>1, <2>2
<1>13. HistoryOK'
  BY <1>2, <1>3, <1>7, <1>8 DEF HistoryOK
<1>14. ASSUME NEW d \in Conns PROVE StreamsOK(d)'
  <2>1. CASE d = c
    <3>1. up'[c] = <<>> /\ down'[c] = <<>>
      BY <1>2, <1>5
    <3>2. taken'[c] \subseteq 1 .. L + 1
      BY <1>2, <1>3, <1>7 DEF StreamsOK, LastTrip
    <3>3. \A s, t \in 1 .. L + 1 : trips'[c][s] = trips'[c][t] => s = t
      BY <1>3, <1>7, <1>8, <1>10 DEF StreamsOK, LastTrip
    <3>4. c \in dialed'
      BY <1>0
    <3> QED
      BY <1>8, <2>1, <3>1, <3>2, <3>3, <3>4 DEF StreamsOK, LastTrip
  <2>2. CASE d # c
    <3>1. Unused(d)' => Unused(d)
      BY <1>0, <1>4, <2>2, Types DEF Unused, OnTrip
    <3>2. StreamsOK(d) /\ trips'[d] = trips[d] /\ (d \in dialed => d \in dialed')
          /\ (d \notin dialed' => d \notin dialed) /\ (d \notin closed' => d \notin closed)
      BY <1>0, <1>9, <2>2 DEF RpcInv
    <3> QED
      BY <1>2, <3>1, <3>2 DEF StreamsOK, LastTrip
  <2> QED
    BY <2>1, <2>2
<1>15. ASSUME NEW v \in Users PROVE TripOK(v)' /\ CallOK(v)'
  <2>1. CASE v = u
    <3>1. TripOK(u)'
      BY <1>1, <1>2, <1>3, <1>4, <1>5, <1>7, <1>8 DEF TripOK, LastTrip, OnTrip, StreamsOK
    <3>2. Cardinality(TripsOf(n)') <= retryCount[u] + 1
      BY <1>0, <1>3, <1>17
    <3>3. CallOK(u)'
      BY <1>0, <1>1, <1>2, <1>3, <1>4, <3>2 DEF CallOK, OnTrip, Calls
    <3> QED
      BY <2>1, <3>1, <3>3
  <2>2. CASE v # u
    <3>1. /\ TripOK(v) /\ CallOK(v) /\ pc'[v] = pc[v] /\ lease'[v] = lease[v]
          /\ (OnTrip(v)' <=> OnTrip(v))
      BY <1>4, <2>2 DEF RpcInv, OnTrip
    <3>2. OnTrip(v) => trips'[lease[v]] = trips[lease[v]]
      BY <1>0, <1>9, Types
    <3>3. TripOK(v)'
      BY <1>2, <3>1, <3>2 DEF TripOK, LastTrip
    <3>4. pc[v] # "idle" => TripsOf(request[v])' = TripsOf(request[v])
      BY <1>1, <1>2, <1>3, <1>11, <2>2, Types DEF HistoryOK
    <3>5. CallOK(v)'
      BY <1>0, <1>2, <3>1, <3>4 DEF CallOK
    <3> QED
      BY <3>3, <3>5
  <2> QED
    BY <2>1, <2>2
<1>16. ASSUME NEW m \in Calls PROVE RunsOK(m)'
  <2>1. RunsOK(m) /\ UNCHANGED <<asked, outcome, ran>> /\ ReadOf(m)' = ReadOf(m)
    BY <1>2, <1>12 DEF RpcInv
  <2>2. IsFiniteSet(TripsOf(m)') /\ Cardinality(TripsOf(m)') <= 2
    <3>1. CASE m = n
      BY <1>0, <1>3, <1>17, <3>1
    <3>2. CASE m # n
      BY <1>11, <2>1, <3>2 DEF RunsOK
    <3> QED
      BY <3>1, <3>2
  <2> QED
    BY <2>1, <2>2 DEF RunsOK
<1> QED
  BY <1>13, <1>14, <1>15, <1>16 DEF RpcInv

\* The request is written to an empty stream, or lost.
LEMMA WriteKeeps ==
  ASSUME CallInv, RpcInv, NEW u \in Users, Write(u)
  PROVE  RpcInv'
<1> DEFINE c == lease[u]
<1>1. /\ OnTrip(u) /\ u \notin written /\ written' = written \cup {u}
      /\ UNCHANGED <<vars, history, trips, served, down, gone, taken, ran>>
      /\ up' = up \/ up' = [up EXCEPT ![c] = Append(up[c], Len(trips[c]))]
  BY DEF Write, Conn
<1>2. /\ UNCHANGED <<asked, request, outcome, lease, pc, retryCount, dialed, closed>>
      /\ \A v \in Users : OnTrip(v)' <=> OnTrip(v)
  BY <1>1 DEF vars, history, poolVars, callVars, OnTrip
<1>3. /\ c \in Conns /\ HistoryOK /\ TripOK(u) /\ StreamsOK(c)
      /\ up[c] = <<>> /\ down[c] = <<>> /\ LastTrip(c) \notin taken[c] /\ LastTrip(c) > 0
  BY <1>1, Types DEF RpcInv, TripOK
<1>4. /\ up' \in [Conns -> Seq(Nat)] /\ \A d \in Conns \ {c} : up'[d] = up[d]
      /\ up'[c] \in {<<>>, <<LastTrip(c)>>}
  <2>1. up \in [Conns -> Seq(Nat)] /\ Len(trips[c]) \in Nat
    BY <1>3 DEF HistoryOK
  <2>2. Append(up[c], Len(trips[c])) = <<LastTrip(c)>> /\ <<LastTrip(c)>> \in Seq(Nat)
    BY <1>3, <2>1 DEF LastTrip
  <2> QED
    BY <1>1, <1>3, <2>1, <2>2
<1>5. HistoryOK'
  BY <1>1, <1>2, <1>3, <1>4 DEF HistoryOK
<1>6. ASSUME NEW d \in Conns PROVE StreamsOK(d)'
  <2>1. StreamsOK(d) /\ (Unused(d)' <=> Unused(d))
    BY <1>2 DEF RpcInv, Unused
  <2>2. CASE d = c
    <3>1. ~Unused(d)'
      BY <1>1, <2>1, <2>2 DEF Unused
    <3> QED
      BY <1>1, <1>2, <1>3, <1>4, <2>1, <2>2, <3>1 DEF StreamsOK, LastTrip
  <2>3. CASE d # c
    BY <1>1, <1>2, <1>4, <2>1, <2>3 DEF StreamsOK, LastTrip
  <2> QED
    BY <2>2, <2>3
<1>7. ASSUME NEW v \in Users PROVE TripOK(v)' /\ CallOK(v)'
  <2>1. TripOK(v) /\ CallOK(v)
    BY DEF RpcInv
  <2>2. CallOK(v)'
    <3>1. TripsOf(request[v])' = TripsOf(request[v])
      BY <1>1, <1>2 DEF TripsOf
    <3> QED
      BY <1>2, <2>1, <3>1 DEF CallOK
  <2>3. CASE v = u
    BY <1>1, <1>2, <2>1, <2>2, <2>3 DEF TripOK, LastTrip
  <2>4. CASE v # u
    <3>1. OnTrip(v) => lease[v] # c /\ up'[lease[v]] = up[lease[v]]
      BY <1>4, <2>4, Types DEF OnTrip
    <3> QED
      BY <1>1, <1>2, <2>1, <2>2, <2>4, <3>1 DEF TripOK, LastTrip
  <2> QED
    BY <2>3, <2>4
<1>8. ASSUME NEW m \in Calls PROVE RunsOK(m)'
  <2>1. TripsOf(m)' = TripsOf(m) /\ ReadOf(m)' = ReadOf(m)
    BY <1>1 DEF TripsOf, ReadOf
  <2> QED
    BY <1>1, <1>2, <2>1 DEF RpcInv, RunsOK
<1> QED
  BY <1>5, <1>6, <1>7, <1>8 DEF RpcInv

\* A trip ends: its connection carries nothing any more, unless it is closed,
\* and then no answer.
LEMMA TripEndKeeps ==
  ASSUME CallInv, RpcInv, NEW u \in Users, OnTrip(u),
         UNCHANGED <<asked, request, trips, up, gone, taken, ran, dialed>>,
         served' \in [Conns -> SUBSET Nat],
         closed \subseteq closed', written' = written \ {u},
         pc'[u] # "trip",
         \A v \in Users \ {u} :
           pc'[v] = pc[v] /\ lease'[v] = lease[v] /\ retryCount'[v] = retryCount[v],
         down' = [down EXCEPT ![lease[u]] = <<>>],
         up[lease[u]] = <<>> \/ lease[u] \in closed',
         pc'[u] \in Active => retryCount'[u] = retryCount[u] + 1 /\ outcome' = outcome,
         outcome' \in [Calls -> Nat],
         \A n \in Calls : n # request[u] => outcome'[n] = outcome[n]
  PROVE  RpcInv'
<1> DEFINE c == lease[u]
<1>1. /\ HistoryOK /\ c \in Conns /\ request[u] \in Calls /\ request[u] \in 1 .. asked
      /\ \A v \in Users \ {u} : request[v] # request[u]
  <2>1. HistoryOK /\ c \in Conns /\ request[u] \in Calls
    BY Types DEF OnTrip, RpcInv
  <2>2. request[u] # 0
    BY <2>1, CallsAssumption DEF Calls
  <2>3. request \in [Users -> 0 .. asked] /\ asked \in Nat
    BY <2>1 DEF HistoryOK
  <2>4. request[u] \in 1 .. asked
    BY <2>2, <2>3
  <2>5. \A v \in Users \ {u} : request[v] # request[u]
    BY <2>1, <2>2 DEF HistoryOK
  <2> QED
    BY <2>1, <2>4, <2>5
<1>2. down' \in [Conns -> Seq([trip : Nat, ok : BOOLEAN])]
  BY <1>1 DEF HistoryOK
<1>3. down'[c] = <<>> /\ \A d \in Conns \ {c} : down'[d] = down[d]
  BY <1>1 DEF HistoryOK
<1>4. HistoryOK'
  BY <1>1, <1>2 DEF HistoryOK
<1>5. ASSUME NEW d \in Conns PROVE StreamsOK(d)'
  <2>1. StreamsOK(d)
    BY DEF RpcInv
  <2>2. CASE d = c
    BY <1>3, <2>1, <2>2 DEF StreamsOK, LastTrip
  <2>3. CASE d # c
    <3>1. Unused(d)' => Unused(d)
      BY <2>3 DEF Unused, OnTrip
    <3> QED
      BY <1>3, <2>1, <2>3, <3>1 DEF StreamsOK, LastTrip
  <2> QED
    BY <2>2, <2>3
<1>6. ASSUME NEW v \in Users PROVE TripOK(v)' /\ CallOK(v)'
  <2>1. TripOK(v) /\ CallOK(v) /\ TripsOf(request[v])' = TripsOf(request[v])
    BY DEF RpcInv, TripsOf
  <2>2. CASE v = u
    <3>1. retryCount[u] \in Nat
      BY Types, RetryAssumption
    <3>2. TripOK(u)' /\ (pc'[u] \in Active => pc'[u] # "idle" /\ pc[u] \in Active)
      BY DEF TripOK, OnTrip, Active
    <3>3. pc[u] = "trip" /\ request[u] # 0
      BY <1>1 DEF OnTrip, RpcInv, CallOK
    <3>4. pc'[u] \in Active =>
            /\ outcome'[request[u]] = Pending
            /\ Cardinality(TripsOf(request[u])') <= retryCount'[u]
      BY <2>1, <2>2, <3>1, <3>3 DEF CallOK, OnTrip, Active
    <3>5. CallOK(u)'
      BY <3>1, <3>3, <3>4 DEF CallOK, OnTrip, Active
    <3> QED
      BY <2>2, <3>2, <3>5
  <2>3. CASE v # u
    <3>1. (OnTrip(v)' <=> OnTrip(v)) /\ (OnTrip(v) => lease[v] # c /\ lease[v] \in Conns)
      BY <2>3, Types DEF OnTrip
    <3>2. TripOK(v)'
      BY <1>3, <2>1, <2>3, <3>1 DEF TripOK, LastTrip
    <3>3. pc[v] # "idle" => outcome'[request[v]] = outcome[request[v]]
      BY <1>1, <2>3, Types
    <3>4. CallOK(v)'
      BY <2>1, <2>3, <3>1, <3>3 DEF CallOK
    <3> QED
      BY <3>2, <3>4
  <2> QED
    BY <2>2, <2>3
<1>7. ASSUME NEW m \in Calls PROVE RunsOK(m)'
  <2>1. TripsOf(m)' = TripsOf(m) /\ ReadOf(m)' = ReadOf(m)
    BY DEF TripsOf, ReadOf
  <2>2. m > asked => m # request[u]
    BY <1>1 DEF HistoryOK
  <2> QED
    BY <2>1, <2>2 DEF RpcInv, RunsOK
<1> QED
  BY <1>4, <1>5, <1>6, <1>7 DEF RpcInv

\* The next frame of a connection on a trip answers that trip, and its handler
\* has run.
LEMMA FrameIsTheAnswer ==
  ASSUME CallInv, RpcInv, NEW u \in Users, OnTrip(u), down[lease[u]] # <<>>
  PROVE  /\ lease[u] \in Conns /\ LastTrip(lease[u]) \in taken[lease[u]]
         /\ up[lease[u]] = <<>> /\ Tail(down[lease[u]]) = <<>>
         /\ Head(down[lease[u]]).trip = LastTrip(lease[u])
         /\ trips[lease[u]][Head(down[lease[u]]).trip] = request[u]
         /\ Head(down[lease[u]]).ok => ran[request[u]] > 0
<1> DEFINE c == lease[u]
<1>1. c \in Conns /\ StreamsOK(c) /\ TripOK(u)
  BY Types DEF RpcInv
<1>2. PICK ok \in BOOLEAN : /\ down[c] = <<[trip |-> LastTrip(c), ok |-> ok]>>
                            /\ ok => ran[trips[c][LastTrip(c)]] > 0
  BY <1>1 DEF StreamsOK
<1>3. LastTrip(c) \in taken[c] /\ up[c] = <<>> /\ trips[c][LastTrip(c)] = request[u]
  BY <1>1 DEF StreamsOK, TripOK
<1>4. Head(down[c]) = [trip |-> LastTrip(c), ok |-> ok] /\ Tail(down[c]) = <<>>
  BY <1>2
<1> QED
  BY <1>1, <1>2, <1>3, <1>4

\* The answer is taken from its stream and becomes the outcome of the call.
LEMMA TripAnsweredKeeps ==
  ASSUME CallInv, RpcInv, NEW u \in Users, TripAnswered(u)
  PROVE  RpcInv'
<1>1. /\ OnTrip(u) /\ down[lease[u]] # <<>> /\ written' = written \ {u}
      /\ down' = [down EXCEPT ![lease[u]] = Tail(down[lease[u]])]
      /\ outcome' = [outcome EXCEPT ![request[u]] =
                       trips[lease[u]][Head(down[lease[u]]).trip]]
      /\ TripOk(u) /\ UNCHANGED <<asked, request, trips, up, gone, taken, ran>>
  BY DEF TripAnswered, Conn
<1>2. /\ up[lease[u]] = <<>> /\ Tail(down[lease[u]]) = <<>>
      /\ trips[lease[u]][Head(down[lease[u]]).trip] = request[u]
  BY <1>1, FrameIsTheAnswer
<1>3. /\ outcome' \in [Calls -> Nat]
      /\ \A n \in Calls : n # request[u] => outcome'[n] = outcome[n]
  <2>1. outcome \in [Calls -> Nat] /\ request[u] \in Calls /\ request[u] \in Nat
    BY <1>1, Types DEF RpcInv, HistoryOK, OnTrip, Calls
  <2> QED
    BY <1>1, <1>2, <2>1
<1>4. /\ pc'[u] = "defer" /\ UNCHANGED <<dialed, closed, lease, retryCount>>
      /\ \A v \in Users \ {u} : pc'[v] = pc[v]
  BY <1>1, Types DEF TripOk, Goto, poolVars
<1>5. served' \in [Conns -> SUBSET Nat]
  <2>1. served \in [Conns -> SUBSET Nat] /\ \A c \in Conns : Len(trips[c]) \in Nat
    BY DEF RpcInv, HistoryOK
  <2>2. served' = [served EXCEPT ![lease[u]] = @ \cup {Len(trips[lease[u]])}] /\ lease[u] \in Conns
    BY <1>1, Types DEF TripAnswered, Conn
  <2> QED
    BY <2>1, <2>2
<1> QED
  BY <1>1, <1>2, <1>3, <1>4, <1>5, TripEndKeeps DEF Active

\* What TripError does to the calls and to the connection.
LEMMA TripErrorEffect ==
  ASSUME CallInv, RpcInv, NEW u \in Users, TripError(u)
  PROVE  /\ pc[u] = "trip" /\ lease'[u] = NoConn
         /\ closed' = closed \cup {lease[u]} /\ dialed' = dialed
         /\ \A v \in Users \ {u} :
              pc'[v] = pc[v] /\ lease'[v] = lease[v] /\ retryCount'[v] = retryCount[v]
         /\ \/ pc'[u] = "loop" /\ retryCount'[u] = retryCount[u] + 1
            \/ pc'[u] = "idle"
<1> USE Types DEF Goto
<1>1. /\ lease'[u] = NoConn /\ closed' = closed \cup {lease[u]} /\ dialed' = dialed
      /\ \A v \in Users \ {u} : lease'[v] = lease[v]
  BY DEF TripError, Discard, CloseAll
<1>2. CASE Leave(u, "trip", TRUE)
  BY <1>1, <1>2 DEF Leave
<1>3. CASE Goto(u, "trip", "loop") /\ retryCount' = [retryCount EXCEPT ![u] = @ + 1]
  BY <1>1, <1>3
<1> QED
  BY <1>2, <1>3 DEF TripError

\* The trip fails with its connection closed.
LEMMA TripFailsKeeps ==
  ASSUME CallInv, RpcInv, NEW u \in Users, TripFails(u)
  PROVE  RpcInv'
<1>1. /\ OnTrip(u) /\ TripError(u) /\ written' = written \ {u}
      /\ down' = [down EXCEPT ![lease[u]] = <<>>]
      /\ outcome' = IF pc'[u] = "idle" THEN [outcome EXCEPT ![request[u]] = Failed] ELSE outcome
      /\ UNCHANGED <<asked, request, trips, served, up, gone, taken, ran>>
      /\ served \in [Conns -> SUBSET Nat]
  BY DEF TripFails, Conn, RpcInv, HistoryOK
<1>2. /\ outcome' \in [Calls -> Nat]
      /\ \A n \in Calls : n # request[u] => outcome'[n] = outcome[n]
      /\ pc'[u] # "idle" => outcome' = outcome
  <2>1. outcome \in [Calls -> Nat] /\ Failed \in Nat
    BY CallsAssumption DEF RpcInv, HistoryOK, Failed
  <2>2. [outcome EXCEPT ![request[u]] = Failed] \in [Calls -> Nat]
    BY <2>1
  <2>3. outcome' = outcome \/ outcome' = [outcome EXCEPT ![request[u]] = Failed]
    BY <1>1
  <2>4. pc'[u] # "idle" => outcome' = outcome
    BY <1>1
  <2> QED
    BY <2>1, <2>2, <2>3, <2>4
<1>3. /\ lease[u] \in closed' /\ closed \subseteq closed' /\ dialed' = dialed
      /\ \A v \in Users \ {u} :
           pc'[v] = pc[v] /\ lease'[v] = lease[v] /\ retryCount'[v] = retryCount[v]
      /\ \/ pc'[u] = "loop" /\ retryCount'[u] = retryCount[u] + 1
         \/ pc'[u] = "idle"
  BY <1>1, TripErrorEffect
<1> QED
  BY <1>1, <1>2, <1>3, TripEndKeeps DEF Active

-----------------------------------------------------------------------------
(* Each step keeps the invariant: the server's.                            *)

\* The request the server reads is that of the last trip.  It has not read it
\* before, and has read the call's requests on one connection at most.
LEMMA RequestIsTheLast ==
  ASSUME CallInv, RpcInv, NEW c \in Conns, up[c] # <<>>
  PROVE  /\ Head(up[c]) = LastTrip(c) /\ Tail(up[c]) = <<>> /\ down[c] = <<>>
         /\ LastTrip(c) \in 1 .. LastTrip(c) /\ LastTrip(c) \notin taken[c]
         /\ trips[c][LastTrip(c)] \in Calls /\ trips[c][LastTrip(c)] <= asked
         /\ c \in TripsOf(trips[c][LastTrip(c)]) \ ReadOf(trips[c][LastTrip(c)])
         /\ ReadOf(trips[c][LastTrip(c)]) \subseteq TripsOf(trips[c][LastTrip(c)])
<1> DEFINE L == LastTrip(c)
           n == trips[c][L]
<1>1. HistoryOK /\ \A d \in Conns : StreamsOK(d)
  BY DEF RpcInv
<1>2. up[c] = <<L>> /\ L > 0 /\ L \notin taken[c]
  BY <1>1 DEF StreamsOK
<1>3. \A d \in Conns : trips[d] \in Seq(1 .. asked) /\ DOMAIN trips[d] = 1 .. LastTrip(d)
                       /\ LastTrip(d) \in Nat
  BY <1>1 DEF HistoryOK, LastTrip
<1>4. Head(up[c]) = L /\ Tail(up[c]) = <<>> /\ L \in 1 .. L
  BY <1>2, <1>3
<1>5. down[c] = <<>>
  BY <1>1, <1>2 DEF StreamsOK
<1>6. n \in 1 .. asked
  <2>1. trips[c] \in Seq(1 .. asked) /\ LastTrip(c) \in 1 .. Len(trips[c])
    BY <1>3, <1>4 DEF LastTrip
  <2> QED
    BY <2>1, ElementOfSeq
<1>7. n \in Calls /\ n <= asked
  BY <1>1, <1>6, CallsAssumption DEF HistoryOK, Calls
<1>8. c \in TripsOf(n)
  BY <1>3, <1>4 DEF TripsOf
<1>9. c \notin ReadOf(n)
  BY <1>1, <1>2, <1>4 DEF StreamsOK, ReadOf
<1>10. \A d \in Conns : taken[d] \subseteq DOMAIN trips[d]
  BY <1>1, <1>3 DEF StreamsOK
<1>11. ReadOf(n) \subseteq TripsOf(n)
  BY <1>10 DEF ReadOf, TripsOf
<1> QED
  BY <1>2, <1>4, <1>5, <1>7, <1>8, <1>9, <1>11

\* The handler has run at most once for a call that the server is about to
\* read on another connection.
LEMMA OneRunLeft ==
  ASSUME CallInv, RpcInv, NEW c \in Conns, up[c] # <<>>
  PROVE  ran[trips[c][LastTrip(c)]] < 2
<1>1. PICK n \in Calls : n = trips[c][LastTrip(c)]
  BY RequestIsTheLast
<1>2. ReadOf(n) \subseteq TripsOf(n) /\ c \in TripsOf(n) \ ReadOf(n)
  BY <1>1, RequestIsTheLast
<1>3. IsFiniteSet(TripsOf(n)) /\ Cardinality(TripsOf(n)) <= 2 /\ ran[n] <= Cardinality(ReadOf(n))
  BY DEF RpcInv, RunsOK
<1>4. /\ IsFiniteSet(ReadOf(n)) /\ Cardinality(ReadOf(n)) <= Cardinality(TripsOf(n))
      /\ Cardinality(ReadOf(n)) # Cardinality(TripsOf(n))
  BY <1>2, <1>3, FS_Subset
<1>5. Cardinality(ReadOf(n)) \in Nat /\ Cardinality(TripsOf(n)) \in Nat /\ ran[n] \in Nat
  BY <1>3, <1>4, FS_CardinalityType DEF RpcInv, HistoryOK
<1> QED
  BY <1>1, <1>3, <1>4, <1>5

\* The server reads the request, and may run its handler and answer it.
LEMMA ServerHandlesKeeps ==
  ASSUME CallInv, RpcInv, NEW c \in Conns, ServerHandles(c)
  PROVE  RpcInv'
<1> DEFINE L == LastTrip(c)
<1>1. /\ up[c] # <<>> /\ Head(up[c]) = L /\ Tail(up[c]) = <<>> /\ down[c] = <<>>
      /\ L \in 1 .. L /\ L \notin taken[c]
  BY RequestIsTheLast DEF ServerHandles
<1>2. PICK n \in Calls : n = trips[c][L] /\ c \in TripsOf(n) \ ReadOf(n) /\ ReadOf(n) \subseteq TripsOf(n)
  BY <1>1, RequestIsTheLast
<1>3. /\ UNCHANGED <<asked, request, outcome, written, trips, served, lease, pc, retryCount, dialed, closed>>
      /\ \A u \in Users : OnTrip(u)' <=> OnTrip(u)
      /\ \A d \in Conns : Unused(d)' <=> Unused(d)
  <2>1. UNCHANGED <<asked, request, outcome, written, trips, served, lease, pc, retryCount, dialed, closed>>
    BY DEF ServerHandles, vars, history, poolVars, callVars
  <2> QED
    BY <2>1 DEF OnTrip, Unused
<1>4. /\ HistoryOK /\ StreamsOK(c) /\ \A m \in Calls : RunsOK(m)
  BY DEF RpcInv
<1>5. /\ up' = [up EXCEPT ![c] = <<>>] /\ taken' = [taken EXCEPT ![c] = @ \cup {L}]
  BY <1>1 DEF ServerHandles
<1>6. \/ /\ ran' = [ran EXCEPT ![n] = @ + 1]
         /\ \/ down' = down
            \/ \E ok \in BOOLEAN : down' = [down EXCEPT ![c] = Append(down[c], [trip |-> L, ok |-> ok])]
      \/ /\ ran' = ran
         /\ \/ down' = down
            \/ down' = [down EXCEPT ![c] = Append(down[c], [trip |-> L, ok |-> FALSE])]
  BY <1>1, <1>2 DEF ServerHandles
<1>7. /\ up' \in [Conns -> Seq(Nat)] /\ taken' \in [Conns -> SUBSET Nat]
      /\ up'[c] = <<>> /\ taken'[c] = taken[c] \cup {L}
      /\ \A d \in Conns \ {c} : up'[d] = up[d] /\ taken'[d] = taken[d]
  <2>1. up \in [Conns -> Seq(Nat)] /\ taken \in [Conns -> SUBSET Nat] /\ L \in Nat
    BY <1>4 DEF HistoryOK, LastTrip
  <2> QED
    BY <1>5, <2>1
<1>8. ran' \in [Calls -> Nat] /\ \A m \in Calls : ran'[m] >= ran[m] /\ (m # n => ran'[m] = ran[m])
      /\ ran'[n] <= ran[n] + 1
  <2>1. ran \in [Calls -> Nat]
    BY <1>4 DEF HistoryOK
  <2> QED
    BY <1>6, <2>1
<1>9. /\ down' \in [Conns -> Seq([trip : Nat, ok : BOOLEAN])]
      /\ \A d \in Conns \ {c} : down'[d] = down[d]
      /\ down'[c] # <<>> => \E ok \in BOOLEAN : down'[c] = <<[trip |-> L, ok |-> ok]>>
                                                /\ (ok => ran'[n] > 0)
  <2>1. /\ down \in [Conns -> Seq([trip : Nat, ok : BOOLEAN])] /\ L \in Nat
        /\ ran \in [Calls -> Nat]
    BY <1>4 DEF HistoryOK, LastTrip
  <2>2. CASE down' = down
    BY <1>1, <2>1, <2>2
  <2>3. ASSUME NEW ok \in BOOLEAN,
               down' = [down EXCEPT ![c] = Append(down[c], [trip |-> L, ok |-> ok])]
        PROVE  /\ down' \in [Conns -> Seq([trip : Nat, ok : BOOLEAN])]
               /\ \A d \in Conns \ {c} : down'[d] = down[d]
               /\ down'[c] = <<[trip |-> L, ok |-> ok]>>
    <3>1. Append(down[c], [trip |-> L, ok |-> ok]) = <<[trip |-> L, ok |-> ok]>>
          /\ <<[trip |-> L, ok |-> ok]>> \in Seq([trip : Nat, ok : BOOLEAN])
      BY <1>1, <2>1
    <3> QED
      BY <2>1, <2>3, <3>1
  <2>4. CASE /\ ran' = [ran EXCEPT ![n] = @ + 1]
             /\ \E ok \in BOOLEAN : down' = [down EXCEPT ![c] = Append(down[c], [trip |-> L, ok |-> ok])]
    <3>1. ran'[n] > 0
      BY <2>1, <2>4
    <3> QED
      BY <2>3, <2>4, <3>1
  <2>5. CASE down' = [down EXCEPT ![c] = Append(down[c], [trip |-> L, ok |-> FALSE])]
    BY <2>3, <2>5
  <2> QED
    BY <1>6, <2>2, <2>4, <2>5
<1>10. HistoryOK'
  BY <1>3, <1>4, <1>7, <1>8, <1>9 DEF HistoryOK
<1>11. ASSUME NEW d \in Conns PROVE StreamsOK(d)'
  <2>1. StreamsOK(d)
    BY DEF RpcInv
  <2>2. CASE d = c
    <3>1. c \in closed \/ ~Unused(c)
      BY <1>1, <1>4 DEF StreamsOK
    <3>2. LastTrip(c)' = L /\ trips'[c][L] = n /\ L \in taken'[c] /\ taken'[c] \subseteq 1 .. L
      BY <1>1, <1>2, <1>3, <1>4, <1>7 DEF StreamsOK, LastTrip
    <3>3. /\ \A s, t \in 1 .. L : trips'[c][s] = trips'[c][t] => s = t
          /\ c \notin dialed' => trips'[c] = <<>>
          /\ ~(c \notin closed' /\ Unused(c)')
      BY <1>3, <1>4, <3>1 DEF StreamsOK
    <3> HIDE DEF L
    <3> QED
      BY <1>7, <1>9, <2>2, <3>2, <3>3 DEF StreamsOK
  <2>3. CASE d # c
    <3>1. /\ up'[d] = up[d] /\ down'[d] = down[d] /\ taken'[d] = taken[d] /\ trips' = trips
          /\ dialed' = dialed /\ closed' = closed /\ (Unused(d)' <=> Unused(d))
          /\ LastTrip(d)' = LastTrip(d)
      BY <1>3, <1>7, <1>9, <2>3 DEF LastTrip
    <3>2. down[d] # <<>> => trips[d][LastTrip(d)] \in Calls
      <4>1. down[d] # <<>> => LastTrip(d) \in 1 .. LastTrip(d)
        BY <2>1 DEF StreamsOK
      <4>2. trips[d] \in Seq(1 .. asked) /\ asked \in 0 .. MaxCalls
        BY <1>4 DEF HistoryOK
      <4> QED
        BY <4>1, <4>2, CallsAssumption DEF LastTrip, Calls
    <3>3. down[d] # <<>> => ran'[trips[d][LastTrip(d)]] >= ran[trips[d][LastTrip(d)]]
                            /\ ran[trips[d][LastTrip(d)]] \in Nat /\ ran'[trips[d][LastTrip(d)]] \in Nat
      BY <1>4, <1>8, <3>2 DEF HistoryOK
    <3> DEFINE call == trips[d][LastTrip(d)]
    <3>4. down'[d] # <<>> =>
            /\ \E ok \in BOOLEAN :
                 down'[d] = <<[trip |-> LastTrip(d)', ok |-> ok]>> /\ (ok => ran'[call] > 0)
            /\ LastTrip(d)' \in taken'[d]
      <4>1. down[d] # <<>> =>
              /\ \E ok \in BOOLEAN :
                   down[d] = <<[trip |-> LastTrip(d), ok |-> ok]>> /\ (ok => ran[call] > 0)
              /\ LastTrip(d) \in taken[d]
        BY <2>1 DEF StreamsOK
      <4>2. down[d] # <<>> => (ran[call] > 0 => ran'[call] > 0)
        BY <3>3
      <4> HIDE DEF call
      <4>3. ASSUME down[d] # <<>>
            PROVE  \E ok \in BOOLEAN :
                     down[d] = <<[trip |-> LastTrip(d), ok |-> ok]>> /\ (ok => ran'[call] > 0)
        BY <4>1, <4>2, <4>3
      <4> QED
        BY <3>1, <4>1, <4>3
    <3>5. call = trips'[d][LastTrip(d)']
      BY <3>1
    <3> HIDE DEF call
    <3> QED
      BY <2>1, <3>1, <3>4, <3>5 DEF StreamsOK
  <2> QED
    BY <2>2, <2>3
<1>12. ASSUME NEW u \in Users PROVE TripOK(u)' /\ CallOK(u)'
  <2>1. TripOK(u) /\ CallOK(u) /\ TripsOf(request[u])' = TripsOf(request[u])
    BY <1>3 DEF RpcInv, TripsOf
  <2>2. CallOK(u)'
    BY <1>3, <2>1 DEF CallOK
  <2>3. OnTrip(u) /\ u \notin written => lease[u] \in Conns \ {c}
    BY <1>1, <2>1, Types DEF TripOK
  <2>4. TripOK(u)'
    BY <1>3, <1>7, <1>9, <2>1, <2>3 DEF TripOK, LastTrip
  <2> QED
    BY <2>2, <2>4
<1>13. ASSUME NEW m \in Calls PROVE RunsOK(m)'
  <2>1. RunsOK(m) /\ TripsOf(m)' = TripsOf(m)
    BY <1>3 DEF RpcInv, TripsOf
  <2>2. CASE m = n
    <3>1. ReadOf(n)' = ReadOf(n) \cup {c}
      BY <1>1, <1>2, <1>3, <1>7 DEF ReadOf
    <3>2. IsFiniteSet(ReadOf(n))
      BY <1>2, <2>1, <2>2, FS_Subset DEF RunsOK
    <3>3. Cardinality(ReadOf(n)') = Cardinality(ReadOf(n)) + 1 /\ Cardinality(ReadOf(n)) \in Nat
      BY <1>2, <3>1, <3>2, OneMore
    <3>4. ran[n] \in Nat /\ ran'[n] \in Nat
      BY <1>4, <1>8 DEF HistoryOK
    <3>5. ran'[n] <= Cardinality(ReadOf(n)')
      BY <1>8, <2>1, <2>2, <3>3, <3>4 DEF RunsOK
    <3> QED
      BY <1>3, <2>1, <2>2, <3>5 DEF RunsOK
  <2>3. CASE m # n
    <3>1. ReadOf(m)' = ReadOf(m)
      BY <1>1, <1>2, <1>3, <1>7, <2>3 DEF ReadOf
    <3> QED
      BY <1>3, <1>8, <2>1, <2>3, <3>1 DEF RunsOK
  <2> QED
    BY <2>2, <2>3
<1> QED
  BY <1>10, <1>11, <1>12, <1>13 DEF RpcInv

\* What the server has not read is lost, and so may be what it has answered.
LEMMA ServerClosesKeeps ==
  ASSUME CallInv, RpcInv, NEW c \in Conns, ServerCloses(c)
  PROVE  RpcInv'
<1>1. /\ UNCHANGED <<asked, request, outcome, written, trips, served, taken, ran, lease, pc, retryCount, dialed, closed>>
      /\ \A u \in Users : OnTrip(u)' <=> OnTrip(u)
      /\ \A d \in Conns : Unused(d)' <=> Unused(d)
  <2>1. UNCHANGED <<asked, request, outcome, written, trips, served, taken, ran, lease, pc, retryCount, dialed, closed>>
    BY DEF ServerCloses, vars, history, poolVars, callVars
  <2> QED
    BY <2>1 DEF OnTrip, Unused
<1>2. HistoryOK
  BY DEF RpcInv
<1>3. /\ up' \in [Conns -> Seq(Nat)] /\ down' \in [Conns -> Seq([trip : Nat, ok : BOOLEAN])]
      /\ \A d \in Conns : up'[d] \in {up[d], <<>>} /\ down'[d] \in {down[d], <<>>}
  <2>1. /\ up \in [Conns -> Seq(Nat)] /\ down \in [Conns -> Seq([trip : Nat, ok : BOOLEAN])]
    BY <1>2 DEF HistoryOK
  <2>2. up' = [up EXCEPT ![c] = <<>>]
    BY DEF ServerCloses
  <2>3. PICK rest \in {down[c], <<>>} : down' = [down EXCEPT ![c] = rest]
    BY DEF ServerCloses
  <2>4. <<>> \in Seq(Nat) /\ <<>> \in Seq([trip : Nat, ok : BOOLEAN])
    OBVIOUS
  <2>5. up' \in [Conns -> Seq(Nat)] /\ \A d \in Conns : up'[d] \in {up[d], <<>>}
    BY <2>1, <2>2, <2>4
  <2>6. rest \in Seq([trip : Nat, ok : BOOLEAN])
    BY <2>1, <2>4
  <2>7. /\ down' \in [Conns -> Seq([trip : Nat, ok : BOOLEAN])]
        /\ \A d \in Conns : down'[d] \in {down[d], <<>>}
    BY <2>1, <2>3, <2>6
  <2> QED
    BY <2>5, <2>7
<1>4. HistoryOK'
  BY <1>1, <1>2, <1>3 DEF HistoryOK
<1>5. ASSUME NEW d \in Conns PROVE StreamsOK(d)'
  <2>1. StreamsOK(d) /\ LastTrip(d)' = LastTrip(d)
    BY <1>1 DEF RpcInv, LastTrip
  <2>2. /\ taken'[d] = taken[d] /\ trips'[d] = trips[d] /\ ran' = ran
        /\ up'[d] # <<>> => up'[d] = up[d]
        /\ down'[d] # <<>> => down'[d] = down[d]
        /\ up[d] = <<>> => up'[d] = <<>>
        /\ down[d] = <<>> => down'[d] = <<>>
    BY <1>1, <1>3
  <2>3. /\ up'[d] # <<>> =>
             up'[d] = <<LastTrip(d)>> /\ LastTrip(d) > 0 /\ LastTrip(d) \notin taken'[d]
        /\ taken'[d] \subseteq 1 .. LastTrip(d)
        /\ \A s, t \in 1 .. LastTrip(d) : trips'[d][s] = trips'[d][t] => s = t
        /\ d \notin dialed' => trips'[d] = <<>>
    BY <1>1, <2>1, <2>2 DEF StreamsOK
  <2>4. d \notin closed' /\ Unused(d)' => up'[d] = <<>> /\ down'[d] = <<>>
    BY <1>1, <2>1, <2>2 DEF StreamsOK
  <2>5. down'[d] # <<>> =>
           /\ \E ok \in BOOLEAN : /\ down'[d] = <<[trip |-> LastTrip(d), ok |-> ok]>>
                                  /\ ok => ran'[trips'[d][LastTrip(d)]] > 0
           /\ LastTrip(d) \in taken'[d]
    BY <2>1, <2>2 DEF StreamsOK
  <2> QED
    BY <2>1, <2>3, <2>4, <2>5 DEF StreamsOK
<1>6. ASSUME NEW u \in Users PROVE TripOK(u)' /\ CallOK(u)'
  <2>1. TripOK(u) /\ CallOK(u) /\ TripsOf(request[u])' = TripsOf(request[u])
    BY <1>1 DEF RpcInv, TripsOf
  <2>2. CallOK(u)'
    BY <1>1, <2>1 DEF CallOK
  <2>3. OnTrip(u) => lease[u] \in Conns
    BY Types
  <2>4. TripOK(u)'
    BY <1>1, <1>3, <2>1, <2>3 DEF TripOK, LastTrip
  <2> QED
    BY <2>2, <2>4
<1>7. ASSUME NEW m \in Calls PROVE RunsOK(m)'
  <2>1. TripsOf(m)' = TripsOf(m) /\ ReadOf(m)' = ReadOf(m)
    BY <1>1 DEF TripsOf, ReadOf
  <2> QED
    BY <1>1, <2>1 DEF RpcInv, RunsOK
<1> QED
  BY <1>4, <1>5, <1>6, <1>7 DEF RpcInv

\* The invariant is inductive, given the retry loop's.
LEMMA RpcInvStep == CallInv /\ RpcInv /\ [RpcNext]_rpcVars => RpcInv'
<1> SUFFICES ASSUME CallInv, RpcInv, [RpcNext]_rpcVars PROVE RpcInv'
  OBVIOUS
<1>1. ASSUME NEW u \in Users, Ask(u) PROVE RpcInv'
  BY <1>1, AskKeeps
<1>2. ASSUME NEW u \in Users, Proceed(u) PROVE RpcInv'
  BY <1>2, OffTripKeeps, BeginTripKeeps, WriteKeeps, TripAnsweredKeeps, TripFailsKeeps
     DEF Proceed
<1>3. ASSUME NEW c \in Conns, ServerHandles(c) \/ ServerCloses(c) PROVE RpcInv'
  BY <1>3, ServerHandlesKeeps, ServerClosesKeeps
<1>4. CASE Environment
  BY <1>4, EnvironmentKeeps
<1>5. CASE UNCHANGED rpcVars
  <2>1. UNCHANGED <<asked, request, trips, served, written, streams, ran, dialed, outcome,
                    closed, pc, retryCount, lease>>
    BY <1>5 DEF rpcVars, history, vars, poolVars, callVars
  <2>2. \A u \in Users : OnTrip(u)' <=> OnTrip(u)
    BY <2>1 DEF OnTrip
  <2>3. outcome \in [Calls -> Nat]
    BY DEF RpcInv, HistoryOK
  <2> QED
    BY <2>1, <2>2, <2>3, QuietKeeps
<1> QED
  BY <1>1, <1>2, <1>3, <1>4, <1>5 DEF RpcNext

\* It holds of every behaviour.
LEMMA RpcInvariance == RpcSpec => [](CallInv /\ RpcInv)
<1>1. RpcInit => RpcInv
  BY RpcInvInit
<1> QED
  BY <1>1, RpcInvStep, CallInvHolds, PTL DEF RpcSpec

-----------------------------------------------------------------------------
(* The calls keep the promise of RemoteCall.                               *)

\* Every step is a step of RemoteCall or changes nothing it shows.
LEMMA RemoteStep ==
  ASSUME CallInv, RpcInv, [RpcNext]_rpcVars
  PROVE  [Remote!RemoteNext]_Remote!remoteVars
<1> USE DEF Remote!remoteVars, Remote!Calls, Remote!Pending, Remote!Failed, Calls, Pending, Failed
<1>1. ASSUME NEW u \in Users, Ask(u) PROVE Remote!Do
  BY <1>1 DEF Ask, Remote!Do
<1>2. ASSUME NEW n \in Calls, n <= asked, outcome[n] = Pending, UNCHANGED <<asked, ran>>,
             outcome' = [outcome EXCEPT ![n] = Failed]
      PROVE  Remote!RemoteNext
  BY <1>2 DEF Remote!Fail, Remote!RemoteNext
<1>3. \A u \in Users : pc[u] \in Active =>
         request[u] \in Calls /\ request[u] <= asked /\ outcome[request[u]] = Pending
  <2> SUFFICES ASSUME NEW u \in Users, pc[u] \in Active
               PROVE  request[u] \in Calls /\ request[u] <= asked /\ outcome[request[u]] = Pending
    OBVIOUS
  <2>1. CallOK(u) /\ HistoryOK /\ pc[u] # "idle"
    BY DEF RpcInv, Active
  <2>2. request[u] \in Calls
    BY <2>1, Types
  <2> QED
    BY <2>1, <2>2 DEF CallOK, HistoryOK, Active
<1>4. ASSUME NEW u \in Users, OffTrip(u) PROVE Remote!RemoteNext \/ UNCHANGED Remote!remoteVars
  <2>1. CASE pc'[u] = "idle" /\ err'[u]
    BY <1>2, <1>3, <1>4, <2>1, OffTripEffect DEF OffTrip
  <2>2. CASE ~(pc'[u] = "idle" /\ err'[u])
    BY <1>4, <2>2 DEF OffTrip
  <2> QED
    BY <2>1, <2>2
<1>5. ASSUME NEW u \in Users, BeginTrip(u) \/ Write(u) PROVE UNCHANGED Remote!remoteVars
  BY <1>5 DEF BeginTrip, Write, history, streams
<1>6. ASSUME NEW u \in Users, TripAnswered(u) PROVE Remote!RemoteNext
  <2>1. /\ OnTrip(u) /\ down[lease[u]] # <<>> /\ Head(down[lease[u]]).ok
        /\ outcome' = [outcome EXCEPT ![request[u]] =
                         trips[lease[u]][Head(down[lease[u]]).trip]]
        /\ UNCHANGED <<asked, ran>>
    BY <1>6 DEF TripAnswered, Conn
  <2>2. trips[lease[u]][Head(down[lease[u]]).trip] = request[u] /\ ran[request[u]] > 0
    BY <2>1, FrameIsTheAnswer
  <2>3. request[u] \in Calls /\ request[u] <= asked /\ outcome[request[u]] = Pending
    BY <1>3, <2>1 DEF OnTrip, Active
  <2>4. Remote!Succeed(request[u])
    BY <2>1, <2>2, <2>3 DEF Remote!Succeed
  <2> QED
    BY <2>3, <2>4 DEF Remote!RemoteNext
<1>7. ASSUME NEW u \in Users, TripFails(u) PROVE Remote!RemoteNext \/ UNCHANGED Remote!remoteVars
  <2>1. pc[u] \in Active
    BY <1>7 DEF TripFails, OnTrip, Active
  <2>2. CASE pc'[u] = "idle"
    BY <1>2, <1>3, <1>7, <2>1, <2>2 DEF TripFails
  <2>3. CASE pc'[u] # "idle"
    BY <1>7, <2>3 DEF TripFails
  <2> QED
    BY <2>2, <2>3
<1>8. ASSUME NEW c \in Conns, ServerHandles(c) PROVE Remote!RemoteNext \/ UNCHANGED Remote!remoteVars
  <2>1. PICK n \in Calls : n = trips[c][LastTrip(c)] /\ n <= asked /\ ran[n] < 2
                           /\ Head(up[c]) = LastTrip(c)
    BY <1>8, RequestIsTheLast, OneRunLeft DEF ServerHandles
  <2>2. /\ UNCHANGED <<asked, outcome>>
        /\ ran' = ran \/ ran' = [ran EXCEPT ![n] = @ + 1]
    BY <1>8, <2>1 DEF ServerHandles, history
  <2>3. CASE ran' = [ran EXCEPT ![n] = @ + 1]
    BY <2>1, <2>2, <2>3 DEF Remote!Run, Remote!RemoteNext
  <2> QED
    BY <2>2, <2>3
<1>9. ASSUME NEW c \in Conns, ServerCloses(c) PROVE UNCHANGED Remote!remoteVars
  BY <1>9 DEF ServerCloses, history
<1>10. CASE Environment
  BY <1>10 DEF Environment, history
<1>11. CASE UNCHANGED rpcVars
  BY <1>11 DEF rpcVars, history
<1>12. ASSUME NEW u \in Users, Proceed(u) PROVE Remote!RemoteNext \/ UNCHANGED Remote!remoteVars
  BY <1>4, <1>5, <1>6, <1>7, <1>12 DEF Proceed
<1> QED
  BY <1>1, <1>8, <1>9, <1>10, <1>11, <1>12 DEF RpcNext, Remote!RemoteNext

\* An answer reaches the call it was made for and no other, across timeouts,
\* retries and connections reused by other calls, after its handler has run;
\* and no handler runs a third time for one call, not even after it returned
\* (client.go:65-97 over transport.go:177-252 and persistconn.go).
THEOREM CallsAreRemoteCalls == RpcSpec => ImplementsRemoteCall
<1>1. RpcInit => Remote!RemoteInit
  BY DEF RpcInit, Remote!RemoteInit, Remote!Calls, Remote!Pending, Calls, Pending
<1>2. RpcSpec => Remote!RemoteInit /\ [][Remote!RemoteNext]_Remote!remoteVars
  BY <1>1, RemoteStep, RpcInvariance, PTL DEF RpcSpec
<1> QED
  BY <1>2 DEF ImplementsRemoteCall, Remote!RemoteSpec

-----------------------------------------------------------------------------
(* Every connection keeps the promise of Exchange.                         *)

\* busy and usable of the mapping OnWire.
Busy(c) == \E u \in Users : lease[u] = c /\ OnTrip(u)
InUse(c) == c \notin closed \/ \E u \in Users : lease[u] = c /\ pc[u] \in {"trip", "defer"}

\* A step that makes no trip on c, ends none and shows the server's work on it
\* to nobody leaves it alone or retires it.
LEMMA WireRetires ==
  ASSUME NEW c \in Conns, trips'[c] = trips[c], taken'[c] = taken[c], served'[c] = served[c],
         Busy(c)' <=> Busy(c), InUse(c)' => InUse(c)
  PROVE  OnWire(c)!ExchangeNext \/ UNCHANGED OnWire(c)!exchangeVars
<1>1. (Busy(c) => InUse(c)) /\ (Busy(c)' => InUse(c)')
  BY DEF Busy, InUse, OnTrip
<1>2. CASE InUse(c)' <=> InUse(c)
  BY <1>2 DEF OnWire!exchangeVars, Busy, InUse
<1>3. CASE InUse(c) /\ ~InUse(c)'
  <2>1. ~Busy(c) /\ ~Busy(c)'
    BY <1>1, <1>3
  <2> QED
    BY <1>3, <2>1 DEF OnWire!Retire, OnWire!ExchangeNext, Busy, InUse
<1> QED
  BY <1>2, <1>3

\* So does one that leaves every trip where it is and opens no connection.
LEMMA WireFrame ==
  ASSUME NEW c \in Conns, trips'[c] = trips[c], taken'[c] = taken[c], served'[c] = served[c],
         c \in closed => c \in closed',
         \A u \in Users : lease[u] = c \/ lease'[u] = c =>
            /\ lease[u] = c /\ OnTrip(u) => lease'[u] = c /\ OnTrip(u)'
            /\ lease'[u] = c /\ pc'[u] \in {"trip", "defer"} => lease[u] = c /\ pc'[u] = pc[u]
  PROVE  OnWire(c)!ExchangeNext \/ UNCHANGED OnWire(c)!exchangeVars
<1>1. Busy(c)' <=> Busy(c)
  BY DEF Busy, OnTrip
<1>2. InUse(c)' => InUse(c)
  BY DEF InUse
<1> QED
  BY <1>1, <1>2, WireRetires

\* Each call makes one trip at most on a connection, so there is room for one
\* that has made none.
LEMMA RoomForATrip ==
  ASSUME RpcInv, NEW c \in Conns, NEW n \in 1 .. asked, c \notin TripsOf(n)
  PROVE  Len(trips[c]) < MaxCalls
<1> DEFINE L == Len(trips[c])
           T == (1 .. asked) \ {n}
<1>1. /\ trips[c] \in Seq(1 .. asked) /\ asked \in Nat /\ asked <= MaxCalls /\ MaxCalls \in Nat
  BY CallsAssumption DEF RpcInv, HistoryOK
<1>2. L \in Nat /\ DOMAIN trips[c] = 1 .. L /\ trips[c] \in [1 .. L -> 1 .. asked]
  BY <1>1
<1>3. trips[c] \in [1 .. L -> T]
  BY <1>2 DEF TripsOf
<1>4. \A s, t \in 1 .. L : trips[c][s] = trips[c][t] => s = t
  BY DEF RpcInv, StreamsOK, LastTrip
<1>5. IsFiniteSet(1 .. asked) /\ Cardinality(1 .. asked) = asked
  BY <1>1, FS_Interval
<1>6. IsFiniteSet(T) /\ Cardinality(T) = asked - 1
  BY <1>5, FS_RemoveElement
<1>7. IsFiniteSet(1 .. L) /\ Cardinality(1 .. L) = L
  BY <1>2, FS_Interval
<1> HIDE DEF T
<1>8. ~(Cardinality(T) < Cardinality(1 .. L))
  BY <1>3, <1>4, <1>6, <1>7, FS_PigeonHole
<1> QED
  BY <1>1, <1>2, <1>6, <1>7, <1>8

\* A trip begins on a connection that is open and has none under way.
LEMMA BeginOnWire ==
  ASSUME CallInv, RpcInv, NEW u \in Users, BeginTrip(u), NEW c \in Conns
  PROVE  OnWire(c)!ExchangeNext \/ UNCHANGED OnWire(c)!exchangeVars
<1>1. PICK d \in Conns \ closed :
            /\ lease' = [lease EXCEPT ![u] = d] /\ pc' = [pc EXCEPT ![u] = "trip"]
            /\ pc[u] \in {"get", "dial"} /\ lease[u] = NoConn /\ retryCount[u] \in {0, 1}
            /\ d \notin TripsOf(request[u])
            /\ \A v \in Users : lease[v] # d
            /\ dialed' = dialed \cup {d} /\ closed \subseteq closed'
            /\ UNCHANGED retryCount
  BY BeginTripEffect
<1>2. lease'[u] = d /\ pc'[u] = "trip" /\ \A v \in Users \ {u} : pc'[v] = pc[v] /\ lease'[v] = lease[v]
  BY <1>1, Types
<1>3. /\ trips \in [Conns -> Seq(1 .. asked)] /\ request[u] \in 1 .. asked
      /\ trips' = [trips EXCEPT ![d] = Append(@, request[u])] /\ UNCHANGED <<taken, served>>
  <2>1. HistoryOK /\ request[u] \in Calls
    BY <1>1, Types DEF RpcInv
  <2> QED
    BY <1>2, <2>1 DEF BeginTrip, streams, HistoryOK, Calls
<1>4. CASE c = d
  <2>1. /\ ~Busy(c) /\ InUse(c) /\ Busy(c)' /\ InUse(c)'
    BY <1>1, <1>2, <1>4 DEF Busy, InUse, OnTrip
  <2>2. Len(trips[c]) < MaxCalls
    BY <1>1, <1>3, <1>4, RoomForATrip
  <2>3. Len(trips'[c]) = Len(trips[c]) + 1
    BY <1>3, <1>4
  <2> QED
    BY <1>3, <2>1, <2>2, <2>3 DEF OnWire!Begin, OnWire!ExchangeNext, Busy, InUse
<1>5. CASE c # d
  <2>1. trips'[c] = trips[c] /\ (c \in closed => c \in closed')
    BY <1>1, <1>3, <1>5
  <2>2. \A v \in Users : lease[v] = c \/ lease'[v] = c =>
            /\ lease[v] = c /\ OnTrip(v) => lease'[v] = c /\ OnTrip(v)'
            /\ lease'[v] = c /\ pc'[v] \in {"trip", "defer"} => lease[v] = c /\ pc'[v] = pc[v]
    BY <1>1, <1>2, <1>5, Types DEF OnTrip
  <2> QED
    BY <1>3, <2>1, <2>2, WireFrame
<1> QED
  BY <1>4, <1>5

\* A trip ends on the connection that the call holds, and on no other.
LEMMA EndOnWire ==
  ASSUME CallInv, RpcInv, NEW u \in Users, TripAnswered(u) \/ TripFails(u), NEW c \in Conns
  PROVE  OnWire(c)!ExchangeNext \/ UNCHANGED OnWire(c)!exchangeVars
<1>1. OnTrip(u) /\ lease[u] \in Conns /\ UNCHANGED <<trips, taken>>
  BY Types DEF TripAnswered, TripFails
<1>2. CASE TripAnswered(u)
  <2>1. /\ pc'[u] = "defer" /\ UNCHANGED <<closed, lease>>
        /\ \A v \in Users \ {u} : pc'[v] = pc[v]
    BY <1>2, Types DEF TripAnswered, TripOk, Goto, poolVars
  <2>2. /\ LastTrip(lease[u]) \in taken[lease[u]]
        /\ served' = [served EXCEPT ![lease[u]] = @ \cup {Len(trips[lease[u]])}]
    BY <1>1, <1>2, FrameIsTheAnswer DEF TripAnswered, Conn
  <2>3. CASE c = lease[u]
    <3>1. Busy(c) /\ ~Busy(c)' /\ InUse(c) /\ InUse(c)'
      BY <1>1, <2>1, <2>3, Types DEF Busy, InUse, OnTrip
    <3>2. served'[c] = served[c] \cup {Len(trips[c])}
      BY <1>1, <2>2, <2>3 DEF RpcInv, HistoryOK
    <3> QED
      BY <1>1, <2>2, <2>3, <3>1, <3>2 DEF OnWire!Succeed, OnWire!ExchangeNext, Busy, InUse, LastTrip
  <2>4. CASE c # lease[u]
    <3>1. served'[c] = served[c]
      BY <2>2, <2>4
    <3> QED
      BY <1>1, <2>1, <2>4, <3>1, WireFrame DEF OnTrip
  <2> QED
    BY <2>3, <2>4
<1>3. CASE TripFails(u)
  <2>1. /\ lease'[u] = NoConn /\ closed' = closed \cup {lease[u]} /\ served' = served
        /\ \A v \in Users \ {u} : pc'[v] = pc[v] /\ lease'[v] = lease[v]
    BY <1>3, TripErrorEffect DEF TripFails
  <2>2. CASE c = lease[u]
    <3>1. Busy(c) /\ ~Busy(c)' /\ InUse(c) /\ ~InUse(c)'
      BY <1>1, <2>1, <2>2, Types DEF Busy, InUse, OnTrip
    <3> QED
      BY <1>1, <2>1, <3>1 DEF OnWire!Fail, OnWire!ExchangeNext, Busy, InUse
  <2>3. CASE c # lease[u]
    BY <1>1, <2>1, <2>3, Types, WireFrame DEF OnTrip
  <2> QED
    BY <2>2, <2>3
<1> QED
  BY <1>2, <1>3

\* Every other step is the server's work on one connection, retires one, or
\* cannot be seen.
LEMMA WireStep ==
  ASSUME CallInv, RpcInv, [RpcNext]_rpcVars, NEW c \in Conns
  PROVE  OnWire(c)!ExchangeNext \/ UNCHANGED OnWire(c)!exchangeVars
<1>1. ASSUME NEW u \in Users, Ask(u)
      PROVE  OnWire(c)!ExchangeNext \/ UNCHANGED OnWire(c)!exchangeVars
  <2>1. /\ pc[u] = "idle" /\ pc' = [pc EXCEPT ![u] = "loop"]
        /\ UNCHANGED <<closed, lease, trips, taken, served>>
    BY <1>1 DEF Ask, Call, Goto, poolVars, streams
  <2> QED
    BY <2>1, Types, WireFrame DEF OnTrip
<1>2. ASSUME NEW u \in Users, OffTrip(u)
      PROVE  OnWire(c)!ExchangeNext \/ UNCHANGED OnWire(c)!exchangeVars
  <2>1. UNCHANGED <<trips, taken, served>>
    BY <1>2 DEF OffTrip, streams
  <2>2. /\ pc[u] # "trip" /\ pc'[u] \notin {"trip", "defer"} /\ closed \subseteq closed'
        /\ \A v \in Users \ {u} : pc'[v] = pc[v] /\ lease'[v] = lease[v]
    BY <1>2, OffTripEffect
  <2> QED
    BY <2>1, <2>2, WireFrame DEF OnTrip
<1>3. ASSUME NEW u \in Users, Write(u)
      PROVE  OnWire(c)!ExchangeNext \/ UNCHANGED OnWire(c)!exchangeVars
  <2>1. UNCHANGED <<closed, lease, pc, trips, taken, served>>
    BY <1>3 DEF Write, vars, poolVars, callVars
  <2> QED
    BY <2>1, WireFrame DEF OnTrip
<1>4. ASSUME NEW d \in Conns, ServerHandles(d)
      PROVE  OnWire(c)!ExchangeNext \/ UNCHANGED OnWire(c)!exchangeVars
  <2>1. UNCHANGED <<closed, lease, pc, trips, served>>
    BY <1>4 DEF ServerHandles, vars, poolVars, callVars
  <2>2. /\ LastTrip(d) \in (1 .. LastTrip(d)) \ taken[d]
        /\ taken' = [taken EXCEPT ![d] = @ \cup {LastTrip(d)}]
    BY <1>4, RequestIsTheLast DEF ServerHandles
  <2>3. CASE c = d
    <3>1. taken'[c] = taken[c] \cup {LastTrip(c)}
      BY <2>2, <2>3 DEF RpcInv, HistoryOK
    <3>2. (Busy(c)' <=> Busy(c)) /\ (InUse(c)' <=> InUse(c))
      BY <2>1 DEF Busy, InUse, OnTrip
    <3> QED
      BY <2>1, <2>2, <2>3, <3>1, <3>2 DEF OnWire!Handle, OnWire!ExchangeNext, LastTrip, Busy, InUse
  <2>4. CASE c # d
    <3>1. taken'[c] = taken[c]
      BY <2>2, <2>4
    <3> QED
      BY <2>1, <3>1, WireFrame DEF OnTrip
  <2> QED
    BY <2>3, <2>4
<1>5. ASSUME NEW d \in Conns, ServerCloses(d)
      PROVE  OnWire(c)!ExchangeNext \/ UNCHANGED OnWire(c)!exchangeVars
  <2>1. UNCHANGED <<closed, lease, pc, trips, taken, served>>
    BY <1>5 DEF ServerCloses, vars, poolVars, callVars
  <2> QED
    BY <2>1, WireFrame DEF OnTrip
<1>6. CASE Environment
  <2>1. UNCHANGED <<trips, taken, served>>
    BY <1>6 DEF Environment, streams
  <2>2. ASSUME NEW u \in Users, Expire(u) PROVE UNCHANGED <<closed, pc, lease>>
    BY <2>2 DEF Expire, poolVars
  <2>3. ASSUME Background, UNCHANGED callVars
        PROVE  closed \subseteq closed' /\ UNCHANGED <<pc, lease>>
    BY <2>3 DEF callVars, Background, Break, TimerFire, IdleRemove, IdleClose, Tick, CloseAll
  <2>4. closed \subseteq closed' /\ UNCHANGED <<pc, lease>>
    BY <1>6, <2>2, <2>3 DEF Environment
  <2> QED
    BY <2>1, <2>4, WireFrame DEF OnTrip
<1>7. CASE UNCHANGED rpcVars
  <2>1. UNCHANGED <<closed, lease, pc, trips, taken, served>>
    BY <1>7 DEF rpcVars, vars, poolVars, callVars, streams
  <2> QED
    BY <2>1, WireFrame DEF OnTrip
<1>8. ASSUME NEW u \in Users, Proceed(u)
      PROVE  OnWire(c)!ExchangeNext \/ UNCHANGED OnWire(c)!exchangeVars
  BY <1>2, <1>3, <1>8, BeginOnWire, EndOnWire DEF Proceed
<1> QED
  BY <1>1, <1>4, <1>5, <1>6, <1>7, <1>8 DEF RpcNext

\* Driven by the retry loop and the pool, every connection makes one trip at a
\* time and none after a failure, gives no answer before the server has read
\* its request, and sees each call once (transport.go:98-252,
\* persistconn.go:153-229).
THEOREM ConnectionsExchange == RpcSpec => ConnsExchange
<1>1. RpcInit => \A c \in Conns : OnWire(c)!ExchangeInit
  <2> SUFFICES ASSUME RpcInit, NEW c \in Conns PROVE OnWire(c)!ExchangeInit
    OBVIOUS
  <2> QED
    BY DEF RpcInit, OnWire!ExchangeInit, Init, PoolInit, OnTrip
<1>2. CallInv /\ RpcInv /\ [RpcNext]_rpcVars =>
        [\A c \in Conns : OnWire(c)!ExchangeNext \/ UNCHANGED OnWire(c)!exchangeVars]_rpcVars
  BY WireStep
<1>3. RpcSpec => [][\A c \in Conns :
                      OnWire(c)!ExchangeNext \/ UNCHANGED OnWire(c)!exchangeVars]_rpcVars
  BY <1>2, RpcInvariance, PTL DEF RpcSpec
<1>4. RpcSpec => \A c \in Conns : OnWire(c)!ExchangeInit
  BY <1>1 DEF RpcSpec
<1> QED
  BY <1>3, <1>4 DEF ConnsExchange
=============================================================================
