-------------------------------- MODULE Rpc --------------------------------
(***************************************************************************)
(* Calls from end to end: the retry loop and the pool of Transport over    *)
(* connections that carry requests to a server and its answers back.       *)
(*                                                                         *)
(* A connection is two streams.  up holds the requests the server has not  *)
(* read, down the frames the client has not.  Each entry is the number of  *)
(* a trip of that connection, for the model's reader only: the protocol    *)
(* has no request identifiers, and a client takes the next frame for its   *)
(* answer.  PersistConn and Server look inside the two ends; here a trip   *)
(* is: take a connection, write the request, take a frame or give up.      *)
(***************************************************************************)
EXTENDS Transport

CONSTANT MaxCalls  \* bound: calls made in all

ASSUME CallsAssumption == MaxCalls \in Nat \ {0}

VARIABLES
  asked,    \* calls made so far; they are numbered
  request,  \* the number of each user's call, 0 before its first
  written,  \* users whose request has been handed to writeLoop on this trip
  trips,    \* trips[c]: the call behind every trip of connection c
  up, down, \* the two streams of each connection
  gone,     \* connections the server has closed
  taken,    \* taken[c]: the trips of c the server has read
  served,   \* served[c]: the trips of c that succeeded
  ran,      \* how often the handler has run for each call
  outcome   \* the call whose answer each call got, or Failed

Calls == 1 .. MaxCalls
Pending == 0
Failed == MaxCalls + 1

streams == <<up, down, gone, taken>>
history == <<asked, request, outcome>>
rpcVars == <<vars, history, written, trips, served, streams, ran>>

RpcInit ==
  /\ Init
  /\ asked = 0 /\ request = [u \in Users |-> 0] /\ written = {}
  /\ trips = [c \in Conns |-> <<>>]
  /\ up = [c \in Conns |-> <<>>] /\ down = [c \in Conns |-> <<>>]
  /\ gone = {}
  /\ taken = [c \in Conns |-> {}] /\ served = [c \in Conns |-> {}]
  /\ ran = [n \in Calls |-> 0]
  /\ outcome = [n \in Calls |-> Pending]

\* Client.Do.
Ask(u) ==
  /\ asked < MaxCalls /\ Call(u)
  /\ asked' = asked + 1
  /\ request' = [request EXCEPT ![u] = asked + 1]
  /\ UNCHANGED <<outcome, written, trips, served, streams, ran>>

\* The steps of roundTrip outside a trip.  One that returns an error fails
\* the call.
OffTrip(u) ==
  /\ LoopDone(u) \/ LoopLive(u) \/ PoolEmpty(u) \/ DialError(u)
     \/ DeferOpen(u) \/ DeferClosed(u) \/ PutConn(u)
  /\ outcome' = IF pc'[u] = "idle" /\ err'[u]
                  THEN [outcome EXCEPT ![request[u]] = Failed] ELSE outcome
  /\ UNCHANGED <<asked, request, written, trips, served, streams, ran>>

\* getConn returns a connection and conn.roundTrip begins on it.
BeginTrip(u) ==
  /\ FromPool(u) \/ DialOk(u)
  /\ trips' = [trips EXCEPT ![lease'[u]] = Append(@, request[u])]
  /\ UNCHANGED <<history, written, served, streams, ran>>

OnTrip(u) == pc[u] = "trip"
Conn(u) == lease[u]

\* writeLoop writes the request.  Whatever reaches a server that has closed,
\* or leaves by a socket that is closed, is lost.
Write(u) ==
  /\ OnTrip(u) /\ u \notin written
  /\ written' = written \cup {u}
  /\ up' = IF Conn(u) \in gone \cup closed THEN up
             ELSE [up EXCEPT ![Conn(u)] = Append(@, Len(trips[Conn(u)]))]
  /\ UNCHANGED <<vars, history, trips, served, down, gone, taken, ran>>

\* readLoop takes the next frame, an answer, and roundTrip returns it: the
\* call has its outcome.
TripAnswered(u) ==
  /\ OnTrip(u) /\ u \in written
  /\ LET c == Conn(u) IN
       /\ down[c] # <<>> /\ Head(down[c]).ok
       /\ down' = [down EXCEPT ![c] = Tail(@)]
       /\ outcome' = [outcome EXCEPT ![request[u]] = trips[c][Head(down[c]).trip]]
       /\ served' = [served EXCEPT ![c] = @ \cup {Len(trips[c])}]
  /\ TripOk(u)
  /\ written' = written \ {u}
  /\ UNCHANGED <<asked, request, trips, up, gone, taken, ran>>

\* Fault: roundTrip's select has no case for the deadline.
MayFailUntimed(u) ==
  LET c == Conn(u) IN
  \/ u \notin written \/ c \in closed
  \/ c \in gone /\ down[c] = <<>>
  \/ down[c] # <<>> /\ ~Head(down[c]).ok

\* Why a trip may fail: the request is refused before it is written (too
\* long, or its context done), the deadline passes, the connection is closed
\* under it, the server has closed, or the answer is a status frame.
MayFail(u) ==
  LET c == Conn(u) IN
  \/ u \notin written \/ expired[u] \/ c \in closed
  \/ c \in gone /\ down[c] = <<>>
  \/ down[c] # <<>> /\ ~Head(down[c]).ok

\* Fault: a trip that ran out of time leaves its connection open, and the
\* call fails with the connection back in the pool.
TripFailsReuses(u) ==
  /\ OnTrip(u) /\ MayFail(u)
  /\ IF expired[u] /\ Conn(u) \notin closed
       THEN /\ Goto(u, "trip", "put") /\ Return(u)
            /\ outcome' = [outcome EXCEPT ![request[u]] = Failed]
            /\ UNCHANGED <<target, expired, retryCount, err, handled, down>>
       ELSE /\ TripError(u)
            /\ down' = [down EXCEPT ![Conn(u)] = <<>>]
            /\ outcome' = IF pc'[u] = "idle"
                  THEN [outcome EXCEPT ![request[u]] = Failed] ELSE outcome
  /\ written' = written \ {u}
  /\ UNCHANGED <<asked, request, trips, served, up, gone, taken, ran>>

\* The trip fails and its connection is closed, with whatever it had not
\* read.  A request that was written counts as handled: nobody can tell.
TripFails(u) ==
  /\ OnTrip(u) /\ MayFail(u) /\ TripError(u)
  /\ pc'[u] = "loop" =>
       handled'[u] = handled[u] + (IF u \in written THEN 1 ELSE 0)
  /\ down' = [down EXCEPT ![Conn(u)] = <<>>]
  /\ outcome' = IF pc'[u] = "idle"
                  THEN [outcome EXCEPT ![request[u]] = Failed] ELSE outcome
  /\ written' = written \ {u}
  /\ UNCHANGED <<asked, request, trips, served, up, gone, taken, ran>>

-----------------------------------------------------------------------------
(* The server's end of connection c: one serve goroutine.                  *)

\* Its loop reads the next request.  It runs the handler and answers, runs it
\* and answers nothing (the answer is too long), or answers with a status
\* frame, instead of running the handler or after it has panicked.  An answer
\* to a closed connection is lost.
ServerHandles(c) ==
  /\ up[c] # <<>> /\ c \notin gone
  /\ LET t == Head(up[c])
         Send(ok) == down' = IF c \in closed THEN down
                 ELSE [down EXCEPT ![c] = Append(@, [trip |-> t, ok |-> ok])]
         Handler == ran' = [ran EXCEPT ![trips[c][t]] = @ + 1]
     IN /\ \/ Handler /\ Send(TRUE)
           \/ Handler /\ UNCHANGED down
           \/ Handler /\ Send(FALSE)
           \/ Send(FALSE) /\ UNCHANGED ran
        /\ up' = [up EXCEPT ![c] = Tail(@)]
        /\ taken' = [taken EXCEPT ![c] = @ \cup {t}]
  /\ UNCHANGED <<vars, history, written, trips, served, gone>>

\* Timeouts, keep-alives off, the client's EOF, a panic or a crash: what the
\* server has not read is lost, and so may be what the client has not.
ServerCloses(c) ==
  /\ c \in dialed \ gone /\ gone' = gone \cup {c}
  /\ up' = [up EXCEPT ![c] = <<>>]
  /\ \E rest \in {down[c], <<>>} : down' = [down EXCEPT ![c] = rest]
  /\ UNCHANGED <<vars, history, written, trips, served, taken, ran>>

-----------------------------------------------------------------------------
Proceed(u) ==
  OffTrip(u) \/ BeginTrip(u) \/ Write(u) \/ TripAnswered(u) \/ TripFails(u)

Environment ==
  /\ \/ \E u \in Users : Expire(u)
     \/ Background /\ UNCHANGED callVars
  /\ UNCHANGED <<history, written, trips, served, streams, ran>>

RpcNext ==
  /\ Running
  /\ \/ \E u \in Users : Ask(u) \/ Proceed(u)
     \/ \E c \in Conns : ServerHandles(c) \/ ServerCloses(c)
     \/ Environment

RpcSpec == RpcInit /\ [][RpcNext]_rpcVars

\* The client's goroutines run and every call has a deadline.  Nothing is
\* assumed of the server, which may never answer.  Every step of a goroutine
\* changes what the subscript names.
FairRpcSpec ==
  /\ RpcSpec
  /\ \A u \in Users :
       /\ WF_<<pc[u], u \in written>>(Running /\ Proceed(u))
       /\ WF_expired(Running /\ Expire(u) /\ UNCHANGED <<history, written, trips, served, streams, ran>>)
-----------------------------------------------------------------------------
\* The calls keep the promise of RemoteCall: an answer reaches the call it was
\* made for, across timeouts, retries and connections reused by other calls,
\* and no handler runs a third time, not even after the call has returned
\* (client.go:65-97 over transport.go:177-252 and persistconn.go).
Remote == INSTANCE RemoteCall

ImplementsRemoteCall == Remote!RemoteSpec

\* Driven by the retry loop and the pool, every connection keeps to Exchange,
\* the promise that PersistConn is shown to keep: one trip at a time, none
\* after a failure, no answer before the server has read its request.
OnWire(c) == INSTANCE Exchange WITH
  MaxTrips <- MaxCalls,
  last <- Len(trips[c]),
  busy <- \E u \in Users : lease[u] = c /\ OnTrip(u),
  usable <- c \notin closed \/ \E u \in Users : lease[u] = c /\ pc[u] \in {"trip", "defer"},
  handled <- taken[c],
  served <- served[c]

ConnsExchange ==
  /\ \A c \in Conns : OnWire(c)!ExchangeInit
  /\ [][\A c \in Conns :
         OnWire(c)!ExchangeNext \/ UNCHANGED OnWire(c)!exchangeVars]_rpcVars
=============================================================================
