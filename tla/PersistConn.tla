----------------------------- MODULE PersistConn -----------------------------
(***************************************************************************)
(* One client connection (client/persistconn.go) at the grain of its       *)
(* goroutines: the caller inside roundTrip, writeLoop, readLoop, whoever   *)
(* closes it, and the server's serve loop at the other end of the stream.  *)
(*                                                                         *)
(* Trips are numbered; the number stands for the request, and a response   *)
(* carries the number of the request it answers, which the real protocol   *)
(* does not: the client takes the next frame for the answer.               *)
(*                                                                         *)
(* closedMutex is held from setting closed and closedCh (CloseBegin) to    *)
(* conn.Close (CloseEnd).  isClosed waits for it; the receives from        *)
(* closedCh do not, and see the channel closed while the socket is open.   *)
(***************************************************************************)
EXTENDS Naturals, Sequences, FiniteSets

CONSTANT MaxTrips  \* bound: trips made on the connection

ASSUME TripsAssumption == MaxTrips \in Nat \ {0}

Trips == 1 .. MaxTrips
Kinds == {"rsp", "status", "cut"}
Frames == [req : Trips, kind : Kinds]
Replies == {"none", "ok", "err"}

VARIABLES
  pc,            \* where the caller, the writer and the reader are
  trip,          \* the number of the last trip
  done,          \* trips whose context is done
  sendCh, receiveCh,        \* the two channels, of capacity 1
  sendReply, receiveReply,  \* the reply channels of each trip, capacity 1
  current,       \* the trip readLoop is receiving for
  answer,        \* what readLoop will send to its Reply channel
  closed,        \* closed is set and closedCh is closed
  closer,        \* who is inside closeLocked
  sockClosed,    \* conn.Close has run
  toServer,      \* requests on their way to the server
  inbox,         \* response frames in the socket
  buffered,      \* response frames in bufReader
  peerClosed,    \* the server has closed the stream
  handled,       \* requests the server has handled
  served         \* trips whose response reached the caller

vars == <<pc, trip, done, sendCh, receiveCh, sendReply, receiveReply, current,
          answer, closed, closer, sockClosed, toServer, inbox, buffered,
          peerClosed, handled, served>>

wire == <<toServer, inbox, buffered, peerClosed, handled>>
closing == <<closed, closer, sockClosed>>
channels == <<sendCh, receiveCh, sendReply, receiveReply>>
reading == <<current, answer>>

CallerSteps == {"idle", "send", "notify", "await", "defer", "close", "exit"}
WriterSteps == {"select", "close", "exit"}
ReaderSteps == {"check", "peek", "receive", "read", "reply", "close", "exit"}

Init ==
  /\ pc = [caller |-> "idle", writer |-> "select", reader |-> "check"]
  /\ trip = 0 /\ done = {}
  /\ sendCh = <<>> /\ receiveCh = <<>>
  /\ sendReply = [t \in Trips |-> "none"]
  /\ receiveReply = [t \in Trips |-> "none"]
  /\ current = 0 /\ answer = [result |-> "none", req |-> 0, broken |-> FALSE]
  /\ closed = FALSE /\ closer = "nobody" /\ sockClosed = FALSE
  /\ toServer = <<>> /\ inbox = <<>> /\ buffered = <<>>
  /\ peerClosed = FALSE /\ handled = {} /\ served = {}

Goto(p, from, to) == pc[p] = from /\ pc' = [pc EXCEPT ![p] = to]
MutexFree == closer = "nobody"

-----------------------------------------------------------------------------
(* Closing: close takes closedMutex and runs closeLocked.                  *)

\* The first close.  The caller, the writer and the reader close from their
\* own code, the pool only while no trip holds the connection.
CloseBegin(p) ==
  /\ MutexFree /\ ~closed
  /\ IF p = "pool" THEN pc.caller = "idle" ELSE pc[p] = "close"
  /\ closed' = TRUE /\ closer' = p
  /\ UNCHANGED <<pc, trip, done, channels, reading, sockClosed, wire, served>>

CloseEnd(p) ==
  /\ closer = p
  /\ sockClosed' = TRUE /\ closer' = "nobody"
  /\ pc' = IF p = "pool" THEN pc ELSE [pc EXCEPT ![p] = "exit"]
  /\ UNCHANGED <<trip, done, channels, reading, closed, wire, served>>

\* A later close finds closed set and returns.
CloseAgain(p) ==
  /\ MutexFree /\ closed
  /\ Goto(p, "close", "exit")
  /\ UNCHANGED <<trip, done, channels, reading, closing, wire, served>>

-----------------------------------------------------------------------------
(* The caller: Transport.getConn, roundTrip, and Transport's closeConn.    *)

\* The pool hands the connection out (isClosed said no) and roundTrip starts.
Begin ==
  /\ MutexFree /\ ~closed /\ trip < MaxTrips
  /\ Goto("caller", "idle", "send")
  /\ trip' = trip + 1
  /\ UNCHANGED <<done, channels, reading, closing, wire, served>>

\* Two plain sends: a full channel would block the caller past its deadline.
PushSend ==
  /\ Goto("caller", "send", "notify")
  /\ sendCh = <<>> /\ sendCh' = <<trip>>
  /\ UNCHANGED <<trip, done, receiveCh, sendReply, receiveReply, reading,
                 closing, wire, served>>

PushReceive ==
  /\ Goto("caller", "notify", "await")
  /\ receiveCh = <<>> /\ receiveCh' = <<trip>>
  /\ UNCHANGED <<trip, done, sendCh, sendReply, receiveReply, reading,
                 closing, wire, served>>

\* Fault: a request that could not be sent leaves the connection in use.
AwaitSentForgives ==
  /\ pc.caller = "await" /\ sendReply[trip] # "none"
  /\ sendReply' = [sendReply EXCEPT ![trip] = "none"]
  /\ pc' = IF sendReply[trip] = "err" THEN [pc EXCEPT !.caller = "defer"] ELSE pc
  /\ UNCHANGED <<trip, done, sendCh, receiveCh, receiveReply, reading, closing,
                 wire, served>>

\* The select of roundTrip, one disjunct per ready case; Go picks any.
AwaitSent ==
  /\ pc.caller = "await" /\ sendReply[trip] # "none"
  /\ sendReply' = [sendReply EXCEPT ![trip] = "none"]
  /\ pc' = IF sendReply[trip] = "err" THEN [pc EXCEPT !.caller = "close"] ELSE pc
  /\ UNCHANGED <<trip, done, sendCh, receiveCh, receiveReply, reading, closing,
                 wire, served>>

\* Fault: any response, an error too, leaves the connection in use.
AwaitResponseForgives ==
  /\ pc.caller = "await" /\ receiveReply[trip] # "none"
  /\ Goto("caller", "await", "defer")
  /\ receiveReply' = [receiveReply EXCEPT ![trip] = "none"]
  /\ served' = IF receiveReply[trip] = "ok" THEN served \cup {trip} ELSE served
  /\ UNCHANGED <<trip, done, sendCh, receiveCh, sendReply, reading, closing, wire>>

AwaitResponse ==
  /\ pc.caller = "await" /\ receiveReply[trip] # "none"
  /\ Goto("caller", "await", IF receiveReply[trip] = "ok" THEN "defer" ELSE "close")
  /\ receiveReply' = [receiveReply EXCEPT ![trip] = "none"]
  /\ served' = IF receiveReply[trip] = "ok" THEN served \cup {trip} ELSE served
  /\ UNCHANGED <<trip, done, sendCh, receiveCh, sendReply, reading, closing, wire>>

\* Fault: a trip that ran out of time gives its connection back to the pool.
AwaitFailureReuses ==
  /\ \/ closed /\ Goto("caller", "await", "close")
     \/ trip \in done /\ Goto("caller", "await", "defer")
  /\ UNCHANGED <<trip, done, channels, reading, closing, wire, served>>

AwaitFailure ==
  /\ closed \/ trip \in done
  /\ Goto("caller", "await", "close")
  /\ UNCHANGED <<trip, done, channels, reading, closing, wire, served>>

\* Transport's deferred function after a success: back to the pool, unless
\* isClosed says otherwise.
Defer ==
  /\ MutexFree
  /\ Goto("caller", "defer", IF closed THEN "exit" ELSE "idle")
  /\ UNCHANGED <<trip, done, channels, reading, closing, wire, served>>

\* The deadline of a trip's context passes, or send's deferred cancel runs.
ContextDone(t) ==
  /\ t <= trip /\ t \notin done
  /\ done' = done \cup {t}
  /\ UNCHANGED <<pc, trip, channels, reading, closing, wire, served>>

-----------------------------------------------------------------------------
(* writeLoop.                                                              *)

WriterStops ==
  /\ closed /\ Goto("writer", "select", "exit")
  /\ UNCHANGED <<trip, done, channels, reading, closing, wire, served>>

\* WriteSocket succeeds: the bytes are on their way, and lost if the server
\* has closed.  It refuses a request whose context is done or whose body is
\* too long (not broken).  It fails on a socket closed at either end (broken).
Written(t) ==
  \/ /\ t \notin done /\ ~sockClosed
     /\ toServer' = IF peerClosed THEN toServer ELSE Append(toServer, t)
     /\ sendReply' = [sendReply EXCEPT ![t] = "ok"]
     /\ UNCHANGED pc
  \/ /\ sendReply' = [sendReply EXCEPT ![t] = "err"]
     /\ UNCHANGED <<pc, toServer>>
  \/ /\ t \notin done /\ (sockClosed \/ peerClosed)
     /\ sendReply' = [sendReply EXCEPT ![t] = "err"]
     /\ pc' = [pc EXCEPT !.writer = "close"]
     /\ UNCHANGED toServer

WriteRequest ==
  /\ pc.writer = "select" /\ sendCh # <<>>
  /\ sendCh' = <<>>
  /\ Written(Head(sendCh))
  /\ UNCHANGED <<trip, done, receiveCh, receiveReply, reading, closing, inbox,
                 buffered, peerClosed, handled, served>>

-----------------------------------------------------------------------------
(* readLoop.                                                               *)

CheckClosed ==
  /\ MutexFree
  /\ Goto("reader", "check", IF closed THEN "close" ELSE "peek")
  /\ UNCHANGED <<trip, done, channels, reading, closing, wire, served>>

\* Peek returns at once on buffered bytes, fills the buffer from an open
\* socket, and fails on a closed one.
PeekData ==
  /\ Goto("reader", "peek", "receive")
  /\ \/ buffered # <<>> /\ UNCHANGED <<inbox, buffered>>
     \/ /\ buffered = <<>> /\ inbox # <<>> /\ ~sockClosed
        /\ buffered' = inbox /\ inbox' = <<>>
  /\ UNCHANGED <<trip, done, channels, reading, closing, toServer, peerClosed,
                 handled, served>>

PeekFails ==
  /\ buffered = <<>> /\ (sockClosed \/ (peerClosed /\ inbox = <<>>))
  /\ Goto("reader", "peek", "close")
  /\ UNCHANGED <<trip, done, channels, reading, closing, wire, served>>

\* <-pc.receiveCh, with no other case: nothing but a new trip ends this wait.
ReceiveNotify ==
  /\ receiveCh # <<>>
  /\ Goto("reader", "receive", "read")
  /\ current' = Head(receiveCh) /\ receiveCh' = <<>>
  /\ UNCHANGED <<trip, done, sendCh, sendReply, receiveReply, answer, closing,
                 wire, served>>

Answer(result, req, broken) ==
  answer' = [result |-> result, req |-> req, broken |-> broken]

\* ReadSocket looks at the context first and leaves the frame unread if it is
\* done; wrap turns a status frame into an error; a frame cut short is broken.
ReadFrame ==
  /\ Goto("reader", "read", "reply")
  /\ \/ current \in done /\ Answer("err", current, FALSE) /\ UNCHANGED buffered
     \/ /\ current \notin done /\ Head(buffered).kind # "cut"
        /\ Answer(IF Head(buffered).kind = "rsp" THEN "ok" ELSE "err",
                  Head(buffered).req, FALSE)
        /\ buffered' = Tail(buffered)
     \/ /\ current \notin done /\ Head(buffered).kind = "cut"
        /\ sockClosed \/ peerClosed
        /\ Answer("err", current, TRUE)
        /\ buffered' = Tail(buffered)
  /\ UNCHANGED <<trip, done, channels, current, closing, toServer, inbox,
                 peerClosed, handled, served>>

\* The select between the Reply channel and CallerGone.
CallerGone(t) == t < trip \/ pc.caller \notin {"notify", "await"}

SendAnswer ==
  /\ Goto("reader", "reply", IF answer.broken THEN "close" ELSE "check")
  /\ \/ /\ receiveReply[current] = "none"
        /\ receiveReply' = [receiveReply EXCEPT ![current] = answer.result]
     \/ CallerGone(current) /\ UNCHANGED receiveReply
  /\ UNCHANGED <<trip, done, sendCh, receiveCh, sendReply, reading, closing,
                 wire, served>>

-----------------------------------------------------------------------------
(* The server's end of the stream (server/conn.go, serve).                 *)

\* One turn of the loop: a response, a status error, a response cut short by
\* a failing write, or none at all when it is longer than 65535 bytes.
ServerHandles ==
  /\ ~peerClosed /\ toServer # <<>>
  /\ toServer' = Tail(toServer)
  /\ handled' = handled \cup {Head(toServer)}
  /\ \/ \E kind \in Kinds :
          inbox' = Append(inbox, [req |-> Head(toServer), kind |-> kind])
     \/ UNCHANGED inbox
  /\ UNCHANGED <<pc, trip, done, channels, reading, closing, buffered,
                 peerClosed, served>>

\* Idle timeout, keep-alives off, a broken write, the client's EOF, a crash: a
\* reset may lose what the client has not read.
ServerCloses ==
  /\ ~peerClosed /\ peerClosed' = TRUE
  /\ inbox' \in {inbox, <<>>}
  /\ UNCHANGED <<pc, trip, done, channels, reading, closing, toServer,
                 buffered, handled, served>>

-----------------------------------------------------------------------------
Processes == {"caller", "writer", "reader"}
Closers == Processes \cup {"pool"}

Closing ==
  \/ \E p \in Closers : CloseBegin(p) \/ CloseEnd(p)
  \/ \E p \in Processes : CloseAgain(p)

\* Faults: roundTrip's select has no closedCh and no ctx.Done case; writeLoop's
\* has no closedCh case.
AwaitReplies == AwaitSent \/ AwaitResponse
WriterGoesOn == WriteRequest

Await == AwaitSent \/ AwaitResponse \/ AwaitFailure
Writer == WriterStops \/ WriteRequest
Reader == CheckClosed \/ PeekData \/ PeekFails \/ ReceiveNotify \/ ReadFrame \/ SendAnswer

Next ==
  \/ Closing \/ Begin \/ PushSend \/ PushReceive \/ Await \/ Defer
  \/ \E t \in Trips : ContextDone(t)
  \/ Writer \/ Reader \/ ServerHandles \/ ServerCloses

Spec == Init /\ [][Next]_vars

\* The goroutines run; a call has a deadline, as Client.Timeout gives it.
\* Nothing is assumed of the server, of the pool, or of further trips.
FairSpec ==
  /\ Spec
  /\ WF_vars(PushSend) /\ WF_vars(PushReceive) /\ WF_vars(Await) /\ WF_vars(Defer)
  /\ WF_vars(Writer) /\ WF_vars(Reader)
  /\ \A p \in Closers : WF_vars(CloseEnd(p))
  /\ \A p \in Processes : WF_vars(CloseBegin(p) \/ CloseAgain(p))
  /\ \A t \in Trips : WF_vars(ContextDone(t))
-----------------------------------------------------------------------------
\* Every variable holds a value of its Go type, channels their capacity, and
\* closeLocked runs to its end once.
TypeOK ==
  /\ pc \in [caller : CallerSteps, writer : WriterSteps, reader : ReaderSteps]
  /\ trip \in 0 .. MaxTrips /\ done \subseteq 1 .. trip
  /\ sendCh \in {<<>>} \cup {<<t>> : t \in Trips}
  /\ receiveCh \in {<<>>} \cup {<<t>> : t \in Trips}
  /\ sendReply \in [Trips -> Replies] /\ receiveReply \in [Trips -> Replies]
  /\ current \in 0 .. trip
  /\ answer \in [result : Replies, req : 0 .. MaxTrips, broken : BOOLEAN]
  /\ closed \in BOOLEAN /\ sockClosed \in BOOLEAN /\ peerClosed \in BOOLEAN
  /\ closer \in Closers \cup {"nobody"}
  /\ sockClosed => closed
  /\ closer # "nobody" => closed /\ ~sockClosed
  /\ toServer \in Seq(Trips) /\ inbox \in Seq(Frames) /\ buffered \in Seq(Frames)
  /\ handled \subseteq Trips /\ served \subseteq Trips

\* The frame readLoop takes for the answer of a trip is the answer of that
\* trip, and its caller is the one still waiting.  There is no request number
\* on the wire: only the discipline of one trip at a time, and of closing
\* after every failure, keeps requests and responses in step.
NoCrossTalk ==
  pc.reader = "reply" /\ answer.result = "ok" => answer.req = current

\* Between two trips an open connection carries nothing: no request or
\* notification in a channel, no request or response on the stream, and no
\* byte in the buffer (what Get hands to the next caller is clean).
Quiescent ==
  pc.caller \in {"idle", "send"} /\ ~closed =>
    /\ sendCh = <<>> /\ receiveCh = <<>>
    /\ toServer = <<>> /\ inbox = <<>> /\ buffered = <<>>

\* The two plain channel sends of roundTrip (lines 49 and 53) never find the
\* channel full, so they cannot hold a caller past its deadline.  Nor do the
\* loops' sends to the reply channels: "todo: redundant?" (line 42) it is,
\* neither loop ever waits for CallerGone.
SendsNeverBlock ==
  /\ pc.caller = "send" => sendCh = <<>>
  /\ pc.caller = "notify" => receiveCh = <<>>
  /\ pc.reader = "reply" => receiveReply[current] = "none"
  /\ sendCh # <<>> => sendReply[Head(sendCh)] = "none"

\* Every trip ends: a response, an error, a close or its deadline.
TripReturns == (pc.caller = "send") ~> (pc.caller \in {"idle", "close", "exit"})

\* A close reaches everybody: the writer stops, the socket is closed, and the
\* reader stops too, unless it already waits in <-receiveCh for a caller that
\* will never come: readLoop leaks when a trip gave up with unread bytes.
CloseStopsLoops ==
  closed ~> /\ sockClosed /\ pc.writer = "exit"
            /\ pc.reader = "exit" \/ (pc.reader = "receive" /\ receiveCh = <<>>)

\* The connection keeps the promise of Exchange.
Abstract == INSTANCE Exchange WITH
  last <- trip,
  busy <- pc.caller \in {"send", "notify", "await"},
  usable <- pc.caller \notin {"close", "exit"}

ImplementsExchange == Abstract!ExchangeSpec
=============================================================================
