-------------------------- MODULE PersistConnProofs --------------------------
(***************************************************************************)
(* PersistConn, for any number of trips: its channels never fill, its      *)
(* responses match their requests, an idle connection has nothing under    *)
(* way, and it implements Exchange.                                        *)
(*                                                                         *)
(* The inductive invariant says where the one request under way can be.    *)
(* It moves from sendCh to the server, from there as one frame to inbox    *)
(* and to the reader's buffer, and its answer to receiveReply; OnlyLast    *)
(* says that no two of these places hold something and that what they      *)
(* hold is of the last trip.  CallerInv, ReaderInv and ReplyInv tie the    *)
(* program counters to these places, and HandledInv what the server has    *)
(* handled.  None of the properties is inductive without the others: a     *)
(* stale frame left in the buffer is refused only because the caller stays *)
(* out of "idle" until the frame is gone or the connection is closed.      *)
(*                                                                         *)
(* The last part is about Socket, which is below PersistConn: the frames   *)
(* that PersistConn's streams carry whole arrive whole, for bodies of any  *)
(* length and content and a stream cut anywhere.                           *)
(***************************************************************************)
EXTENDS PersistConn, Socket, TLAPS

-----------------------------------------------------------------------------
(* The inductive invariant.                                                *)

\* Nothing is on its way in either direction.
Clean ==
  sendCh = <<>> /\ toServer = <<>> /\ inbox = <<>> /\ buffered = <<>>

\* No frame, or one frame that answers trip n.
FramesOf(n) == {<<>>} \cup {<<[req |-> n, kind |-> k]>> : k \in Kinds}

\* The last trip's request, or its answer, is in at most one place.
OnlyLast ==
  /\ sendCh \in {<<>>, <<trip>>} /\ toServer \in {<<>>, <<trip>>}
  /\ inbox \in FramesOf(trip) /\ buffered \in FramesOf(trip)
  /\ sendCh # <<>> => toServer = <<>> /\ inbox = <<>> /\ buffered = <<>>
  /\ toServer # <<>> => inbox = <<>> /\ buffered = <<>>
  /\ inbox # <<>> => buffered = <<>>
  /\ receiveCh \in {<<>>, <<trip>>}

\* What the caller's place in roundTrip says of the channels and the stream.
CallerInv ==
  /\ pc.caller \in {"idle", "send", "defer"} => Clean
  /\ pc.caller \in {"idle", "send", "notify", "defer"} =>
       receiveCh = <<>> /\ pc.reader \notin {"read", "reply"}
  /\ pc.caller # "idle" => trip > 0

\* What readLoop's place says of its buffer and of the trip it answers.
ReaderInv ==
  /\ pc.reader \in {"receive", "read"} => buffered # <<>>
  /\ pc.reader \in {"read", "reply"} =>
       current = trip /\ receiveCh = <<>> /\ receiveReply[trip] = "none"
  /\ pc.reader = "reply" => answer.result # "none"
  /\ pc.reader = "reply" /\ answer.result = "ok" =>
       Clean /\ answer.req = trip /\ trip \in handled

\* Only the last trip has an undelivered answer, and one after the server
\* handled it.
ReplyInv ==
  /\ \A t \in Trips : receiveReply[t] # "none" =>
        t = trip /\ pc.caller \in {"await", "close", "exit"} /\ receiveCh = <<>>
  /\ \A t \in Trips : receiveReply[t] = "ok" => Clean /\ t \in handled
  /\ \A t \in Trips : t > trip => sendReply[t] = "none"
  /\ pc.caller = "send" => sendReply[trip] = "none"
  /\ sendCh # <<>> => sendReply[trip] = "none"

\* The server handled only trips begun, and not one still on its way to it.
HandledInv ==
  /\ handled \subseteq 1 .. trip
  /\ inbox # <<>> \/ buffered # <<>> => trip \in handled
  /\ sendCh # <<>> \/ toServer # <<>> \/ pc.caller = "send" => trip \notin handled

\* Whoever runs closeLocked is at its close step.
CloserInv == \A p \in Processes : closer = p => pc[p] = "close"

\* The invariant, next to the types.
PInv == OnlyLast /\ CallerInv /\ ReaderInv /\ ReplyInv /\ HandledInv /\ CloserInv
IInv == TypeOK /\ PInv

\* The parts of TypeOK.
ControlTyped ==
  /\ pc \in [caller : CallerSteps, writer : WriterSteps, reader : ReaderSteps]
  /\ trip \in 0 .. MaxTrips /\ done \subseteq 1 .. trip
  /\ current \in 0 .. trip
  /\ answer \in [result : Replies, req : 0 .. MaxTrips, broken : BOOLEAN]
  /\ handled \subseteq Trips /\ served \subseteq Trips

ClosingTyped ==
  /\ closed \in BOOLEAN /\ sockClosed \in BOOLEAN /\ peerClosed \in BOOLEAN
  /\ closer \in Closers \cup {"nobody"}
  /\ sockClosed => closed
  /\ closer # "nobody" => closed /\ ~sockClosed

ChannelsTyped ==
  /\ sendCh \in {<<>>} \cup {<<t>> : t \in Trips}
  /\ receiveCh \in {<<>>} \cup {<<t>> : t \in Trips}
  /\ sendReply \in [Trips -> Replies] /\ receiveReply \in [Trips -> Replies]

StreamTyped ==
  toServer \in Seq(Trips) /\ inbox \in Seq(Frames) /\ buffered \in Seq(Frames)

\* The at most one frame of a trip: its head, its tail, its type.
LEMMA FrameFacts ==
  ASSUME NEW n
  PROVE  /\ <<>> \in FramesOf(n)
         /\ \A k \in Kinds : /\ <<[req |-> n, kind |-> k]>> \in FramesOf(n)
                             /\ Append(<<>>, [req |-> n, kind |-> k]) \in FramesOf(n)
                             /\ Append(<<>>, [req |-> n, kind |-> k]) # <<>>
         /\ \A s \in FramesOf(n) : s # <<>> =>
              /\ Tail(s) = <<>> 
              /\ Head(s).req = n /\ Head(s).kind \in Kinds
         /\ \A s \in FramesOf(n) : n \in Trips => s \in Seq(Frames)
<1>1. ASSUME NEW k \in Kinds
      PROVE /\ <<[req |-> n, kind |-> k]>> \in FramesOf(n)
            /\ Append(<<>>, [req |-> n, kind |-> k]) = <<[req |-> n, kind |-> k]>>
            /\ Append(<<>>, [req |-> n, kind |-> k]) # <<>>
  <2> DEFINE f == [req |-> n, kind |-> k]
  <2>1. Append(<<>>, f) = <<f>> /\ <<f>> # <<>>
    <3> HIDE DEF f
    <3> QED
      OBVIOUS
  <2> QED
    BY <2>1 DEF FramesOf
<1>2. ASSUME NEW s \in FramesOf(n), s # <<>>
      PROVE Tail(s) = <<>> /\ Head(s).req = n /\ Head(s).kind \in Kinds
  <2>1. PICK k \in Kinds : s = <<[req |-> n, kind |-> k]>>
    BY <1>2 DEF FramesOf
  <2> DEFINE f == [req |-> n, kind |-> k]
  <2>2. Head(<<f>>) = f /\ Tail(<<f>>) = <<>>
    <3> HIDE DEF f
    <3> QED
      OBVIOUS
  <2> QED
    BY <2>1, <2>2
<1>3. ASSUME NEW s \in FramesOf(n), n \in Trips
      PROVE s \in Seq(Frames)
  <2>1. CASE s = <<>>
    BY <2>1
  <2>2. CASE s # <<>>
    <3>1. PICK k \in Kinds : s = <<[req |-> n, kind |-> k]>>
      BY <2>2 DEF FramesOf
    <3> DEFINE f == [req |-> n, kind |-> k]
    <3>2. f \in Frames
      BY <1>3 DEF Frames
    <3>3. <<f>> \in Seq(Frames)
      <4> HIDE DEF f
      <4> QED
        BY <3>2
    <3> QED
      BY <3>1, <3>3
  <2> QED
    BY <2>1, <2>2
<1> QED
  BY <1>1, <1>2, <1>3 DEF FramesOf

-----------------------------------------------------------------------------
(* Each step keeps the invariant.                                          *)

\* closeLocked, up to closing the socket.
LEMMA CloseBeginKeeps ==
  ASSUME IInv, NEW p \in Closers, CloseBegin(p)
  PROVE  IInv'
<1> USE DEF CloseBegin, MutexFree, Closers, Processes, channels, reading, closing, wire
<1>1. TypeOK'
  <2>1. ControlTyped'
    BY DEF IInv, TypeOK, ControlTyped
  <2>2. ClosingTyped'
    BY DEF IInv, TypeOK, ClosingTyped
  <2>3. ChannelsTyped'
    BY DEF IInv, TypeOK, ChannelsTyped
  <2>4. StreamTyped'
    BY DEF IInv, TypeOK, StreamTyped
  <2> QED
    BY <2>1, <2>2, <2>3, <2>4 DEF TypeOK, ControlTyped, ClosingTyped, ChannelsTyped, StreamTyped
<1>2. OnlyLast'
  BY DEF IInv, PInv, OnlyLast
<1>3. CallerInv'
  BY DEF IInv, PInv, CallerInv, Clean
<1>4. ReaderInv'
  BY DEF IInv, PInv, ReaderInv, Clean
<1>5. ReplyInv'
  BY DEF IInv, PInv, ReplyInv, Clean
<1>6. HandledInv'
  BY DEF IInv, PInv, HandledInv
<1>7. CloserInv'
  BY DEF CloserInv
<1> QED
  BY <1>1, <1>2, <1>3, <1>4, <1>5, <1>6, <1>7 DEF IInv, PInv

\* closeLocked, once the socket is closed.
LEMMA CloseEndKeeps ==
  ASSUME IInv, NEW p \in Closers, CloseEnd(p)
  PROVE  IInv'
<1> USE DEF CloseEnd, Closers, Processes, channels, reading, closing, wire
<1>1. TypeOK'
  <2>1. ControlTyped'
    BY DEF IInv, TypeOK, ControlTyped, CallerSteps, WriterSteps, ReaderSteps
  <2>2. ClosingTyped'
    BY DEF IInv, TypeOK, ClosingTyped
  <2>3. ChannelsTyped'
    BY DEF IInv, TypeOK, ChannelsTyped
  <2>4. StreamTyped'
    BY DEF IInv, TypeOK, StreamTyped
  <2> QED
    BY <2>1, <2>2, <2>3, <2>4 DEF TypeOK, ControlTyped, ClosingTyped, ChannelsTyped, StreamTyped
<1>2. OnlyLast'
  BY DEF IInv, PInv, OnlyLast
<1>3. CallerInv'
  BY DEF IInv, PInv, CallerInv, CloserInv, Clean
<1>4. ReaderInv'
  BY DEF IInv, PInv, ReaderInv, Clean
<1>5. ReplyInv'
  BY DEF IInv, PInv, ReplyInv, Clean
<1>6. HandledInv'
  BY DEF IInv, PInv, HandledInv
<1>7. CloserInv'
  BY DEF CloserInv
<1> QED
  BY <1>1, <1>2, <1>3, <1>4, <1>5, <1>6, <1>7 DEF IInv, PInv

\* closeLocked of a connection already closed.
LEMMA CloseAgainKeeps ==
  ASSUME IInv, NEW p \in Processes, CloseAgain(p)
  PROVE  IInv'
<1> USE DEF CloseAgain, MutexFree, Goto, Processes, channels, reading, closing, wire
<1>1. TypeOK'
  <2>1. ControlTyped'
    BY DEF IInv, TypeOK, ControlTyped, CallerSteps, WriterSteps, ReaderSteps
  <2>2. ClosingTyped'
    BY DEF IInv, TypeOK, ClosingTyped
  <2>3. ChannelsTyped'
    BY DEF IInv, TypeOK, ChannelsTyped
  <2>4. StreamTyped'
    BY DEF IInv, TypeOK, StreamTyped
  <2> QED
    BY <2>1, <2>2, <2>3, <2>4 DEF TypeOK, ControlTyped, ClosingTyped, ChannelsTyped, StreamTyped
<1>2. OnlyLast'
  BY DEF IInv, PInv, OnlyLast
<1>3. CallerInv'
  BY DEF IInv, PInv, CallerInv, Clean
<1>4. ReaderInv'
  BY DEF IInv, PInv, ReaderInv, Clean
<1>5. ReplyInv'
  BY DEF IInv, PInv, ReplyInv, Clean
<1>6. HandledInv'
  BY DEF IInv, PInv, HandledInv
<1>7. CloserInv'
  BY DEF CloserInv
<1> QED
  BY <1>1, <1>2, <1>3, <1>4, <1>5, <1>6, <1>7 DEF IInv, PInv

\* roundTrip starts a trip on a clean connection.
LEMMA BeginKeeps ==
  ASSUME IInv, Begin
  PROVE  IInv'
<1> USE DEF Begin, MutexFree, Goto, channels, reading, closing, wire
<1>1. TypeOK'
  <2>1. ControlTyped'
    BY TripsAssumption
      DEF IInv, PInv, TypeOK, CallerInv, Clean, CallerSteps, ControlTyped
  <2>2. ClosingTyped'
    BY DEF IInv, TypeOK, ClosingTyped
  <2>3. ChannelsTyped'
    BY DEF IInv, TypeOK, ChannelsTyped
  <2>4. StreamTyped'
    BY DEF IInv, TypeOK, StreamTyped
  <2> QED
    BY <2>1, <2>2, <2>3, <2>4 DEF TypeOK, ControlTyped, ClosingTyped, ChannelsTyped, StreamTyped
<1>2. OnlyLast'
  BY FrameFacts DEF IInv, PInv, OnlyLast, Clean, CallerInv
<1>3. CallerInv'
  BY DEF IInv, PInv, CallerInv, Clean, TypeOK
<1>4. ReaderInv'
  BY DEF IInv, PInv, ReaderInv, CallerInv
<1>5. ReplyInv'
  <2>1. trip \in Nat /\ trip' = trip + 1 /\ trip' \in Trips
    BY TripsAssumption DEF IInv, TypeOK, Trips
  <2>2. \A t \in Trips : receiveReply[t] = "none"
    BY DEF IInv, PInv, ReplyInv
  <2>3. \A t \in Trips : t > trip => sendReply[t] = "none"
    BY DEF IInv, PInv, ReplyInv
  <2>4. sendCh = <<>>
    BY DEF IInv, PInv, CallerInv, Clean
  <2>5. sendCh' = <<>> /\ receiveReply' = receiveReply /\ sendReply' = sendReply
    BY <2>4
  <2>6. sendReply'[trip'] = "none" /\ \A t \in Trips : t > trip' => t > trip
    BY <2>1, <2>3, <2>5 DEF Trips
  <2> QED
    BY <2>2, <2>3, <2>5, <2>6 DEF ReplyInv
<1>6. HandledInv'
  BY DEF IInv, PInv, HandledInv, TypeOK, CallerInv, Clean
<1>7. CloserInv'
  BY DEF CloserInv, Processes
<1> QED
  BY <1>1, <1>2, <1>3, <1>4, <1>5, <1>6, <1>7 DEF IInv, PInv

\* roundTrip queues the request for writeLoop.
LEMMA PushSendKeeps ==
  ASSUME IInv, PushSend
  PROVE  IInv'
<1> USE DEF PushSend, Goto, channels, reading, closing, wire
<1>1. TypeOK'
  <2>1. ControlTyped'
    BY DEF IInv, TypeOK, ControlTyped, CallerSteps
  <2>2. ClosingTyped'
    BY DEF IInv, TypeOK, ClosingTyped
  <2>3. ChannelsTyped'
    BY DEF IInv, PInv, TypeOK, CallerInv, Trips, ChannelsTyped
  <2>4. StreamTyped'
    BY DEF IInv, TypeOK, StreamTyped
  <2> QED
    BY <2>1, <2>2, <2>3, <2>4 DEF TypeOK, ControlTyped, ClosingTyped, ChannelsTyped, StreamTyped
<1>2. OnlyLast'
  BY DEF IInv, PInv, OnlyLast, Clean, CallerInv
<1>3. CallerInv'
  BY DEF IInv, PInv, CallerInv, TypeOK
<1>4. ReaderInv'
  BY DEF IInv, PInv, ReaderInv, CallerInv
<1>5. ReplyInv'
  BY DEF IInv, PInv, ReplyInv
<1>6. HandledInv'
  BY DEF IInv, PInv, HandledInv
<1>7. CloserInv'
  BY DEF IInv, PInv, CloserInv
<1> QED
  BY <1>1, <1>2, <1>3, <1>4, <1>5, <1>6, <1>7 DEF IInv, PInv

\* roundTrip queues the response action for readLoop.
LEMMA PushReceiveKeeps ==
  ASSUME IInv, PushReceive
  PROVE  IInv'
<1> USE DEF PushReceive, Goto, channels, reading, closing, wire
<1>1. TypeOK'
  <2>1. ControlTyped'
    BY DEF IInv, TypeOK, ControlTyped, CallerSteps
  <2>2. ClosingTyped'
    BY DEF IInv, TypeOK, ClosingTyped
  <2>3. ChannelsTyped'
    BY DEF IInv, PInv, TypeOK, CallerInv, Trips, ChannelsTyped
  <2>4. StreamTyped'
    BY DEF IInv, TypeOK, StreamTyped
  <2> QED
    BY <2>1, <2>2, <2>3, <2>4 DEF TypeOK, ControlTyped, ClosingTyped, ChannelsTyped, StreamTyped
<1>2. OnlyLast'
  BY DEF IInv, PInv, OnlyLast
<1>3. CallerInv'
  BY DEF IInv, PInv, CallerInv, TypeOK
<1>4. ReaderInv'
  BY DEF IInv, PInv, ReaderInv, CallerInv
<1>5. ReplyInv'
  BY DEF IInv, PInv, ReplyInv
<1>6. HandledInv'
  BY DEF IInv, PInv, HandledInv
<1>7. CloserInv'
  BY DEF IInv, PInv, CloserInv
<1> QED
  BY <1>1, <1>2, <1>3, <1>4, <1>5, <1>6, <1>7 DEF IInv, PInv

\* The caller learns that the request was written.
LEMMA AwaitSentKeeps ==
  ASSUME IInv, AwaitSent
  PROVE  IInv'
<1> USE DEF AwaitSent, channels, reading, closing, wire
<1>1. TypeOK'
  <2>1. ControlTyped'
    BY DEF IInv, TypeOK, ControlTyped, CallerSteps
  <2>2. ClosingTyped'
    BY DEF IInv, TypeOK, ClosingTyped
  <2>3. ChannelsTyped'
    BY DEF IInv, PInv, TypeOK, CallerInv, Replies, Trips, ChannelsTyped
  <2>4. StreamTyped'
    BY DEF IInv, TypeOK, StreamTyped
  <2> QED
    BY <2>1, <2>2, <2>3, <2>4 DEF TypeOK, ControlTyped, ClosingTyped, ChannelsTyped, StreamTyped
<1>2. OnlyLast'
  BY DEF IInv, PInv, OnlyLast
<1>3. CallerInv'
  BY DEF IInv, PInv, CallerInv
<1>4. ReaderInv'
  BY DEF IInv, PInv, ReaderInv, Clean
<1>5. ReplyInv'
  BY DEF IInv, PInv, ReplyInv, Clean
<1>6. HandledInv'
  BY DEF IInv, PInv, HandledInv
<1>7. CloserInv'
  BY DEF IInv, PInv, CloserInv, Processes, TypeOK
<1> QED
  BY <1>1, <1>2, <1>3, <1>4, <1>5, <1>6, <1>7 DEF IInv, PInv

\* The caller takes readLoop's answer.
LEMMA AwaitResponseKeeps ==
  ASSUME IInv, AwaitResponse
  PROVE  IInv'
<1>0. trip \in Trips
  BY DEF IInv, PInv, TypeOK, CallerInv, Trips, AwaitResponse
<1> USE DEF AwaitResponse, Goto, channels, reading, closing, wire
<1>1. TypeOK'
  <2>1. ControlTyped'
    <3>1. pc' \in [caller : CallerSteps, writer : WriterSteps, reader : ReaderSteps]
      BY DEF IInv, TypeOK, CallerSteps
    <3>2. served' \subseteq Trips
      BY <1>0 DEF IInv, TypeOK
    <3>3. UNCHANGED <<trip, done, current, answer, handled>>
      BY DEF IInv
    <3> QED
      BY <3>1, <3>2, <3>3 DEF IInv, TypeOK, ControlTyped
  <2>2. ClosingTyped'
    BY DEF IInv, TypeOK, ClosingTyped
  <2>3. ChannelsTyped'
    BY DEF IInv, PInv, TypeOK, CallerInv, Replies, Trips, ChannelsTyped
  <2>4. StreamTyped'
    BY DEF IInv, TypeOK, StreamTyped
  <2> QED
    BY <2>1, <2>2, <2>3, <2>4 DEF TypeOK, ControlTyped, ClosingTyped, ChannelsTyped, StreamTyped
<1>2. OnlyLast'
  BY DEF IInv, PInv, OnlyLast
<1>3. CallerInv'
  BY DEF IInv, PInv, TypeOK, CallerInv, ReaderInv, ReplyInv, Clean, Trips
<1>4. ReaderInv'
  BY DEF IInv, PInv, ReaderInv
<1>5. ReplyInv'
  BY DEF IInv, PInv, ReplyInv, TypeOK
<1>6. HandledInv'
  BY DEF IInv, PInv, HandledInv
<1>7. CloserInv'
  BY DEF IInv, PInv, CloserInv
<1> QED
  BY <1>1, <1>2, <1>3, <1>4, <1>5, <1>6, <1>7 DEF IInv, PInv

\* The caller gives up: write error, closed connection, or its context.
LEMMA AwaitFailureKeeps ==
  ASSUME IInv, AwaitFailure
  PROVE  IInv'
<1> USE DEF AwaitFailure, Goto, channels, reading, closing, wire
<1>1. TypeOK'
  <2>1. ControlTyped'
    BY DEF IInv, TypeOK, ControlTyped, CallerSteps, WriterSteps, ReaderSteps
  <2>2. ClosingTyped'
    BY DEF IInv, TypeOK, ClosingTyped
  <2>3. ChannelsTyped'
    BY DEF IInv, TypeOK, ChannelsTyped
  <2>4. StreamTyped'
    BY DEF IInv, TypeOK, StreamTyped
  <2> QED
    BY <2>1, <2>2, <2>3, <2>4 DEF TypeOK, ControlTyped, ClosingTyped, ChannelsTyped, StreamTyped
<1>2. OnlyLast'
  BY DEF IInv, PInv, OnlyLast
<1>3. CallerInv'
  BY DEF IInv, PInv, CallerInv
<1>4. ReaderInv'
  BY DEF IInv, PInv, ReaderInv, Clean
<1>5. ReplyInv'
  BY DEF IInv, PInv, ReplyInv, Clean
<1>6. HandledInv'
  BY DEF IInv, PInv, HandledInv
<1>7. CloserInv'
  BY DEF IInv, PInv, CloserInv
<1> QED
  BY <1>1, <1>2, <1>3, <1>4, <1>5, <1>6, <1>7 DEF IInv, PInv

\* The deferred function returns the connection, or closes it.
LEMMA DeferKeeps ==
  ASSUME IInv, Defer
  PROVE  IInv'
<1> USE DEF Defer, MutexFree, Goto, channels, reading, closing, wire
<1>1. TypeOK'
  <2>1. ControlTyped'
    BY DEF IInv, TypeOK, ControlTyped, CallerSteps
  <2>2. ClosingTyped'
    BY DEF IInv, TypeOK, ClosingTyped
  <2>3. ChannelsTyped'
    BY DEF IInv, TypeOK, ChannelsTyped
  <2>4. StreamTyped'
    BY DEF IInv, TypeOK, StreamTyped
  <2> QED
    BY <2>1, <2>2, <2>3, <2>4 DEF TypeOK, ControlTyped, ClosingTyped, ChannelsTyped, StreamTyped
<1>2. OnlyLast'
  BY DEF IInv, PInv, OnlyLast
<1>3. CallerInv'
  BY DEF IInv, PInv, CallerInv, Clean
<1>4. ReaderInv'
  BY DEF IInv, PInv, ReaderInv, Clean
<1>5. ReplyInv'
  BY DEF IInv, PInv, ReplyInv
<1>6. HandledInv'
  BY DEF IInv, PInv, HandledInv
<1>7. CloserInv'
  BY DEF CloserInv, Processes
<1> QED
  BY <1>1, <1>2, <1>3, <1>4, <1>5, <1>6, <1>7 DEF IInv, PInv

\* A request's context ends.
LEMMA ContextDoneKeeps ==
  ASSUME IInv, NEW t \in Trips, ContextDone(t)
  PROVE  IInv'
<1> USE DEF ContextDone, channels, reading, closing, wire
<1>1. TypeOK'
  <2>1. ControlTyped'
    BY DEF IInv, TypeOK, CallerSteps, WriterSteps, ReaderSteps, Trips,
             ControlTyped
  <2>2. ClosingTyped'
    BY DEF IInv, TypeOK, ClosingTyped
  <2>3. ChannelsTyped'
    BY DEF IInv, TypeOK, ChannelsTyped
  <2>4. StreamTyped'
    BY DEF IInv, TypeOK, StreamTyped
  <2> QED
    BY <2>1, <2>2, <2>3, <2>4 DEF TypeOK, ControlTyped, ClosingTyped, ChannelsTyped, StreamTyped
<1>2. OnlyLast'
  BY DEF IInv, PInv, OnlyLast
<1>3. CallerInv'
  BY DEF IInv, PInv, CallerInv, Clean
<1>4. ReaderInv'
  BY DEF IInv, PInv, ReaderInv, Clean
<1>5. ReplyInv'
  BY DEF IInv, PInv, ReplyInv, Clean
<1>6. HandledInv'
  BY DEF IInv, PInv, HandledInv
<1>7. CloserInv'
  BY DEF IInv, PInv, CloserInv
<1> QED
  BY <1>1, <1>2, <1>3, <1>4, <1>5, <1>6, <1>7 DEF IInv, PInv

\* writeLoop sees the connection closed.
LEMMA WriterStopsKeeps ==
  ASSUME IInv, WriterStops
  PROVE  IInv'
<1> USE DEF WriterStops, Goto, channels, reading, closing, wire
<1>1. TypeOK'
  <2>1. ControlTyped'
    BY DEF IInv, TypeOK, ControlTyped, WriterSteps
  <2>2. ClosingTyped'
    BY DEF IInv, TypeOK, ClosingTyped
  <2>3. ChannelsTyped'
    BY DEF IInv, TypeOK, ChannelsTyped
  <2>4. StreamTyped'
    BY DEF IInv, TypeOK, StreamTyped
  <2> QED
    BY <2>1, <2>2, <2>3, <2>4 DEF TypeOK, ControlTyped, ClosingTyped, ChannelsTyped, StreamTyped
<1>2. OnlyLast'
  BY DEF IInv, PInv, OnlyLast
<1>3. CallerInv'
  BY DEF IInv, PInv, CallerInv, Clean
<1>4. ReaderInv'
  BY DEF IInv, PInv, ReaderInv, Clean
<1>5. ReplyInv'
  BY DEF IInv, PInv, ReplyInv, Clean
<1>6. HandledInv'
  BY DEF IInv, PInv, HandledInv
<1>7. CloserInv'
  BY DEF IInv, PInv, CloserInv
<1> QED
  BY <1>1, <1>2, <1>3, <1>4, <1>5, <1>6, <1>7 DEF IInv, PInv

\* writeLoop writes the request and reports.
LEMMA WriteRequestKeeps ==
  ASSUME IInv, WriteRequest
  PROVE  IInv'
<1>a. /\ trip \in Trips /\ sendCh = <<trip>> /\ toServer = <<>>
  BY DEF IInv, PInv, TypeOK, OnlyLast, CallerInv, HandledInv, Clean, Trips, WriteRequest
<1>b. /\ Head(sendCh) = trip
      /\ Append(toServer, trip) = <<trip>> /\ <<trip>> # <<>>
      /\ <<trip>> \in Seq(Trips) /\ <<>> \in Seq(Trips)
  BY <1>a
<1>0. sendReply' = [sendReply EXCEPT ![trip] = "ok"] \/ sendReply' = [sendReply EXCEPT ![trip] = "err"]
  BY <1>b DEF WriteRequest, Written
<1>c. toServer' = <<>> \/ toServer' = <<trip>>
  BY <1>a, <1>b DEF WriteRequest, Written
<1> USE DEF WriteRequest, Written, channels, reading, closing, wire
<1>1. TypeOK'
  <2>1. ControlTyped'
    BY DEF IInv, TypeOK, ControlTyped, WriterSteps, ReaderSteps
  <2>2. ClosingTyped'
    BY DEF IInv, TypeOK, ClosingTyped
  <2>3. ChannelsTyped'
    <3>1. sendReply' \in [Trips -> Replies]
      BY <1>a, <1>0 DEF IInv, TypeOK, Replies
    <3>2. sendCh' = <<>> /\ UNCHANGED <<receiveCh, receiveReply>>
      BY DEF IInv
    <3> QED
      BY <3>1, <3>2 DEF IInv, TypeOK, ChannelsTyped
  <2>4. StreamTyped'
    <3>1. toServer' \in Seq(Trips)
      BY <1>b, <1>c
    <3>2. UNCHANGED <<inbox, buffered>>
      BY DEF IInv
    <3> QED
      BY <3>1, <3>2 DEF IInv, TypeOK, StreamTyped
  <2> QED
    BY <2>1, <2>2, <2>3, <2>4 DEF TypeOK, ControlTyped, ClosingTyped, ChannelsTyped, StreamTyped
<1>2. OnlyLast'
  BY DEF IInv, PInv, OnlyLast
<1>3. CallerInv'
  BY DEF IInv, PInv, CallerInv, Clean, TypeOK
<1>4. ReaderInv'
  BY DEF IInv, PInv, ReaderInv, Clean, TypeOK
<1>5. ReplyInv'
  BY TripsAssumption
    DEF IInv, PInv, TypeOK, OnlyLast, CallerInv, ReplyInv, Clean
<1>6. HandledInv'
  BY DEF IInv, PInv, HandledInv
<1>7. CloserInv'
  BY DEF IInv, PInv, CloserInv, Processes, TypeOK
<1> QED
  BY <1>1, <1>2, <1>3, <1>4, <1>5, <1>6, <1>7 DEF IInv, PInv

\* readLoop looks whether the connection is closed.
LEMMA CheckClosedKeeps ==
  ASSUME IInv, CheckClosed
  PROVE  IInv'
<1> USE DEF CheckClosed, MutexFree, Goto, channels, reading, closing, wire
<1>1. TypeOK'
  <2>1. ControlTyped'
    BY DEF IInv, TypeOK, ControlTyped, ReaderSteps
  <2>2. ClosingTyped'
    BY DEF IInv, TypeOK, ClosingTyped
  <2>3. ChannelsTyped'
    BY DEF IInv, TypeOK, ChannelsTyped
  <2>4. StreamTyped'
    BY DEF IInv, TypeOK, StreamTyped
  <2> QED
    BY <2>1, <2>2, <2>3, <2>4 DEF TypeOK, ControlTyped, ClosingTyped, ChannelsTyped, StreamTyped
<1>2. OnlyLast'
  BY DEF IInv, PInv, OnlyLast
<1>3. CallerInv'
  BY DEF IInv, PInv, CallerInv, Clean
<1>4. ReaderInv'
  BY DEF ReaderInv
<1>5. ReplyInv'
  BY DEF IInv, PInv, ReplyInv, Clean
<1>6. HandledInv'
  BY DEF IInv, PInv, HandledInv
<1>7. CloserInv'
  BY DEF CloserInv, Processes
<1> QED
  BY <1>1, <1>2, <1>3, <1>4, <1>5, <1>6, <1>7 DEF IInv, PInv

\* Peek returns data.
LEMMA PeekDataKeeps ==
  ASSUME IInv, PeekData
  PROVE  IInv'
<1> USE DEF PeekData, Goto, channels, reading, closing, wire
<1>1. TypeOK'
  <2>1. ControlTyped'
    BY DEF IInv, TypeOK, ControlTyped, ReaderSteps
  <2>2. ClosingTyped'
    BY DEF IInv, TypeOK, ClosingTyped
  <2>3. ChannelsTyped'
    BY DEF IInv, TypeOK, ChannelsTyped
  <2>4. StreamTyped'
    BY DEF IInv, TypeOK, StreamTyped
  <2> QED
    BY <2>1, <2>2, <2>3, <2>4 DEF TypeOK, ControlTyped, ClosingTyped, ChannelsTyped, StreamTyped
<1>2. OnlyLast'
  BY DEF IInv, PInv, OnlyLast
<1>3. CallerInv'
  BY DEF IInv, PInv, CallerInv, Clean
<1>4. ReaderInv'
  BY DEF ReaderInv
<1>5. ReplyInv'
  BY DEF IInv, PInv, ReplyInv, Clean
<1>6. HandledInv'
  BY DEF IInv, PInv, HandledInv
<1>7. CloserInv'
  BY DEF IInv, PInv, CloserInv
<1> QED
  BY <1>1, <1>2, <1>3, <1>4, <1>5, <1>6, <1>7 DEF IInv, PInv

\* Peek returns an error.
LEMMA PeekFailsKeeps ==
  ASSUME IInv, PeekFails
  PROVE  IInv'
<1> USE DEF PeekFails, Goto, channels, reading, closing, wire
<1>1. TypeOK'
  <2>1. ControlTyped'
    BY DEF IInv, TypeOK, ControlTyped, ReaderSteps
  <2>2. ClosingTyped'
    BY DEF IInv, TypeOK, ClosingTyped
  <2>3. ChannelsTyped'
    BY DEF IInv, TypeOK, ChannelsTyped
  <2>4. StreamTyped'
    BY DEF IInv, TypeOK, StreamTyped
  <2> QED
    BY <2>1, <2>2, <2>3, <2>4 DEF TypeOK, ControlTyped, ClosingTyped, ChannelsTyped, StreamTyped
<1>2. OnlyLast'
  BY DEF IInv, PInv, OnlyLast
<1>3. CallerInv'
  BY DEF IInv, PInv, CallerInv, Clean
<1>4. ReaderInv'
  BY DEF ReaderInv
<1>5. ReplyInv'
  BY DEF IInv, PInv, ReplyInv, Clean
<1>6. HandledInv'
  BY DEF IInv, PInv, HandledInv
<1>7. CloserInv'
  BY DEF IInv, PInv, CloserInv
<1> QED
  BY <1>1, <1>2, <1>3, <1>4, <1>5, <1>6, <1>7 DEF IInv, PInv

\* readLoop takes the action it is to answer.
LEMMA ReceiveNotifyKeeps ==
  ASSUME IInv, ReceiveNotify
  PROVE  IInv'
<1>0. trip \in Trips /\ Head(receiveCh) = trip
  BY DEF IInv, PInv, TypeOK, OnlyLast, CallerInv, Trips, CallerSteps, ReceiveNotify
<1> USE DEF ReceiveNotify, Goto, channels, reading, closing, wire
<1>1. TypeOK'
  <2>1. ControlTyped'
    <3>1. pc' \in [caller : CallerSteps, writer : WriterSteps, reader : ReaderSteps]
      BY DEF IInv, TypeOK, ReaderSteps
    <3>2. current' \in 0 .. trip
      BY <1>0 DEF IInv, TypeOK, Trips
    <3>3. UNCHANGED <<trip, done, answer, handled, served>>
      BY DEF IInv
    <3> QED
      BY <3>1, <3>2, <3>3 DEF IInv, TypeOK, ControlTyped
  <2>2. ClosingTyped'
    BY DEF IInv, TypeOK, ClosingTyped
  <2>3. ChannelsTyped'
    BY DEF IInv, TypeOK, ChannelsTyped
  <2>4. StreamTyped'
    BY DEF IInv, TypeOK, StreamTyped
  <2> QED
    BY <2>1, <2>2, <2>3, <2>4 DEF TypeOK, ControlTyped, ClosingTyped, ChannelsTyped, StreamTyped
<1>2. OnlyLast'
  BY DEF IInv, PInv, OnlyLast
<1>3. CallerInv'
  BY DEF IInv, PInv, CallerInv
<1>4. ReaderInv'
  BY DEF IInv, PInv, TypeOK, OnlyLast, ReaderInv, ReplyInv
<1>5. ReplyInv'
  BY DEF IInv, PInv, ReplyInv
<1>6. HandledInv'
  BY DEF IInv, PInv, HandledInv
<1>7. CloserInv'
  BY DEF IInv, PInv, CloserInv
<1> QED
  BY <1>1, <1>2, <1>3, <1>4, <1>5, <1>6, <1>7 DEF IInv, PInv

\* readLoop reads the frame.
LEMMA ReadFrameKeeps ==
  ASSUME IInv, ReadFrame
  PROVE  IInv'
<1>0. /\ trip \in Trips /\ current = trip /\ buffered # <<>>
      /\ buffered \in FramesOf(trip)
  BY DEF IInv, PInv, TypeOK, OnlyLast, CallerInv, ReaderInv, Clean, Trips, ReadFrame, Goto
<1>a. /\ Tail(buffered) = <<>>
      /\ Head(buffered).req = trip /\ Head(buffered).kind \in Kinds
  BY <1>0, FrameFacts
<1>b. buffered' = buffered \/ buffered' = <<>>
  BY <1>a DEF ReadFrame
<1> USE DEF ReadFrame, Goto, Answer, channels, reading, closing, wire
<1>1. TypeOK'
  <2>1. ControlTyped'
    <3>1. pc' \in [caller : CallerSteps, writer : WriterSteps, reader : ReaderSteps]
      BY DEF IInv, TypeOK, ReaderSteps
    <3>2. \E r \in Replies, b \in BOOLEAN :
           answer' = [result |-> r, req |-> trip, broken |-> b]
      BY <1>0, <1>a DEF Replies
    <3>3. answer' \in [result : Replies, req : 0 .. MaxTrips, broken : BOOLEAN]
      BY <1>0, <3>2 DEF Trips
    <3>4. UNCHANGED <<trip, done, current, handled, served>>
      BY DEF IInv
    <3> QED
      BY <3>1, <3>2, <3>3, <3>4 DEF IInv, TypeOK, ControlTyped
  <2>2. ClosingTyped'
    BY DEF IInv, TypeOK, ClosingTyped
  <2>3. ChannelsTyped'
    BY DEF IInv, TypeOK, ChannelsTyped
  <2>4. StreamTyped'
    BY <1>b DEF IInv, TypeOK, StreamTyped
  <2> QED
    BY <2>1, <2>2, <2>3, <2>4 DEF TypeOK, ControlTyped, ClosingTyped, ChannelsTyped, StreamTyped
<1>2. OnlyLast'
  BY <1>b DEF IInv, PInv, OnlyLast
<1>3. CallerInv'
  BY DEF IInv, PInv, CallerInv
<1>4. ReaderInv'
  BY <1>b, FrameFacts
    DEF IInv, PInv, TypeOK, OnlyLast, ReaderInv, HandledInv, Clean
<1>5. ReplyInv'
  BY DEF IInv, PInv, ReaderInv, ReplyInv
<1>6. HandledInv'
  BY DEF IInv, PInv, ReaderInv, HandledInv
<1>7. CloserInv'
  BY DEF IInv, PInv, CloserInv
<1> QED
  BY <1>1, <1>2, <1>3, <1>4, <1>5, <1>6, <1>7 DEF IInv, PInv

\* readLoop delivers the answer, or finds the caller gone.
LEMMA SendAnswerKeeps ==
  ASSUME IInv, SendAnswer
  PROVE  IInv'
<1> USE DEF SendAnswer, Goto, CallerGone, channels, reading, closing, wire
<1>1. TypeOK'
  <2>1. ControlTyped'
    BY DEF IInv, PInv, TypeOK, OnlyLast, HandledInv, ReaderSteps, ControlTyped
  <2>2. ClosingTyped'
    BY DEF IInv, TypeOK, ClosingTyped
  <2>3. ChannelsTyped'
    BY DEF IInv, TypeOK, ChannelsTyped
  <2>4. StreamTyped'
    BY DEF IInv, TypeOK, StreamTyped
  <2> QED
    BY <2>1, <2>2, <2>3, <2>4 DEF TypeOK, ControlTyped, ClosingTyped, ChannelsTyped, StreamTyped
<1>2. OnlyLast'
  BY DEF IInv, PInv, OnlyLast
<1>3. CallerInv'
  BY DEF IInv, PInv, CallerInv
<1>4. ReaderInv'
  BY DEF IInv, ReaderInv, TypeOK
<1>5. ReplyInv'
  BY TripsAssumption
    DEF IInv, PInv, TypeOK, CallerInv, ReaderInv, ReplyInv, Clean,
        CallerSteps, Replies
<1>6. HandledInv'
  BY DEF IInv, PInv, HandledInv
<1>7. CloserInv'
  BY DEF IInv, PInv, CloserInv
<1> QED
  BY <1>1, <1>2, <1>3, <1>4, <1>5, <1>6, <1>7 DEF IInv, PInv

\* The server handles the request and answers, or not.
LEMMA ServerHandlesKeeps ==
  ASSUME IInv, ServerHandles
  PROVE  IInv'
<1>a. /\ trip \in Trips /\ toServer = <<trip>>
      /\ inbox = <<>> /\ buffered = <<>>
  BY DEF IInv, PInv, TypeOK, OnlyLast, CallerInv, Clean, Trips, ServerHandles
<1>0. Head(toServer) = trip /\ Tail(toServer) = <<>>
  BY <1>a
<1>c. inbox' \in FramesOf(trip)
  <2>1. CASE \E kind \in Kinds : inbox' = Append(<<>>, [req |-> trip, kind |-> kind])
    BY <2>1, FrameFacts
  <2>2. CASE inbox' = <<>>
    BY <2>2, FrameFacts
  <2> QED
    BY <1>a, <1>0, <2>1, <2>2 DEF ServerHandles
<1> USE DEF ServerHandles, channels, reading, closing, wire
<1>1. TypeOK'
  <2>1. ControlTyped'
    <3>1. handled' = handled \cup {trip}
      BY <1>0
    <3>2. handled' \subseteq Trips
      BY <1>a, <3>1 DEF IInv, TypeOK
    <3>3. UNCHANGED <<pc, trip, done, current, answer, served>>
      BY DEF IInv
    <3> QED
      BY <3>1, <3>2, <3>3 DEF IInv, TypeOK, ControlTyped
  <2>2. ClosingTyped'
    BY DEF IInv, TypeOK, ClosingTyped
  <2>3. ChannelsTyped'
    BY DEF IInv, TypeOK, ChannelsTyped
  <2>4. StreamTyped'
    <3>1. toServer' = <<>> /\ <<>> \in Seq(Trips)
      BY <1>0
    <3>2. inbox' \in Seq(Frames)
      BY <1>a, <1>c, FrameFacts
    <3>3. UNCHANGED buffered
      BY DEF IInv
    <3> QED
      BY <3>1, <3>2, <3>3 DEF IInv, TypeOK, StreamTyped
  <2> QED
    BY <2>1, <2>2, <2>3, <2>4 DEF TypeOK, ControlTyped, ClosingTyped, ChannelsTyped, StreamTyped
<1>2. OnlyLast'
  BY <1>c DEF IInv, PInv, OnlyLast, ReplyInv, CloserInv, Processes
<1>3. CallerInv'
  BY DEF IInv, PInv, CallerInv, Clean
<1>4. ReaderInv'
  BY DEF IInv, PInv, ReaderInv, Clean
<1>5. ReplyInv'
  BY DEF IInv, PInv, ReplyInv, Clean
<1>6. HandledInv'
  <2>1. handled' = handled \cup {trip} /\ toServer' = <<>>
    BY <1>0
  <2>2. pc.caller # "send" /\ sendCh = <<>>
    BY <1>a DEF IInv, PInv, OnlyLast, CallerInv, Clean
  <2>3. trip \in 1 .. trip /\ handled \subseteq 1 .. trip
    BY <1>a DEF IInv, PInv, HandledInv, Trips
  <2>4. trip' = trip /\ sendCh' = sendCh /\ pc' = pc
    BY DEF IInv
  <2> QED
    BY <2>1, <2>2, <2>3, <2>4 DEF HandledInv
<1>7. CloserInv'
  BY DEF IInv, PInv, CloserInv
<1> QED
  BY <1>1, <1>2, <1>3, <1>4, <1>5, <1>6, <1>7 DEF IInv, PInv

\* The server closes its end.
LEMMA ServerClosesKeeps ==
  ASSUME IInv, ServerCloses
  PROVE  IInv'
<1> USE DEF ServerCloses, channels, reading, closing, wire
<1>1. TypeOK'
  <2>1. ControlTyped'
    BY DEF IInv, TypeOK, ControlTyped
  <2>2. ClosingTyped'
    BY DEF IInv, TypeOK, ClosingTyped
  <2>3. ChannelsTyped'
    BY DEF IInv, TypeOK, ChannelsTyped
  <2>4. StreamTyped'
    BY DEF IInv, PInv, TypeOK, HandledInv, StreamTyped
  <2> QED
    BY <2>1, <2>2, <2>3, <2>4 DEF TypeOK, ControlTyped, ClosingTyped, ChannelsTyped, StreamTyped
<1>2. OnlyLast'
  BY DEF IInv, PInv, OnlyLast
<1>3. CallerInv'
  BY DEF IInv, PInv, CallerInv, Clean
<1>4. ReaderInv'
  BY DEF IInv, PInv, ReaderInv, Clean
<1>5. ReplyInv'
  BY DEF IInv, PInv, ReplyInv, Clean
<1>6. HandledInv'
  BY DEF IInv, PInv, HandledInv
<1>7. CloserInv'
  BY DEF IInv, PInv, CloserInv
<1> QED
  BY <1>1, <1>2, <1>3, <1>4, <1>5, <1>6, <1>7 DEF IInv, PInv

-----------------------------------------------------------------------------
(* The invariant.                                                          *)

\* The connection starts with nothing under way.
LEMMA InitInv == Init => IInv
<1> SUFFICES ASSUME Init PROVE IInv
    OBVIOUS
<1> USE TripsAssumption DEF Init
<1>1. ControlTyped /\ ClosingTyped
  <2>1. pc \in [caller : CallerSteps, writer : WriterSteps, reader : ReaderSteps]
    BY DEF CallerSteps, WriterSteps, ReaderSteps
  <2>2. answer \in [result : Replies, req : 0 .. MaxTrips, broken : BOOLEAN]
    BY DEF Replies
  <2>3. trip \in 0 .. MaxTrips /\ current \in 0 .. trip
    BY DEF Trips
  <2> QED
    BY <2>1, <2>2, <2>3 DEF ControlTyped, ClosingTyped, Closers, Processes
<1>2. ChannelsTyped /\ StreamTyped
  BY DEF ChannelsTyped, StreamTyped, Replies
<1>3. OnlyLast
  BY FrameFacts DEF OnlyLast
<1>4. CallerInv /\ ReaderInv /\ HandledInv /\ CloserInv
  BY DEF CallerInv, ReaderInv, HandledInv, CloserInv, Clean, Processes
<1>5. ReplyInv
  BY DEF ReplyInv, Trips
<1> QED
  BY <1>1, <1>2, <1>3, <1>4, <1>5
  DEF IInv, PInv, TypeOK, ControlTyped, ClosingTyped, ChannelsTyped, StreamTyped

\* Every step of every goroutine, and of the server, keeps the invariant.
LEMMA NextInv == IInv /\ [Next]_vars => IInv'
<1> SUFFICES ASSUME IInv, [Next]_vars PROVE IInv'
    OBVIOUS
<1>1. CASE Closing
  BY <1>1, CloseBeginKeeps, CloseEndKeeps, CloseAgainKeeps DEF Closing
<1>2. CASE Begin \/ PushSend \/ PushReceive \/ Await \/ Defer
  BY <1>2, BeginKeeps, PushSendKeeps, PushReceiveKeeps, AwaitSentKeeps,
     AwaitResponseKeeps, AwaitFailureKeeps, DeferKeeps DEF Await
<1>3. CASE \E t \in Trips : ContextDone(t)
  BY <1>3, ContextDoneKeeps
<1>4. CASE Writer \/ Reader
  BY <1>4, WriterStopsKeeps, WriteRequestKeeps, CheckClosedKeeps, PeekDataKeeps,
     PeekFailsKeeps, ReceiveNotifyKeeps, ReadFrameKeeps, SendAnswerKeeps
  DEF Writer, Reader
<1>5. CASE ServerHandles \/ ServerCloses
  BY <1>5, ServerHandlesKeeps, ServerClosesKeeps
<1>6. CASE UNCHANGED vars
  BY <1>6 DEF vars, IInv, PInv, TypeOK, OnlyLast, CallerInv, ReaderInv, ReplyInv,
              HandledInv, CloserInv, Clean, Processes
<1> QED
  BY <1>1, <1>2, <1>3, <1>4, <1>5, <1>6 DEF Next

\* Hence it holds in every reachable state.
LEMMA Invariance == Spec => []IInv
BY InitInv, NextInv, PTL DEF Spec

\* What the invariant says of the channels: the two sends of roundTrip and the
\* sends of the loops find room.
LEMMA ChannelsHaveRoom == IInv => SendsNeverBlock
<1> SUFFICES ASSUME IInv PROVE SendsNeverBlock
    OBVIOUS
<1>1. pc.caller = "send" => sendCh = <<>>
  BY DEF IInv, PInv, CallerInv, Clean
<1>2. pc.caller = "notify" => receiveCh = <<>>
  BY DEF IInv, PInv, CallerInv
<1>3. pc.reader = "reply" => receiveReply[current] = "none"
  BY DEF IInv, PInv, ReaderInv
<1>4. sendCh # <<>> => sendReply[Head(sendCh)] = "none"
  <2>1. sendCh # <<>> => Head(sendCh) = trip
    BY DEF IInv, PInv, OnlyLast
  <2> QED
    BY <2>1 DEF IInv, PInv, ReplyInv
<1> QED
  BY <1>1, <1>2, <1>3, <1>4 DEF SendsNeverBlock

-----------------------------------------------------------------------------
(* Theorems.                                                               *)

\* Every variable keeps its Go type, channels their capacity, and closeLocked
\* runs once, for any number of trips.
THEOREM TypeCorrect == Spec => []TypeOK
<1>1. IInv => TypeOK
  BY DEF IInv
<1> QED
  BY <1>1, Invariance, PTL

\* The frame readLoop delivers as a response answers the trip it is delivered
\* for, although the protocol carries no request number.
THEOREM ResponsesMatch == Spec => []NoCrossTalk
<1>1. IInv => NoCrossTalk
  BY DEF IInv, PInv, ReaderInv, NoCrossTalk
<1> QED
  BY <1>1, Invariance, PTL

\* A connection the pool can hand out has nothing under way.
THEOREM IdleIsClean == Spec => []Quiescent
<1>1. IInv => Quiescent
  BY DEF IInv, PInv, CallerInv, Clean, Quiescent
<1> QED
  BY <1>1, Invariance, PTL

\* No send to a channel of the connection ever waits.
THEOREM ChannelsNeverFull == Spec => []SendsNeverBlock
BY ChannelsHaveRoom, Invariance, PTL

-----------------------------------------------------------------------------
(* The refinement of Exchange.                                             *)

\* The steps that Exchange does not see: they move neither the caller from one
\* phase to another nor what is handled and served.
LEMMA HiddenSteps ==
  ASSUME IInv, UNCHANGED <<trip, handled, served>>,
         pc'.caller = pc.caller
  PROVE  UNCHANGED Abstract!exchangeVars
BY DEF Abstract!exchangeVars

\* The steps of the closers, the writer, the reader and the contexts are hidden,
\* but for the caller's CloseEnd and CloseAgain, which stay in an unusable
\* connection.
LEMMA ClosingRefines ==
  ASSUME IInv, Closing
  PROVE  UNCHANGED Abstract!exchangeVars
<1> USE DEF wire, Abstract!exchangeVars
<1>1. CASE \E p \in Closers : CloseBegin(p)
  BY <1>1 DEF CloseBegin
<1>2. ASSUME NEW p \in Closers, CloseEnd(p)
      PROVE  UNCHANGED Abstract!exchangeVars
  BY <1>2 DEF CloseEnd, Closers, Processes, IInv, PInv, CloserInv, TypeOK
<1>3. ASSUME NEW p \in Processes, CloseAgain(p)
      PROVE  UNCHANGED Abstract!exchangeVars
  BY <1>3 DEF CloseAgain, Goto, Processes, IInv, TypeOK
<1> QED
  BY <1>1, <1>2, <1>3 DEF Closing

\* What the loops do is hidden.
LEMMA LoopsRefine ==
  ASSUME IInv, Writer \/ Reader \/ ServerCloses \/ \E t \in Trips : ContextDone(t)
  PROVE  UNCHANGED Abstract!exchangeVars
<1> USE DEF wire, Goto, IInv, TypeOK
<1>1. CASE Writer
  BY <1>1, HiddenSteps DEF Writer, WriterStops, WriteRequest, Written
<1>2. CASE Reader
  BY <1>2, HiddenSteps DEF Reader, CheckClosed, PeekData, PeekFails,
           ReceiveNotify, ReadFrame, SendAnswer
<1>3. CASE ServerCloses \/ \E t \in Trips : ContextDone(t)
  BY <1>3, HiddenSteps DEF ServerCloses, ContextDone
<1> QED
  BY <1>1, <1>2, <1>3

\* The caller's steps begin a trip, end it, or retire the connection.
LEMMA CallerRefines ==
  ASSUME IInv, Begin \/ PushSend \/ PushReceive \/ Await \/ Defer
  PROVE  [Abstract!ExchangeNext]_Abstract!exchangeVars
<1> USE DEF wire, Goto
<1>1. CASE Begin
  <2>1. pc.caller = "idle" /\ pc'.caller = "send"
    BY <1>1 DEF Begin, IInv, TypeOK
  <2> QED
    BY <1>1, <2>1 DEF Begin, Abstract!Begin, Abstract!ExchangeNext
<1>2. CASE PushSend \/ PushReceive
  <2>1. pc.caller \in {"send", "notify"} /\ pc'.caller \in {"notify", "await"}
    BY <1>2 DEF PushSend, PushReceive, IInv, TypeOK
  <2> QED
    BY <1>2, <2>1 DEF PushSend, PushReceive, Abstract!exchangeVars
<1>3. CASE AwaitSent \/ AwaitFailure
  <2>1. pc.caller = "await" /\ pc'.caller \in {"await", "close"}
    BY <1>3 DEF AwaitSent, AwaitFailure, IInv, TypeOK
  <2>2. UNCHANGED <<trip, handled, served>>
    BY <1>3 DEF AwaitSent, AwaitFailure
  <2> QED
    BY <2>1, <2>2 DEF Abstract!Fail, Abstract!ExchangeNext, Abstract!exchangeVars
<1>4. CASE AwaitResponse
  <2>1. pc.caller = "await" /\ UNCHANGED <<trip, handled>>
    BY <1>4 DEF AwaitResponse
  <2>2. CASE receiveReply[trip] = "ok"
    <3>1. pc'.caller = "defer" /\ served' = served \cup {trip}
      BY <1>4, <2>2 DEF AwaitResponse, IInv, TypeOK
    <3>2. trip \in handled
      <4>1. trip \in Trips
        BY <2>1 DEF IInv, PInv, TypeOK, CallerInv, Trips
      <4> QED
        BY <2>2, <4>1 DEF IInv, PInv, ReplyInv
    <3> QED
      BY <2>1, <3>1, <3>2 DEF Abstract!Succeed, Abstract!ExchangeNext
  <2>3. CASE receiveReply[trip] # "ok"
    <3>1. pc'.caller = "close" /\ served' = served
      BY <1>4, <2>3 DEF AwaitResponse, IInv, TypeOK
    <3> QED
      BY <2>1, <3>1 DEF Abstract!Fail, Abstract!ExchangeNext
  <2> QED
    BY <2>2, <2>3
<1>5. CASE Defer
  <2>1. pc.caller = "defer" /\ pc'.caller \in {"idle", "exit"}
    BY <1>5 DEF Defer, IInv, TypeOK
  <2>2. UNCHANGED <<trip, handled, served>>
    BY <1>5 DEF Defer
  <2> QED
    BY <2>1, <2>2 DEF Abstract!Retire, Abstract!ExchangeNext, Abstract!exchangeVars
<1> QED
  BY <1>1, <1>2, <1>3, <1>4, <1>5 DEF Await

\* The server handles the last request, and only once.
LEMMA ServerRefines ==
  ASSUME IInv, ServerHandles
  PROVE  Abstract!ExchangeNext
<1>1. Head(toServer) = trip /\ trip \in (1 .. trip) \ handled
  <2>1. toServer = <<trip>> /\ trip \in Trips
    BY DEF ServerHandles, IInv, PInv, TypeOK, OnlyLast, CallerInv, Clean, Trips
  <2>2. trip \notin handled
    BY <2>1 DEF IInv, PInv, HandledInv
  <2> QED
    BY <2>1, <2>2, TripsAssumption DEF Trips
<1>2. handled' = handled \cup {trip} /\ UNCHANGED <<pc, trip, served>>
  BY <1>1 DEF ServerHandles
<1> QED
  BY <1>1, <1>2 DEF Abstract!Handle, Abstract!ExchangeNext

\* The connection, with its channels, buffers, goroutines and its two ends'
\* closing, is an Exchange: one request at a time, no success without the
\* server having handled exactly that request, no use after a failure.
THEOREM ConnectionIsExchange == Spec => ImplementsExchange
<1>1. Init => Abstract!ExchangeInit
  BY DEF Init, Abstract!ExchangeInit
<1>2. IInv /\ [Next]_vars => [Abstract!ExchangeNext]_Abstract!exchangeVars
  <2> SUFFICES ASSUME IInv, [Next]_vars
               PROVE  [Abstract!ExchangeNext]_Abstract!exchangeVars
      OBVIOUS
  <2>1. CASE UNCHANGED vars
    BY <2>1 DEF vars, Abstract!exchangeVars
  <2> QED
    BY <2>1, ClosingRefines, LoopsRefine, CallerRefines, ServerRefines DEF Next
<1> QED
  BY <1>1, <1>2, Invariance, PTL DEF Spec, ImplementsExchange, Abstract!ExchangeSpec

-----------------------------------------------------------------------------
(* The framing under the connection (Socket).                              *)
(*                                                                         *)
(* The items that were sent lie one after the other among words (ItemsInv  *)
(* and Placed).  What is in flight, and after it what is in bufWriter, is  *)
(* a piece of words that begins where the reader is (StreamInv), and that  *)
(* place is an item's first word or the first of its body (ReadingInv): so *)
(* each header and body that is read is that of the next item.             *)

\* Where item i is among the words, and what its header says.
Placed(i) ==
  LET item == sent[i]
      start == End(i - 1)
  IN /\ ends[i] = start + HeaderSize + Len(item.body) /\ ends[i] <= Len(words)
     /\ words[start + 1] = item.magic /\ words[start + 2] = item.code
     /\ words[start + 3] = Len(item.body)
     /\ \A j \in 1 .. Len(item.body) : words[start + HeaderSize + j] = item.body[j]
     /\ Len(item.body) <= MaxWord
     /\ item.magic # Magic => item.body = <<>>

\* The items, one after the other, are what words is made of.
ItemsInv ==
  /\ Len(ends) = Len(sent) /\ End(Len(sent)) = Len(words)
  /\ \A i \in 1 .. Len(sent) : Placed(i)

\* A writer that is at rest has flushed everything, and one that has failed
\* stays broken.
WriterInv ==
  /\ failed => wstatus = "broken"
  /\ ~failed /\ wstatus # "busy" => writing = <<>>

\* A reader that waits for a body has the header of the item it is in.
ReadingInv ==
  rpc = "body" =>
    /\ Len(got) < Len(sent)
    /\ LET item == sent[Len(got) + 1]
       IN /\ item.magic = Magic /\ item.body # <<>>
          /\ header = <<item.magic, item.code, Len(item.body)>>

\* s is what comes after the first words.
Holds(s, from) ==
  from + Len(s) <= Len(words) /\ \A k \in 1 .. Len(s) : s[k] = words[from + k]

\* What is in flight, and after it what is in bufWriter, comes right after what
\* the reader has taken; and is all of it, if nothing was lost.
StreamInv ==
  rpc # "ended" =>
    /\ Holds(stream, Consumed)
    /\ ~cut /\ ~failed =>
         /\ Holds(writing, Consumed + Len(stream))
         /\ Consumed + Len(stream) + Len(writing) = Len(words)

\* The inductive invariant of the framing.
FramingInv == FramesIntact /\ ItemsInv /\ WriterInv /\ ReadingInv /\ StreamInv

-----------------------------------------------------------------------------
(* Sequences of words.                                                     *)

\* What s \o t has, and where.
LEMMA Joined ==
  ASSUME NEW S, NEW s \in Seq(S), NEW t \in Seq(S)
  PROVE  /\ s \o t \in Seq(S) /\ Len(s \o t) = Len(s) + Len(t)
         /\ \A i \in 1 .. Len(s) : (s \o t)[i] = s[i]
         /\ \A i \in 1 .. Len(t) : (s \o t)[Len(s) + i] = t[i]
OBVIOUS

\* The first n words, and the others.
LEMMA Divided ==
  ASSUME NEW S, NEW s \in Seq(S), NEW n \in 0 .. Len(s)
  PROVE  /\ SubSeq(s, 1, n) \in Seq(S) /\ Len(SubSeq(s, 1, n)) = n
         /\ \A i \in 1 .. n : SubSeq(s, 1, n)[i] = s[i]
         /\ SubSeq(s, n + 1, Len(s)) \in Seq(S) /\ Len(SubSeq(s, n + 1, Len(s))) = Len(s) - n
         /\ \A i \in 1 .. Len(s) - n : SubSeq(s, n + 1, Len(s))[i] = s[n + i]
OBVIOUS

\* Sequences with the same words are the same.
LEMMA SameWords ==
  ASSUME NEW S, NEW T, NEW s \in Seq(S), NEW t \in Seq(T),
         Len(s) = Len(t), \A i \in 1 .. Len(s) : s[i] = t[i]
  PROVE  s = t
OBVIOUS

\* What SocketAssumption says, in terms of Word.
LEMMA ConstantTypes ==
  /\ MaxWord \in Nat /\ Magic \in Word /\ Codes \subseteq Word /\ Alphabet \subseteq Word
BY SocketAssumption DEF Word

\* A body, which is a function on 1 .. n, is a sequence of length n.
LEMMA FunctionIsSeq ==
  ASSUME NEW S, NEW n \in Nat, NEW f \in [1 .. n -> S]
  PROVE  f \in Seq(S) /\ Len(f) = n
OBVIOUS

\* The parts of an item.
LEMMA ItemType ==
  ASSUME NEW item \in Items
  PROVE  /\ item.magic \in Word /\ item.code \in Word /\ item.body \in Seq(Word)
         /\ item.code \in Codes /\ item.body \in Bodies
         /\ Len(item.body) \in Nat
<1>1. item.magic \in Word /\ item.code \in Codes /\ item.body \in Bodies
  BY DEF Items
<1>2. PICK n \in 0 .. MaxWord + 1 : item.body \in [1 .. n -> Alphabet]
  BY <1>1 DEF Bodies
<1>3. n \in Nat /\ item.body \in [1 .. n -> Word]
  BY <1>2, ConstantTypes
<1>4. item.body \in Seq(Word) /\ Len(item.body) = n
  BY <1>3, FunctionIsSeq
<1> QED
  BY <1>1, <1>3, <1>4, ConstantTypes

\* A length that fits is what the header says.
LEMMA FittingLength ==
  ASSUME NEW n \in Nat, n <= MaxWord
  PROVE  n % (MaxWord + 1) = n /\ n \in Word
BY ConstantTypes DEF Word

\* The bytes of a frame that is not too long, one by one.
LEMMA EncodeIs ==
  ASSUME NEW item \in Items, Len(item.body) <= MaxWord, NEW e, e = Encode(item)
  PROVE  /\ e \in Seq(Word) /\ Len(e) = HeaderSize + Len(item.body) /\ Len(e) \in Nat
         /\ e[1] = item.magic /\ e[2] = item.code /\ e[3] = Len(item.body)
         /\ \A j \in 1 .. Len(item.body) : e[HeaderSize + j] = item.body[j]
<1>1. /\ item.body \in Seq(Word) /\ Len(item.body) \in Nat
      /\ item.magic \in Word /\ item.code \in Word
  BY ItemType
<1>2. Len(item.body) % (MaxWord + 1) = Len(item.body) /\ Len(item.body) \in Word
  BY <1>1, FittingLength
<1> DEFINE h == <<item.magic, item.code, Len(item.body)>>
<1>3. e = h \o item.body
  BY <1>2 DEF Encode
<1>4. h \in Seq(Word) /\ Len(h) = 3 /\ h[1] = item.magic /\ h[2] = item.code /\ h[3] = Len(item.body)
  BY <1>1, <1>2
<1> HIDE DEF h
<1>5. /\ h \o item.body \in Seq(Word) /\ Len(h \o item.body) = Len(h) + Len(item.body)
      /\ \A i \in 1 .. Len(h) : (h \o item.body)[i] = h[i]
      /\ \A i \in 1 .. Len(item.body) : (h \o item.body)[Len(h) + i] = item.body[i]
  <2> DEFINE b == item.body
  <2>1. h \in Seq(Word) /\ b \in Seq(Word)
    BY <1>1, <1>4
  <2> HIDE DEF b
  <2>2. /\ h \o b \in Seq(Word) /\ Len(h \o b) = Len(h) + Len(b)
        /\ \A i \in 1 .. Len(h) : (h \o b)[i] = h[i]
        /\ \A i \in 1 .. Len(b) : (h \o b)[Len(h) + i] = b[i]
    BY <2>1, Joined
  <2> QED
    BY <2>2 DEF b
<1> QED
  BY <1>1, <1>3, <1>4, <1>5 DEF HeaderSize

-----------------------------------------------------------------------------
\* Put writes the words of the item after the others.
LEMMA PutKeeps ==
  ASSUME SocketTypeOK, ItemsInv, NEW item \in Items, Len(item.body) <= MaxWord,
         item.magic # Magic => item.body = <<>>, Put(item), NEW e, e = Encode(item)
  PROVE  /\ sent' \in Seq(Items) /\ Len(sent') = Len(sent) + 1
         /\ \A i \in 1 .. Len(sent) : sent'[i] = sent[i] /\ ends'[i] = ends[i]
         /\ words' \in Seq(Word) /\ ends' \in Seq(Nat)
         /\ Len(words') = Len(words) + Len(e)
         /\ \A k \in 1 .. Len(words) : words'[k] = words[k]
         /\ \A k \in 1 .. Len(e) : words'[Len(words) + k] = e[k]
         /\ ItemsInv'
<1>1. /\ sent \in Seq(Items) /\ words \in Seq(Word) /\ ends \in Seq(Nat)
      /\ Len(sent) \in Nat /\ Len(words) \in Nat /\ Len(ends) = Len(sent)
  BY DEF SocketTypeOK, ItemsInv
<1>2. /\ e \in Seq(Word) /\ Len(e) = HeaderSize + Len(item.body)
      /\ e[1] = item.magic /\ e[2] = item.code /\ e[3] = Len(item.body)
      /\ \A j \in 1 .. Len(item.body) : e[HeaderSize + j] = item.body[j]
  BY EncodeIs
<1>3. Len(item.body) \in Nat /\ Len(e) \in Nat
  BY <1>2, ItemType
<1>4. sent' \in Seq(Items) /\ Len(sent') = Len(sent) + 1 /\ sent'[Len(sent) + 1] = item
      /\ \A i \in 1 .. Len(sent) : sent'[i] = sent[i]
  BY <1>1 DEF Put
<1>5. /\ words' \in Seq(Word) /\ Len(words') = Len(words) + Len(e)
      /\ \A k \in 1 .. Len(words) : words'[k] = words[k]
      /\ \A k \in 1 .. Len(e) : words'[Len(words) + k] = e[k]
  <2>1. words' = words \o e
    BY DEF Put
  <2> QED
    BY <1>1, <1>2, <2>1, Joined
<1>6. /\ ends' \in Seq(Nat) /\ Len(ends') = Len(ends) + 1
      /\ ends'[Len(ends) + 1] = Len(words) + Len(e)
      /\ \A i \in 1 .. Len(ends) : ends'[i] = ends[i]
  <2>1. ends' = Append(ends, Len(words) + Len(e)) /\ Len(words) + Len(e) \in Nat
    BY <1>1, <1>3, <1>5 DEF Put
  <2> QED
    BY <1>1, <2>1
<1>7. \A i \in 0 .. Len(sent) : End(i)' = End(i)
  BY <1>1, <1>6 DEF End
<1>8. End(Len(sent)) = Len(words) /\ \A i \in 1 .. Len(sent) : Placed(i)
  BY DEF ItemsInv
<1>9. ASSUME NEW i \in 1 .. Len(sent) PROVE Placed(i)'
  <2>1. Placed(i) /\ End(i - 1)' = End(i - 1) /\ ends'[i] = ends[i] /\ sent'[i] = sent[i]
    BY <1>1, <1>4, <1>6, <1>7, <1>8, <1>9
  <2>2. End(i - 1) \in Nat /\ sent[i] \in Items /\ Len(sent[i].body) \in Nat
    <3>1. sent[i] \in Items /\ (i # 1 => ends[i - 1] \in Nat)
      BY <1>1, <1>9
    <3> QED
      BY <3>1, ItemType DEF End
  <2> DEFINE start == End(i - 1)
  <2> DEFINE body == sent[i].body
  <2>3. start + HeaderSize + Len(body) <= Len(words)
    BY <2>1 DEF Placed
  <2>4. /\ words'[start + 1] = words[start + 1] /\ words'[start + 2] = words[start + 2]
        /\ words'[start + 3] = words[start + 3]
        /\ \A j \in 1 .. Len(body) : words'[start + HeaderSize + j] = words[start + HeaderSize + j]
    <3> HIDE DEF start, body
    <3>1. start \in Nat /\ Len(body) \in Nat
      BY <2>2 DEF start, body
    <3>2. /\ start + 1 \in 1 .. Len(words) /\ start + 2 \in 1 .. Len(words)
          /\ start + 3 \in 1 .. Len(words)
          /\ \A j \in 1 .. Len(body) : start + HeaderSize + j \in 1 .. Len(words)
      BY <1>1, <2>3, <3>1 DEF HeaderSize
    <3> QED
      BY <1>5, <3>2
  <2>5. ends[i] <= Len(words')
    BY <1>1, <1>3, <1>5, <1>9, <2>1 DEF Placed
  <2> QED
    BY <2>1, <2>4, <2>5 DEF Placed
<1>10. ASSUME NEW i, i = Len(sent) + 1 PROVE Placed(i)'
  <2>1. /\ End(i - 1)' = Len(words) /\ ends'[i] = Len(words) + Len(e) /\ sent'[i] = item
    <3>1. Len(sent) \in 0 .. Len(sent) /\ i - 1 = Len(sent)
      BY <1>1, <1>10
    <3> QED
      BY <1>1, <1>4, <1>6, <1>7, <1>8, <1>10, <3>1
  <2>2. /\ words'[Len(words) + 1] = item.magic /\ words'[Len(words) + 2] = item.code
        /\ words'[Len(words) + 3] = Len(item.body)
    <3>1. 1 \in 1 .. Len(e) /\ 2 \in 1 .. Len(e) /\ 3 \in 1 .. Len(e)
      BY <1>2, <1>3 DEF HeaderSize
    <3> QED
      BY <1>2, <1>5, <3>1
  <2>3. ASSUME NEW j \in 1 .. Len(item.body)
        PROVE  words'[Len(words) + HeaderSize + j] = item.body[j]
    <3>1. HeaderSize + j \in 1 .. Len(e) /\ Len(words) + HeaderSize + j = Len(words) + (HeaderSize + j)
      BY <1>1, <1>2, <1>3, <2>3 DEF HeaderSize
    <3> QED
      BY <1>2, <1>5, <2>3, <3>1
  <2>4. Len(words) + HeaderSize + Len(item.body) = Len(words) + Len(e) /\ Len(words) + Len(e) <= Len(words')
    <3> DEFINE n == Len(item.body)
    <3> DEFINE w == Len(words)
    <3>1. Len(e) = HeaderSize + n /\ HeaderSize \in Nat /\ n \in Nat /\ w \in Nat
      BY <1>1, <1>2, <1>3 DEF HeaderSize
    <3>2. Len(words') = w + Len(e)
      BY <1>5
    <3> HIDE DEF n, w
    <3>3. w + HeaderSize + n = w + Len(e) /\ w + Len(e) <= Len(words')
      BY <1>3, <3>1, <3>2
    <3> QED
      BY <3>3 DEF n, w
  <2> QED
    BY <2>1, <2>2, <2>3, <2>4 DEF Placed
<1>11. ItemsInv'
  <2>1. (End(Len(sent)) = Len(words))'
    <3>1. Len(sent') = Len(sent) + 1 /\ Len(sent') # 0 /\ ends'[Len(sent')] = Len(words')
      BY <1>1, <1>4, <1>5, <1>6
    <3> QED
      BY <3>1 DEF End
  <2>2. ASSUME NEW i \in 1 .. Len(sent') PROVE Placed(i)'
    <3>1. i \in 1 .. Len(sent) \/ i = Len(sent) + 1
      BY <1>1, <1>4
    <3> QED
      BY <1>9, <1>10, <3>1
  <2>3. Len(ends') = Len(sent')
    BY <1>1, <1>4, <1>6
  <2> QED
    BY <2>1, <2>2, <2>3 DEF ItemsInv
<1> QED
  BY <1>1, <1>4, <1>5, <1>6, <1>11

-----------------------------------------------------------------------------
\* The lengths, and the item the reader is about to read or is in.
LEMMA Bounds ==
  ASSUME FramingInv
  PROVE  /\ Len(got) \in Nat /\ Len(sent) \in Nat /\ Len(words) \in Nat
         /\ Len(stream) \in Nat /\ Len(writing) \in Nat /\ Len(got) <= Len(sent)
         /\ End(Len(got)) \in Nat /\ Consumed \in Nat
         /\ Len(got) = Len(sent) => End(Len(got)) = Len(words)
         /\ Len(got) < Len(sent) =>
              LET item == sent[Len(got) + 1]
              IN /\ item \in Items /\ Placed(Len(got) + 1)
                 /\ ends[Len(got) + 1] = End(Len(got)) + HeaderSize + Len(item.body)
                 /\ ends[Len(got) + 1] <= Len(words)
<1>1. /\ Len(got) \in Nat /\ Len(sent) \in Nat /\ Len(words) \in Nat
      /\ Len(stream) \in Nat /\ Len(writing) \in Nat /\ Len(got) <= Len(sent)
      /\ sent \in Seq(Items) /\ ends \in Seq(Nat) /\ Len(ends) = Len(sent)
      /\ End(Len(sent)) = Len(words) /\ \A i \in 1 .. Len(sent) : Placed(i)
  BY DEF FramingInv, FramesIntact, SocketTypeOK, ItemsInv
<1>2. End(Len(got)) \in Nat
  <2>1. CASE Len(got) = 0
    BY <2>1 DEF End
  <2>2. CASE Len(got) # 0
    <3>1. Len(got) \in 1 .. Len(ends)
      BY <1>1, <2>2
    <3> QED
      BY <1>1, <2>2, <3>1 DEF End
  <2> QED
    BY <2>1, <2>2
<1>3. Consumed \in Nat
  BY <1>2 DEF Consumed, HeaderSize
<1>4. ASSUME Len(got) < Len(sent)
      PROVE  /\ sent[Len(got) + 1] \in Items /\ Placed(Len(got) + 1)
             /\ ends[Len(got) + 1] = End(Len(got)) + HeaderSize + Len(sent[Len(got) + 1].body)
             /\ ends[Len(got) + 1] <= Len(words)
  <2>1. Len(got) + 1 \in 1 .. Len(sent) /\ (Len(got) + 1) - 1 = Len(got)
    BY <1>1, <1>4
  <2>2. Placed(Len(got) + 1) /\ sent[Len(got) + 1] \in Items
    BY <1>1, <2>1
  <2> QED
    BY <2>1, <2>2 DEF Placed
<1> QED
  BY <1>1, <1>2, <1>3, <1>4

\* As long as the reader does nothing, what it has taken stays what it is.
LEMMA ReaderRests ==
  ASSUME FramingInv, UNCHANGED <<rpc, header, got, rstatus>>,
         sent' \in Seq(Items), Len(sent') >= Len(sent),
         \A i \in 1 .. Len(sent) : sent'[i] = sent[i] /\ ends'[i] = ends[i]
  PROVE  /\ Consumed' = Consumed /\ ReadingInv'
         /\ Len(got') <= Len(sent')
         /\ \A i \in 1 .. Len(got') :
              got'[i] = IF sent'[i].magic = Magic THEN <<sent'[i]>> ELSE <<>>
<1>1. Len(got) \in Nat /\ Len(sent) \in Nat /\ Len(got) <= Len(sent) /\ Len(sent') \in Nat
  BY Bounds
<1>2. End(Len(got))' = End(Len(got))
  <2>1. Len(got) # 0 => ends'[Len(got)] = ends[Len(got)]
    BY <1>1
  <2> QED
    BY <2>1 DEF End
<1>3. Consumed' = Consumed
  BY <1>2 DEF Consumed
<1>4. ReadingInv'
  <2>1. Len(got) < Len(sent) => sent'[Len(got) + 1] = sent[Len(got) + 1] /\ Len(got) < Len(sent')
    BY <1>1
  <2> QED
    BY <2>1 DEF FramingInv, ReadingInv
<1>5. \A i \in 1 .. Len(got) : i \in 1 .. Len(sent)
  BY <1>1
<1> QED
  BY <1>1, <1>3, <1>4, <1>5 DEF FramingInv, FramesIntact

\* Steps that leave the stream and bufWriter alone.
LEMMA QuietKeeps ==
  ASSUME FramingInv, WriteSkip \/ WriteRefused \/ FlushFails \/ ReadSkip \/ StartRead
  PROVE  FramingInv'
<1>1. SocketTypeOK /\ WriterInv /\ StreamInv /\ ItemsInv /\ ReadingInv
  BY DEF FramingInv, FramesIntact
<1>2. /\ UNCHANGED <<sent, words, ends, writing, stream, cut, header, got>>
      /\ failed' = FALSE => failed = FALSE
      /\ rpc' = rpc \/ (rpc = "start" /\ rpc' = "header")
  BY <1>1 DEF WriteSkip, WriteRefused, FlushFails, ReadSkip, StartRead, history, readerVars, writerVars, SocketTypeOK
<1>3. WriterInv' /\ SocketTypeOK'
  <2>1. CASE WriteSkip
    BY <1>1, <2>1 DEF WriterInv, SocketTypeOK, WriteSkip, CanWrite, history, readerVars, WriteStatuses
  <2>2. CASE WriteRefused
    BY <1>1, <2>2 DEF WriterInv, SocketTypeOK, WriteRefused, CanWrite, history, readerVars, WriteStatuses
  <2>3. CASE FlushFails
    BY <1>1, <2>3 DEF WriterInv, SocketTypeOK, FlushFails, history, readerVars, WriteStatuses
  <2>4. CASE ReadSkip
    BY <1>1, <2>4 DEF WriterInv, SocketTypeOK, ReadSkip, history, writerVars, ReadStatuses
  <2>5. CASE StartRead
    BY <1>1, <2>5 DEF WriterInv, SocketTypeOK, StartRead, history, writerVars
  <2> QED
    BY <2>1, <2>2, <2>3, <2>4, <2>5
<1>4. Consumed' = Consumed
  BY <1>2 DEF Consumed, End
<1>5. ItemsInv' /\ ReadingInv'
  BY <1>1, <1>2 DEF ItemsInv, Placed, End, ReadingInv
<1>6. StreamInv'
  <2>1. failed \in BOOLEAN /\ failed' \in BOOLEAN
    BY <1>1, <1>3 DEF SocketTypeOK
  <2> QED
    BY <1>1, <1>2, <1>4, <2>1 DEF StreamInv, Holds
<1>7. FramesIntact'
  BY <1>2, <1>3 DEF FramingInv, FramesIntact
<1> QED
  BY <1>3, <1>5, <1>6, <1>7 DEF FramingInv

\* A frame goes into bufWriter.
LEMMA WriteFrameKeeps ==
  ASSUME FramingInv, WriteFrame
  PROVE  FramingInv'
<1>1. SocketTypeOK /\ WriterInv /\ StreamInv /\ ItemsInv /\ ReadingInv
  BY DEF FramingInv, FramesIntact
<1>2. PICK code \in Codes, body \in Bodies :
        LET frame == [magic |-> Magic, code |-> code, body |-> body]
        IN ~TooLong(body) /\ Put(frame) /\ writing' = Encode(frame)
  BY DEF WriteFrame
<1> DEFINE frame == [magic |-> Magic, code |-> code, body |-> body]
<1>3. /\ UNCHANGED <<failed, stream, cut, rpc, header, got, rstatus>>
      /\ wstatus' = "busy" /\ ~failed /\ Len(sent) < MaxFrames /\ writing = <<>>
  BY <1>1 DEF WriteFrame, CanWrite, readerVars, WriterInv
<1>4. frame \in Items /\ Len(frame.body) <= MaxWord /\ frame.magic = Magic
  <2>1. frame \in Items
    BY ConstantTypes DEF Items
  <2> QED
    BY <1>2, <2>1, ConstantTypes, ItemType DEF TooLong
<1>5. Put(frame) /\ writing' = Encode(frame)
  BY <1>2
<1> HIDE DEF frame
<1>6. writing' \in Seq(Word) /\ Len(writing') \in Nat
  BY <1>4, <1>5, EncodeIs
<1>7. /\ sent' \in Seq(Items) /\ Len(sent') = Len(sent) + 1
      /\ \A i \in 1 .. Len(sent) : sent'[i] = sent[i] /\ ends'[i] = ends[i]
      /\ words' \in Seq(Word) /\ ends' \in Seq(Nat)
      /\ Len(words') = Len(words) + Len(writing')
      /\ \A k \in 1 .. Len(words) : words'[k] = words[k]
      /\ \A k \in 1 .. Len(writing') : words'[Len(words) + k] = writing'[k]
      /\ ItemsInv'
  BY <1>1, <1>4, <1>5, PutKeeps
<1>8. /\ Consumed' = Consumed /\ ReadingInv' /\ Len(got') <= Len(sent')
      /\ \A i \in 1 .. Len(got') :
           got'[i] = IF sent'[i].magic = Magic THEN <<sent'[i]>> ELSE <<>>
  BY <1>3, <1>7, Bounds, ReaderRests
<1>9. SocketTypeOK'
  <2>1. MaxFrames \in Nat /\ Len(sent) \in Nat
    BY SocketAssumption, Bounds
  <2>2. Len(sent') <= MaxFrames
    BY <1>3, <1>7, <2>1
  <2> QED
    BY <1>1, <1>3, <1>6, <1>7, <2>2 DEF SocketTypeOK, WriteStatuses
<1>10. WriterInv'
  BY <1>3 DEF WriterInv
<1>11. StreamInv'
  <2> SUFFICES ASSUME rpc # "ended"
               PROVE  /\ Consumed + Len(stream) <= Len(words')
                      /\ \A k \in 1 .. Len(stream) : stream[k] = words'[Consumed + k]
                      /\ ~cut =>
                           /\ Consumed + Len(stream) + Len(writing') <= Len(words')
                           /\ \A k \in 1 .. Len(writing') : writing'[k] = words'[Consumed + Len(stream) + k]
                           /\ Consumed + Len(stream) + Len(writing') = Len(words')
      BY <1>3, <1>8 DEF StreamInv, Holds
  <2>1. /\ Consumed + Len(stream) <= Len(words)
        /\ \A k \in 1 .. Len(stream) : stream[k] = words[Consumed + k]
        /\ ~cut => Consumed + Len(stream) + Len(writing) = Len(words)
    BY <1>1, <1>3 DEF StreamInv, Holds
  <2>2. /\ Consumed \in Nat /\ Len(stream) \in Nat /\ Len(words) \in Nat /\ Len(writing) = 0
    BY <1>3, Bounds
  <2>3. \A k \in 1 .. Len(stream) : Consumed + k \in 1 .. Len(words)
    BY <2>1, <2>2
  <2>4. \A k \in 1 .. Len(stream) : stream[k] = words'[Consumed + k]
    BY <1>7, <2>1, <2>3
  <2>5. ~cut => Consumed + Len(stream) = Len(words)
    BY <2>1, <2>2
  <2>6. Consumed + Len(stream) <= Len(words') /\ Len(words) + Len(writing') <= Len(words')
    BY <1>6, <1>7, <2>1, <2>2
  <2> QED
    BY <1>7, <2>4, <2>5, <2>6
<1> QED
  BY <1>7, <1>8, <1>9, <1>10, <1>11 DEF FramingInv, FramesIntact

\* A foreign header goes onto the stream.
LEMMA ForeignKeeps ==
  ASSUME FramingInv, Foreign
  PROVE  FramingInv'
<1>1. SocketTypeOK /\ WriterInv /\ StreamInv /\ ItemsInv /\ ReadingInv
  BY DEF FramingInv, FramesIntact
<1>2. PICK magic \in Word \ {Magic}, code \in Codes :
        LET junk == [magic |-> magic, code |-> code, body |-> <<>>]
        IN Put(junk) /\ stream' = stream \o Encode(junk)
  BY DEF Foreign
<1> DEFINE junk == [magic |-> magic, code |-> code, body |-> <<>>]
<1> DEFINE e == Encode(junk)
<1>3. /\ UNCHANGED <<wstatus, writing, failed, cut, rpc, header, got, rstatus>>
      /\ ~failed /\ ~cut /\ Len(sent) < MaxFrames /\ writing = <<>>
  BY <1>1 DEF Foreign, CanWrite, readerVars, WriterInv
<1>4. junk \in Items /\ Len(junk.body) <= MaxWord /\ junk.body = <<>>
  <2>1. <<>> \in [1 .. 0 -> Alphabet] /\ 0 \in 0 .. MaxWord + 1
    BY ConstantTypes
  <2>2. <<>> \in Bodies
    BY <2>1 DEF Bodies
  <2> QED
    BY <2>2, ConstantTypes DEF Items
<1>5. Put(junk) /\ stream' = stream \o e
  BY <1>2
<1> HIDE DEF junk, e
<1>6. e \in Seq(Word) /\ Len(e) \in Nat
  BY <1>4, EncodeIs DEF e
<1>7. /\ sent' \in Seq(Items) /\ Len(sent') = Len(sent) + 1
      /\ \A i \in 1 .. Len(sent) : sent'[i] = sent[i] /\ ends'[i] = ends[i]
      /\ words' \in Seq(Word) /\ ends' \in Seq(Nat)
      /\ Len(words') = Len(words) + Len(e)
      /\ \A k \in 1 .. Len(words) : words'[k] = words[k]
      /\ \A k \in 1 .. Len(e) : words'[Len(words) + k] = e[k]
      /\ ItemsInv'
  BY <1>1, <1>4, <1>5, PutKeeps DEF e
<1>8. /\ Consumed' = Consumed /\ ReadingInv' /\ Len(got') <= Len(sent')
      /\ \A i \in 1 .. Len(got') :
           got'[i] = IF sent'[i].magic = Magic THEN <<sent'[i]>> ELSE <<>>
  BY <1>3, <1>7, Bounds, ReaderRests
<1>9. /\ stream' \in Seq(Word) /\ Len(stream') = Len(stream) + Len(e)
      /\ \A i \in 1 .. Len(stream) : stream'[i] = stream[i]
      /\ \A i \in 1 .. Len(e) : stream'[Len(stream) + i] = e[i]
  <2>1. stream \in Seq(Word)
    BY <1>1 DEF SocketTypeOK
  <2> QED
    BY <1>5, <1>6, <2>1, Joined
<1>10. SocketTypeOK'
  <2>1. MaxFrames \in Nat /\ Len(sent) \in Nat
    BY SocketAssumption, Bounds
  <2>2. Len(sent') <= MaxFrames
    BY <1>3, <1>7, <2>1
  <2> QED
    BY <1>1, <1>3, <1>7, <1>9, <2>2 DEF SocketTypeOK
<1>11. WriterInv'
  BY <1>1, <1>3 DEF WriterInv
<1>12. StreamInv'
  <2> SUFFICES ASSUME rpc # "ended"
               PROVE  /\ Consumed + Len(stream') = Len(words')
                      /\ \A k \in 1 .. Len(stream') : stream'[k] = words'[Consumed + k]
      <3>1. /\ Consumed \in Nat /\ Len(words') \in Nat /\ Len(stream') \in Nat
        BY <1>7, <1>9, Bounds
      <3>2. Len(writing') = 0 /\ (\A k \in 1 .. Len(writing') : FALSE)
        BY <1>3
      <3> QED
        BY <1>3, <1>8, <3>1, <3>2 DEF StreamInv, Holds
  <2>1. /\ Consumed + Len(stream) <= Len(words)
        /\ \A k \in 1 .. Len(stream) : stream[k] = words[Consumed + k]
        /\ Consumed + Len(stream) + Len(writing) = Len(words)
    BY <1>1, <1>3 DEF StreamInv, Holds
  <2>2. /\ Consumed \in Nat /\ Len(stream) \in Nat /\ Len(words) \in Nat /\ Len(writing) = 0
    BY <1>3, Bounds
  <2>3. Consumed + Len(stream) = Len(words)
    BY <2>1, <2>2
  <2> DEFINE n == Len(e)
  <2>4. n \in Nat /\ Len(words') = Len(words) + n /\ Len(stream') = Len(stream) + n
    BY <1>6, <1>7, <1>9
  <2>5. \A i \in 1 .. n : stream'[Len(stream) + i] = words'[Len(words) + i]
    BY <1>7, <1>9
  <2> HIDE DEF n
  <2>6. Consumed + Len(stream') = Len(words')
    BY <2>2, <2>3, <2>4
  <2>7. ASSUME NEW k \in 1 .. Len(stream') PROVE stream'[k] = words'[Consumed + k]
    <3>1. CASE k <= Len(stream)
      <4>1. k \in 1 .. Len(stream) /\ Consumed + k \in 1 .. Len(words)
        BY <2>2, <2>3, <2>7, <3>1
      <4> QED
        BY <1>7, <1>9, <2>1, <4>1
    <3>2. CASE ~(k <= Len(stream))
      <4> DEFINE i == k - Len(stream)
      <4>1. i \in 1 .. n /\ k = Len(stream) + i /\ Consumed + k = Len(words) + i
        BY <2>2, <2>3, <2>7, <2>4, <3>2
      <4> HIDE DEF i
      <4> QED
        BY <2>5, <4>1
    <3> QED
      BY <3>1, <3>2
  <2> QED
    BY <2>6, <2>7
<1> QED
  BY <1>7, <1>8, <1>10, <1>11, <1>12 DEF FramingInv, FramesIntact

\* bufio hands over the first words it has; on a closed connection they go
\* nowhere.
LEMMA FlushKeeps ==
  ASSUME FramingInv, Flush
  PROVE  FramingInv'
<1>1. SocketTypeOK /\ WriterInv /\ StreamInv /\ ItemsInv /\ ReadingInv
  BY DEF FramingInv, FramesIntact
<1>2. PICK n \in 1 .. Len(writing) :
        /\ stream' = IF cut THEN stream ELSE stream \o SubSeq(writing, 1, n)
        /\ writing' = SubSeq(writing, n + 1, Len(writing))
  BY DEF Flush
<1> DEFINE part == SubSeq(writing, 1, n)
<1>3. /\ UNCHANGED <<sent, words, ends, failed, cut, rpc, header, got, rstatus>>
      /\ wstatus = "busy" /\ wstatus' = IF writing' = <<>> THEN "ok" ELSE "busy"
      /\ ~failed
  BY <1>1 DEF Flush, history, readerVars, WriterInv
<1>4. /\ part \in Seq(Word) /\ Len(part) = n /\ \A i \in 1 .. n : part[i] = writing[i]
      /\ writing' \in Seq(Word) /\ Len(writing') = Len(writing) - n
      /\ \A i \in 1 .. Len(writing) - n : writing'[i] = writing[n + i]
  <2>1. writing \in Seq(Word) /\ n \in 0 .. Len(writing)
    BY <1>1 DEF SocketTypeOK
  <2> QED
    BY <1>2, <2>1, Divided
<1> HIDE DEF part
<1>5. stream' \in Seq(Word)
      /\ (~cut => /\ Len(stream') = Len(stream) + n
                  /\ \A i \in 1 .. Len(stream) : stream'[i] = stream[i]
                  /\ \A i \in 1 .. n : stream'[Len(stream) + i] = writing[i])
  <2>1. stream \in Seq(Word)
    BY <1>1 DEF SocketTypeOK
  <2>2. CASE cut
    BY <1>2, <2>1, <2>2
  <2>3. CASE ~cut
    <3>1. stream' = stream \o part
      BY <1>2, <2>3 DEF part
    <3>2. part \in Seq(Word)
      BY <1>4
    <3>3. /\ stream \o part \in Seq(Word) /\ Len(stream \o part) = Len(stream) + Len(part)
          /\ \A i \in 1 .. Len(stream) : (stream \o part)[i] = stream[i]
          /\ \A i \in 1 .. Len(part) : (stream \o part)[Len(stream) + i] = part[i]
      BY <2>1, <3>2, Joined
    <3> QED
      BY <1>4, <3>1, <3>2, <3>3
  <2> QED
    BY <2>2, <2>3
<1>6. SocketTypeOK'
  BY <1>1, <1>3, <1>4, <1>5 DEF SocketTypeOK, WriteStatuses
<1>7. WriterInv'
  BY <1>3 DEF WriterInv
<1>8. Consumed' = Consumed /\ ItemsInv' /\ ReadingInv'
  BY <1>1, <1>3 DEF Consumed, End, ItemsInv, Placed, ReadingInv
<1>9. StreamInv'
  <2> SUFFICES ASSUME rpc # "ended"
               PROVE  /\ Consumed + Len(stream') <= Len(words)
                      /\ \A k \in 1 .. Len(stream') : stream'[k] = words[Consumed + k]
                      /\ ~cut =>
                           /\ Consumed + Len(stream') + Len(writing') <= Len(words)
                           /\ \A k \in 1 .. Len(writing') : writing'[k] = words[Consumed + Len(stream') + k]
                           /\ Consumed + Len(stream') + Len(writing') = Len(words)
      BY <1>3, <1>8 DEF StreamInv, Holds
  <2>1. /\ Consumed + Len(stream) <= Len(words)
        /\ \A k \in 1 .. Len(stream) : stream[k] = words[Consumed + k]
        /\ ~cut => /\ \A k \in 1 .. Len(writing) : writing[k] = words[Consumed + Len(stream) + k]
                   /\ Consumed + Len(stream) + Len(writing) = Len(words)
    BY <1>1, <1>3 DEF StreamInv, Holds
  <2>2. /\ Consumed \in Nat /\ Len(stream) \in Nat /\ Len(words) \in Nat /\ Len(writing) \in Nat
    BY Bounds
  <2>3. CASE cut
    BY <1>2, <2>1, <2>3
  <2>4. CASE ~cut
    <3>1. /\ Len(stream') = Len(stream) + n /\ Len(writing') = Len(writing) - n
          /\ Consumed + Len(stream') + Len(writing') = Len(words)
          /\ Consumed + Len(stream') <= Len(words)
      <4>1. Len(stream') = Len(stream) + n /\ Len(writing') = Len(writing) - n
        BY <1>4, <1>5, <2>4
      <4>2. n \in Nat /\ n <= Len(writing) /\ Consumed + Len(stream) + Len(writing) = Len(words)
        BY <2>1, <2>2, <2>4
      <4> QED
        BY <2>2, <4>1, <4>2
    <3>2. ASSUME NEW k \in 1 .. Len(stream') PROVE stream'[k] = words[Consumed + k]
      <4>1. CASE k <= Len(stream)
        <5>1. k \in 1 .. Len(stream)
          BY <2>2, <3>2, <4>1
        <5> QED
          BY <1>5, <2>1, <2>4, <5>1
      <4>2. CASE ~(k <= Len(stream))
        <5> DEFINE i == k - Len(stream)
        <5>1. i \in 1 .. n /\ i \in 1 .. Len(writing) /\ k = Len(stream) + i
              /\ Consumed + k = Consumed + Len(stream) + i
          BY <2>2, <3>1, <3>2, <4>2
        <5> HIDE DEF i
        <5> QED
          BY <1>5, <2>1, <2>4, <5>1
      <4> QED
        BY <4>1, <4>2
    <3>3. ASSUME NEW k \in 1 .. Len(writing')
          PROVE  writing'[k] = words[Consumed + Len(stream') + k]
      <4>1. k \in 1 .. Len(writing) - n /\ n + k \in 1 .. Len(writing)
            /\ Consumed + Len(stream') + k = Consumed + Len(stream) + (n + k)
        BY <2>2, <3>1, <3>3
      <4> QED
        BY <1>4, <2>1, <2>4, <4>1
    <3>4. Consumed + Len(stream') + Len(writing') <= Len(words)
      BY <2>2, <3>1
    <3> QED
      BY <3>1, <3>2, <3>3, <3>4
  <2> QED
    BY <2>3, <2>4
<1>10. FramesIntact'
  BY <1>3, <1>6 DEF FramingInv, FramesIntact
<1> QED
  BY <1>6, <1>7, <1>8, <1>9, <1>10 DEF FramingInv

\* What is in flight is cut short.
LEMMA CutKeeps ==
  ASSUME FramingInv, Cut
  PROVE  FramingInv'
<1>1. SocketTypeOK /\ WriterInv /\ StreamInv /\ ItemsInv /\ ReadingInv
  BY DEF FramingInv, FramesIntact
<1>2. PICK n \in 0 .. Len(stream) : stream' = SubSeq(stream, 1, n)
  BY DEF Cut
<1>3. /\ UNCHANGED <<sent, words, ends, wstatus, writing, failed, rpc, header, got, rstatus>>
      /\ cut' = TRUE
  BY DEF Cut, history, writerVars, readerVars
<1>4. /\ stream' \in Seq(Word) /\ Len(stream') = n
      /\ \A i \in 1 .. n : stream'[i] = stream[i]
  <2>1. stream \in Seq(Word)
    BY <1>1 DEF SocketTypeOK
  <2> QED
    BY <1>2, <2>1, Divided
<1>5. SocketTypeOK'
  BY <1>1, <1>3, <1>4 DEF SocketTypeOK
<1>6. WriterInv' /\ Consumed' = Consumed /\ ItemsInv' /\ ReadingInv'
  BY <1>1, <1>3 DEF WriterInv, Consumed, End, ItemsInv, Placed, ReadingInv
<1>7. StreamInv'
  <2> SUFFICES ASSUME rpc # "ended"
               PROVE  /\ Consumed + Len(stream') <= Len(words)
                      /\ \A k \in 1 .. Len(stream') : stream'[k] = words[Consumed + k]
      BY <1>3, <1>6 DEF StreamInv, Holds
  <2>1. /\ Consumed + Len(stream) <= Len(words)
        /\ \A k \in 1 .. Len(stream) : stream[k] = words[Consumed + k]
    BY <1>1 DEF StreamInv, Holds
  <2>2. /\ Consumed \in Nat /\ Len(stream) \in Nat /\ Len(words) \in Nat
    BY Bounds
  <2>3. n \in Nat /\ n <= Len(stream) /\ \A k \in 1 .. n : k \in 1 .. Len(stream)
    BY <2>2
  <2>4. Len(stream') = n /\ \A k \in 1 .. n : stream'[k] = words[Consumed + k]
    BY <1>4, <2>1, <2>3
  <2>5. Consumed + n <= Len(words)
    BY <2>1, <2>2, <2>3
  <2> QED
    BY <2>4, <2>5
<1>8. FramesIntact'
  BY <1>3, <1>5 DEF FramingInv, FramesIntact
<1> QED
  BY <1>5, <1>6, <1>7, <1>8 DEF FramingInv

-----------------------------------------------------------------------------
(* ReadSocket.                                                             *)

\* ReadFull takes the words it was asked for, and the rest is next.
LEMMA TakeEffect ==
  ASSUME FramingInv, Take, rpc # "ended", Wanted \in Nat, UNCHANGED writerVars, UNCHANGED cut
  PROVE  /\ stream' \in Seq(Word)
         /\ Consumed + Wanted <= Len(words)
         /\ \A k \in 1 .. Wanted : stream[k] = words[Consumed + k]
         /\ Holds(stream', Consumed + Wanted)
         /\ ~cut /\ ~failed =>
              /\ Holds(writing, Consumed + Wanted + Len(stream'))
              /\ Consumed + Wanted + Len(stream') + Len(writing) = Len(words)
<1>1. /\ Consumed + Len(stream) <= Len(words)
      /\ \A k \in 1 .. Len(stream) : stream[k] = words[Consumed + k]
      /\ ~cut /\ ~failed =>
           /\ Holds(writing, Consumed + Len(stream))
           /\ Consumed + Len(stream) + Len(writing) = Len(words)
  BY DEF FramingInv, StreamInv, Holds
<1>2. /\ Consumed \in Nat /\ Len(stream) \in Nat /\ Len(words) \in Nat /\ Len(writing) \in Nat
  BY Bounds
<1> DEFINE n == Wanted
<1>3. n \in 0 .. Len(stream) /\ stream' = SubSeq(stream, n + 1, Len(stream)) /\ stream \in Seq(Word)
  BY <1>2 DEF Take, FramingInv, FramesIntact, SocketTypeOK
<1> HIDE DEF n
<1>4. /\ SubSeq(stream, n + 1, Len(stream)) \in Seq(Word)
      /\ Len(SubSeq(stream, n + 1, Len(stream))) = Len(stream) - n
      /\ \A i \in 1 .. Len(stream) - n : SubSeq(stream, n + 1, Len(stream))[i] = stream[n + i]
  BY <1>3, Divided
<1>5. /\ stream' \in Seq(Word) /\ Len(stream') = Len(stream) - n
      /\ \A i \in 1 .. Len(stream) - n : stream'[i] = stream[n + i]
  BY <1>3, <1>4
<1>6. /\ Consumed + n <= Len(words) /\ Consumed + n + Len(stream') = Consumed + Len(stream)
  <2>1. n \in Nat /\ n <= Len(stream) /\ Len(stream') = Len(stream) - n
    BY <1>2, <1>3, <1>5
  <2>2. Consumed + Len(stream) <= Len(words)
    BY <1>1
  <2> QED
    BY <1>2, <2>1, <2>2
<1>7. \A k \in 1 .. n : stream[k] = words[Consumed + k]
  BY <1>1, <1>2, <1>3
<1>8. ASSUME NEW k \in 1 .. Len(stream') PROVE stream'[k] = words[Consumed + n + k]
  <2>1. k \in 1 .. Len(stream) - n
    BY <1>5, <1>8
  <2>2. n + k \in 1 .. Len(stream) /\ Consumed + n + k = Consumed + (n + k)
    BY <1>2, <1>3, <2>1
  <2> QED
    BY <1>1, <1>5, <2>1, <2>2
<1>9. Holds(stream', Consumed + n)
  BY <1>1, <1>6, <1>8 DEF Holds
<1> QED
  BY <1>1, <1>5, <1>6, <1>7, <1>9 DEF n

\* Whatever has been read, the writer's side is as it was.
LEMMA WriterRests ==
  ASSUME FramingInv, UNCHANGED writerVars
  PROVE  ItemsInv' /\ WriterInv'
BY DEF FramingInv, writerVars, history, ItemsInv, Placed, End, WriterInv

\* The item that is next, when ReadFull has its header.
LEMMA NextItem ==
  ASSUME FramingInv, ReadHeader
  PROVE  /\ Len(got) < Len(sent)
         /\ LET item == sent[Len(got) + 1]
            IN header' = <<item.magic, item.code, Len(item.body)>>
<1>1. /\ rpc = "header" /\ Take /\ UNCHANGED writerVars /\ UNCHANGED cut
      /\ header' = SubSeq(stream, 1, 3)
  BY DEF ReadHeader, HeaderSize
<1>2. Wanted = 3
  BY <1>1 DEF Wanted, HeaderSize
<1>3. /\ Consumed + 3 <= Len(words)
      /\ \A k \in 1 .. 3 : stream[k] = words[Consumed + k]
  BY <1>1, <1>2, TakeEffect
<1>4. Consumed = End(Len(got)) /\ End(Len(got)) \in Nat
  BY <1>1, Bounds DEF Consumed
<1>5. Len(got) < Len(sent)
  BY <1>3, <1>4, Bounds
<1> DEFINE item == sent[Len(got) + 1]
<1>6. /\ words[Consumed + 1] = item.magic /\ words[Consumed + 2] = item.code
      /\ words[Consumed + 3] = Len(item.body)
  <2>1. Placed(Len(got) + 1) /\ (Len(got) + 1) - 1 = Len(got)
    BY <1>5, Bounds
  <2> QED
    BY <1>4, <2>1 DEF Placed
<1> HIDE DEF item
<1>7. stream \in Seq(Word) /\ 3 \in 0 .. Len(stream)
  BY <1>1, <1>2, Bounds DEF FramingInv, FramesIntact, SocketTypeOK, Take
<1>8. /\ header' \in Seq(Word) /\ Len(header') = 3 /\ \A i \in 1 .. 3 : header'[i] = stream[i]
  <2>1. /\ SubSeq(stream, 1, 3) \in Seq(Word) /\ Len(SubSeq(stream, 1, 3)) = 3
        /\ \A i \in 1 .. 3 : SubSeq(stream, 1, 3)[i] = stream[i]
    BY <1>7, Divided
  <2> QED
    BY <1>1, <2>1
<1>9. header'[1] = item.magic /\ header'[2] = item.code /\ header'[3] = Len(item.body)
  BY <1>3, <1>6, <1>8
<1>10. header' = <<item.magic, item.code, Len(item.body)>>
  BY <1>8, <1>9
<1> QED
  BY <1>5, <1>10 DEF item

\* What ReadSocket returns of an item: the frame, whole, or nothing of a
\* foreign one.
Result(item) == IF item.magic = Magic THEN <<item>> ELSE <<>>

\* The frame made of an item's header and body is that item.
LEMMA FrameIsItem ==
  ASSUME NEW item \in Items, NEW h, h = <<item.magic, item.code, Len(item.body)>>
  PROVE  Frame(h, item.body) = <<item>>
<1>1. h[1] = item.magic /\ h[2] = item.code
  OBVIOUS
<1>2. item = [magic |-> item.magic, code |-> item.code, body |-> item.body]
  BY DEF Items
<1> QED
  BY <1>1, <1>2 DEF Frame

\* A return accounts for the next item.
LEMMA ReturnKeeps ==
  ASSUME FramingInv, Len(got) < Len(sent), got' = Append(got, Result(sent[Len(got) + 1])),
         UNCHANGED writerVars
  PROVE  /\ got' \in Seq(Seq([magic : {Magic}, code : Codes, body : Bodies]))
         /\ Len(got') <= Len(sent')
         /\ \A i \in 1 .. Len(got') :
              got'[i] = IF sent'[i].magic = Magic THEN <<sent'[i]>> ELSE <<>>
         /\ End(Len(got))' = End(Len(got)) + HeaderSize + Len(sent[Len(got) + 1].body)
<1> DEFINE item == sent[Len(got) + 1]
<1> DEFINE F == [magic : {Magic}, code : Codes, body : Bodies]
<1>1. /\ item \in Items /\ Len(got) \in Nat /\ Len(sent) \in Nat
      /\ ends[Len(got) + 1] = End(Len(got)) + HeaderSize + Len(item.body)
  BY Bounds
<1>2. got \in Seq(Seq(F)) /\ \A i \in 1 .. Len(got) : got[i] = Result(sent[i])
  BY DEF FramingInv, FramesIntact, SocketTypeOK, Result
<1>3. Result(item) \in Seq(F)
  <2>1. CASE item.magic = Magic
    <3>1. item \in F
      BY <1>1, <2>1 DEF Items
    <3> QED
      BY <2>1, <3>1 DEF Result
  <2>2. CASE item.magic # Magic
    BY <2>2 DEF Result
  <2> QED
    BY <2>1, <2>2
<1>4. got' = Append(got, Result(item)) /\ UNCHANGED <<sent, ends>>
  BY DEF writerVars, history
<1> HIDE DEF item, F
<1>5. /\ got' \in Seq(Seq(F)) /\ Len(got') = Len(got) + 1 /\ got'[Len(got) + 1] = Result(item)
      /\ \A i \in 1 .. Len(got) : got'[i] = got[i]
  <2> DEFINE r == Result(item)
  <2> DEFINE S == Seq(F)
  <2>1. got \in Seq(S) /\ r \in S /\ got' = Append(got, r)
    BY <1>2, <1>3, <1>4
  <2> HIDE DEF r, S
  <2>2. /\ got' \in Seq(S) /\ Len(got') = Len(got) + 1 /\ got'[Len(got) + 1] = r
        /\ \A i \in 1 .. Len(got) : got'[i] = got[i]
    BY <2>1
  <2> QED
    BY <2>2 DEF r, S
<1>6. Len(got') <= Len(sent')
  BY <1>1, <1>4, <1>5
<1>7. ASSUME NEW i \in 1 .. Len(got') PROVE got'[i] = Result(sent'[i])
  <2>1. CASE i = Len(got) + 1
    BY <1>4, <1>5, <2>1 DEF item
  <2>2. CASE i \in 1 .. Len(got)
    BY <1>2, <1>4, <1>5, <2>2
  <2> QED
    BY <1>1, <1>5, <1>7, <2>1, <2>2
<1>8. End(Len(got))' = ends[Len(got) + 1]
  <2>1. Len(got') = Len(got) + 1 /\ Len(got') # 0
    BY <1>1, <1>5
  <2> QED
    BY <1>4, <2>1 DEF End
<1> QED
  BY <1>1, <1>5, <1>6, <1>7, <1>8 DEF Result, item, F

\* ReadFull has a header.
LEMMA ReadHeaderKeeps ==
  ASSUME FramingInv, ReadHeader
  PROVE  FramingInv'
<1> DEFINE item == sent[Len(got) + 1]
<1>1. SocketTypeOK /\ WriterInv /\ StreamInv /\ ItemsInv /\ FramesIntact
  BY DEF FramingInv, FramesIntact
<1>2. /\ rpc = "header" /\ Take /\ UNCHANGED writerVars /\ UNCHANGED cut
      /\ UNCHANGED <<sent, words, ends, wstatus, writing, failed>>
  BY DEF ReadHeader, writerVars, history
<1>3. Wanted = 3
  BY <1>2 DEF Wanted, HeaderSize
<1>4. Len(got) < Len(sent) /\ header' = <<item.magic, item.code, Len(item.body)>>
  BY NextItem
<1>5. item \in Items /\ Placed(Len(got) + 1) /\ End(Len(got)) \in Nat /\ Consumed = End(Len(got))
  BY <1>2, <1>4, Bounds DEF Consumed
<1>6. /\ item.body \in Seq(Word) /\ Len(item.body) \in Nat
      /\ item.magic # Magic => item.body = <<>>
      /\ Len(item.body) = 0 <=> item.body = <<>>
  <2>1. item.body \in Seq(Word) /\ Len(item.body) \in Nat
    BY <1>5, ItemType
  <2> QED
    BY <1>5, <2>1 DEF Placed
<1>7. header'[1] = item.magic /\ header'[3] = Len(item.body) /\ header' \in Seq(Word)
  <2>1. item.magic \in Word /\ item.code \in Word
    BY <1>5, ItemType
  <2>2. Len(item.body) \in Word
    BY <1>5, <1>6, FittingLength DEF Placed
  <2> QED
    BY <1>4, <2>1, <2>2
<1> HIDE DEF item
<1>8. /\ stream' \in Seq(Word) /\ Holds(stream', Consumed + 3)
      /\ ~cut /\ ~failed =>
           /\ Holds(writing, Consumed + 3 + Len(stream'))
           /\ Consumed + 3 + Len(stream') + Len(writing) = Len(words)
  BY <1>2, <1>3, TakeEffect
<1>9. ItemsInv' /\ WriterInv'
  BY <1>2, WriterRests
<1>10. CASE item.body = <<>>
  <2>1. /\ rpc' = "start" /\ rstatus' \in {"magic", "frame"}
        /\ got' = Append(got, Result(item))
    <3>1. CASE item.magic # Magic
      BY <1>7, <3>1 DEF ReadHeader, Return, Result
    <3>2. CASE item.magic = Magic
      <4>1. rpc' = "start" /\ rstatus' = "frame" /\ got' = Append(got, Frame(header', <<>>))
        BY <1>6, <1>7, <1>10, <3>2 DEF ReadHeader, Return
      <4>2. Frame(header', <<>>) = <<item>>
        BY <1>4, <1>5, <1>10, FrameIsItem DEF item
      <4> QED
        BY <3>2, <4>1, <4>2 DEF Result
    <3> QED
      BY <3>1, <3>2
  <2>2. /\ got' \in Seq(Seq([magic : {Magic}, code : Codes, body : Bodies]))
        /\ Len(got') <= Len(sent')
        /\ \A i \in 1 .. Len(got') :
             got'[i] = IF sent'[i].magic = Magic THEN <<sent'[i]>> ELSE <<>>
        /\ End(Len(got))' = End(Len(got)) + HeaderSize + Len(item.body)
    BY <1>2, <1>4, <2>1, ReturnKeeps DEF item
  <2>3. Consumed' = Consumed + 3
    BY <1>5, <1>6, <1>10, <2>1, <2>2 DEF Consumed, HeaderSize
  <2>4. StreamInv'
    BY <1>2, <1>8, <2>3 DEF StreamInv, Holds
  <2>5. SocketTypeOK'
    BY <1>1, <1>2, <1>7, <1>8, <2>1, <2>2 DEF SocketTypeOK, ReadStatuses
  <2>6. ReadingInv'
    BY <2>1 DEF ReadingInv
  <2> QED
    BY <1>9, <2>2, <2>4, <2>5, <2>6 DEF FramingInv, FramesIntact
<1>11. CASE item.body # <<>>
  <2>1. rpc' = "body" /\ UNCHANGED <<got, rstatus>> /\ item.magic = Magic
    BY <1>6, <1>7, <1>11 DEF ReadHeader, Return
  <2>2. Consumed' = Consumed + 3
    BY <1>2, <1>5, <2>1 DEF Consumed, End, HeaderSize
  <2>3. StreamInv'
    BY <1>2, <1>8, <2>2 DEF StreamInv, Holds
  <2>4. SocketTypeOK'
    BY <1>1, <1>2, <1>7, <1>8, <2>1 DEF SocketTypeOK
  <2>5. ReadingInv'
    BY <1>2, <1>4, <1>11, <2>1 DEF ReadingInv, item
  <2> QED
    BY <1>1, <1>2, <1>9, <2>1, <2>3, <2>4, <2>5 DEF FramingInv, FramesIntact
<1> QED
  BY <1>10, <1>11

\* ReadFull has a body, all of it.
LEMMA ReadBodyKeeps ==
  ASSUME FramingInv, ReadBody
  PROVE  FramingInv'
<1> DEFINE item == sent[Len(got) + 1]
<1>1. SocketTypeOK /\ WriterInv /\ StreamInv /\ ItemsInv /\ ReadingInv
  BY DEF FramingInv, FramesIntact
<1>2. /\ rpc = "body" /\ Take /\ UNCHANGED writerVars /\ UNCHANGED cut /\ header' = header
      /\ UNCHANGED <<sent, words, ends, wstatus, writing, failed>>
      /\ rpc' = "start" /\ rstatus' = "frame"
      /\ got' = Append(got, Frame(header, SubSeq(stream, 1, Wanted)))
  BY DEF ReadBody, Return, writerVars, history
<1>3. /\ Len(got) < Len(sent) /\ item.magic = Magic
      /\ header = <<item.magic, item.code, Len(item.body)>>
  BY <1>1, <1>2 DEF ReadingInv
<1>4. item \in Items /\ Placed(Len(got) + 1) /\ End(Len(got)) \in Nat /\ Consumed = End(Len(got)) + 3
  BY <1>2, <1>3, Bounds DEF Consumed, HeaderSize
<1> HIDE DEF item
<1> DEFINE body == item.body
<1> DEFINE n == Len(body)
<1>5. body \in Seq(Word) /\ n \in Nat
  BY <1>4, ItemType
<1>6. Wanted = n
  <2>1. header[3] = Len(item.body)
    BY <1>3
  <2> QED
    BY <1>2, <2>1 DEF Wanted
<1>7. \A j \in 1 .. n : words[End(Len(got)) + 3 + j] = body[j]
  <2>1. (Len(got) + 1) - 1 = Len(got)
    BY Bounds
  <2> QED
    BY <1>4, <2>1 DEF Placed, HeaderSize, item
<1> HIDE DEF body, n
<1>8. /\ stream' \in Seq(Word) /\ \A k \in 1 .. n : stream[k] = words[Consumed + k]
      /\ Holds(stream', Consumed + n)
      /\ ~cut /\ ~failed =>
           /\ Holds(writing, Consumed + n + Len(stream'))
           /\ Consumed + n + Len(stream') + Len(writing) = Len(words)
  BY <1>2, <1>5, <1>6, TakeEffect
<1>9. SubSeq(stream, 1, n) = body
  <2>1. stream \in Seq(Word) /\ n \in 0 .. Len(stream)
    BY <1>1, <1>2, <1>5, <1>6, Bounds DEF SocketTypeOK, Take
  <2>2. /\ SubSeq(stream, 1, n) \in Seq(Word) /\ Len(SubSeq(stream, 1, n)) = n
        /\ \A k \in 1 .. n : SubSeq(stream, 1, n)[k] = stream[k]
    BY <2>1, Divided
  <2>3. \A k \in 1 .. n : SubSeq(stream, 1, n)[k] = body[k]
    BY <1>4, <1>7, <1>8, <2>2
  <2>4. Len(body) = n
    BY DEF n
  <2> QED
    BY <1>5, <2>2, <2>3, <2>4, SameWords
<1>10. got' = Append(got, Result(item))
  <2>1. Frame(header, body) = <<item>>
    BY <1>3, <1>4, FrameIsItem DEF body
  <2> QED
    BY <1>2, <1>3, <1>6, <1>9, <2>1 DEF Result
<1>11. /\ got' \in Seq(Seq([magic : {Magic}, code : Codes, body : Bodies]))
       /\ Len(got') <= Len(sent')
       /\ \A i \in 1 .. Len(got') :
            got'[i] = IF sent'[i].magic = Magic THEN <<sent'[i]>> ELSE <<>>
       /\ End(Len(got))' = End(Len(got)) + 3 + n
  BY <1>2, <1>3, <1>10, ReturnKeeps DEF item, body, n, HeaderSize
<1>12. Consumed' = Consumed + n
  <2>1. Consumed' = End(Len(got))' + 0
    BY <1>2 DEF Consumed
  <2> QED
    BY <1>4, <1>5, <1>11, <2>1
<1>13. StreamInv'
  BY <1>2, <1>8, <1>12 DEF StreamInv, Holds
<1>14. SocketTypeOK'
  BY <1>1, <1>2, <1>8, <1>11 DEF SocketTypeOK, ReadStatuses
<1>15. ReadingInv'
  BY <1>2 DEF ReadingInv
<1> QED
  BY <1>2, <1>11, <1>13, <1>14, <1>15, WriterRests DEF FramingInv, FramesIntact

\* The connection is of no more use.
LEMMA ReadBrokenKeeps ==
  ASSUME FramingInv, ReadBroken
  PROVE  FramingInv'
<1>1. /\ rpc' = "ended" /\ rstatus' = "broken" /\ stream' = <<>>
      /\ UNCHANGED <<sent, words, ends, wstatus, writing, failed, cut, header, got>>
      /\ UNCHANGED writerVars
  BY DEF ReadBroken, writerVars, history
<1>2. SocketTypeOK'
  BY <1>1 DEF FramingInv, FramesIntact, SocketTypeOK, ReadStatuses
<1>3. ReadingInv' /\ StreamInv'
  BY <1>1 DEF ReadingInv, StreamInv
<1>4. FramesIntact'
  BY <1>1, <1>2 DEF FramingInv, FramesIntact
<1> QED
  BY <1>1, <1>3, <1>4, WriterRests DEF FramingInv

-----------------------------------------------------------------------------
(* The theorems.                                                           *)

\* Nothing sent, nothing read.
LEMMA FramingInvInit == SocketInit => FramingInv
<1> SUFFICES ASSUME SocketInit PROVE FramingInv
    OBVIOUS
<1> USE DEF SocketInit
<1>0. /\ sent \in Seq(Items) /\ words \in Seq(Word) /\ ends \in Seq(Nat)
      /\ stream \in Seq(Word) /\ writing \in Seq(Word) /\ header \in Seq(Word)
      /\ got \in Seq(Seq([magic : {Magic}, code : Codes, body : Bodies]))
  OBVIOUS
<1>1. SocketTypeOK
  <2>1. Len(sent) <= MaxFrames
    BY SocketAssumption
  <2> QED
    BY <1>0, <2>1 DEF SocketTypeOK, WriteStatuses, ReadStatuses
<1>2. FramesIntact
  BY <1>1 DEF FramesIntact
<1>3. ItemsInv /\ WriterInv /\ ReadingInv
  BY DEF ItemsInv, End, WriterInv, ReadingInv
<1>4. StreamInv
  BY DEF StreamInv, Holds, Consumed, End
<1> QED
  BY <1>2, <1>3, <1>4 DEF FramingInv

\* One lemma for each kind of step.
LEMMA FramingInvStep == FramingInv /\ [SocketNext]_socketVars => FramingInv'
<1>1. ASSUME FramingInv, UNCHANGED socketVars PROVE FramingInv'
  BY <1>1 DEF socketVars, writerVars, readerVars, history, FramingInv, FramesIntact, SocketTypeOK,
              ItemsInv, Placed, End, WriterInv, ReadingInv, StreamInv, Holds, Consumed
<1> QED
  BY <1>1, QuietKeeps, WriteFrameKeeps, ForeignKeeps, FlushKeeps, CutKeeps, ReadHeaderKeeps,
     ReadBodyKeeps, ReadBrokenKeeps DEF SocketNext

\* In every behaviour of the framing.
LEMMA FramingInvariance == SocketSpec => []FramingInv
BY FramingInvInit, FramingInvStep, PTL DEF SocketSpec

\* Frames arrive as they were accepted, for bodies of any length and words,
\* wherever the stream is cut up or cut off.
THEOREM FramesArriveWhole == SocketSpec => []FramesIntact
<1>1. FramingInv => FramesIntact
  BY DEF FramingInv
<1> QED
  BY <1>1, FramingInvariance, PTL

\* What is in flight and in bufWriter is what the reader has not taken.
LEMMA AlignedByInv == FramingInv => Aligned
<1> SUFFICES ASSUME FramingInv, rpc # "ended"
             PROVE  IF cut \/ failed
                      THEN Len(stream) <= Len(Unread) /\ stream = SubSeq(Unread, 1, Len(stream))
                      ELSE stream \o writing = Unread
    BY DEF Aligned
<1> DEFINE c == Consumed
<1> DEFINE u == Unread
<1>1. /\ c + Len(stream) <= Len(words)
      /\ \A k \in 1 .. Len(stream) : stream[k] = words[c + k]
      /\ ~cut /\ ~failed =>
           /\ \A k \in 1 .. Len(writing) : writing[k] = words[c + Len(stream) + k]
           /\ c + Len(stream) + Len(writing) = Len(words)
  BY DEF FramingInv, StreamInv, Holds
<1>2. /\ c \in Nat /\ Len(stream) \in Nat /\ Len(words) \in Nat /\ Len(writing) \in Nat
      /\ stream \in Seq(Word) /\ words \in Seq(Word) /\ writing \in Seq(Word)
  BY Bounds DEF FramingInv, FramesIntact, SocketTypeOK
<1>3. c \in 0 .. Len(words)
  BY <1>1, <1>2
<1>4. u = SubSeq(words, c + 1, Len(words))
  BY DEF Unread
<1> HIDE DEF c, u
<1>5. /\ u \in Seq(Word) /\ Len(u) = Len(words) - c
      /\ \A i \in 1 .. Len(words) - c : u[i] = words[c + i]
  <2>1. /\ SubSeq(words, c + 1, Len(words)) \in Seq(Word)
        /\ Len(SubSeq(words, c + 1, Len(words))) = Len(words) - c
        /\ \A i \in 1 .. Len(words) - c : SubSeq(words, c + 1, Len(words))[i] = words[c + i]
    BY <1>2, <1>3, Divided
  <2> QED
    BY <1>4, <2>1
<1>6. Len(stream) <= Len(u) /\ \A k \in 1 .. Len(stream) : k \in 1 .. Len(words) - c /\ stream[k] = u[k]
  <2>1. Len(u) = Len(words) - c
    BY <1>5
  <2>2. c + Len(stream) <= Len(words)
    BY <1>1
  <2>3. Len(stream) <= Len(u) /\ \A k \in 1 .. Len(stream) : k \in 1 .. Len(words) - c
    BY <1>2, <2>1, <2>2
  <2> QED
    BY <1>1, <1>5, <2>3
<1>7. CASE cut \/ failed
  <2>1. u \in Seq(Word) /\ Len(stream) \in 0 .. Len(u)
    BY <1>2, <1>5, <1>6
  <2>2. /\ SubSeq(u, 1, Len(stream)) \in Seq(Word) /\ Len(SubSeq(u, 1, Len(stream))) = Len(stream)
        /\ \A k \in 1 .. Len(stream) : SubSeq(u, 1, Len(stream))[k] = u[k]
    BY <2>1, Divided
  <2>3. stream = SubSeq(u, 1, Len(stream))
    BY <1>2, <1>6, <2>2, SameWords
  <2> QED
    BY <1>6, <1>7, <2>3 DEF u
<1>8. CASE ~cut /\ ~failed
  <2>1. /\ stream \o writing \in Seq(Word) /\ Len(stream \o writing) = Len(stream) + Len(writing)
        /\ \A i \in 1 .. Len(stream) : (stream \o writing)[i] = stream[i]
        /\ \A i \in 1 .. Len(writing) : (stream \o writing)[Len(stream) + i] = writing[i]
    BY <1>2, Joined
  <2>2. c + Len(stream) + Len(writing) = Len(words) /\ Len(u) = Len(words) - c
    BY <1>1, <1>5, <1>8
  <2>3. Len(u) = Len(stream) + Len(writing)
    BY <1>2, <2>2
  <2>4. ASSUME NEW k \in 1 .. Len(stream) + Len(writing) PROVE (stream \o writing)[k] = u[k]
    <3>1. CASE k <= Len(stream)
      <4>1. k \in 1 .. Len(stream)
        BY <1>2, <2>4, <3>1
      <4> QED
        BY <1>6, <2>1, <4>1
    <3>2. CASE ~(k <= Len(stream))
      <4> DEFINE i == k - Len(stream)
      <4>1. i \in 1 .. Len(writing) /\ k = Len(stream) + i /\ k \in 1 .. Len(words) - c
            /\ c + k = c + Len(stream) + i
        BY <1>2, <2>2, <2>3, <2>4, <3>2
      <4> HIDE DEF i
      <4>2. (stream \o writing)[k] = writing[i] /\ u[k] = words[c + k]
        BY <1>5, <2>1, <4>1
      <4> QED
        BY <1>1, <1>8, <4>1, <4>2
    <3> QED
      BY <3>1, <3>2
  <2>5. stream \o writing = u
    BY <1>5, <2>1, <2>3, <2>4, SameWords
  <2> QED
    BY <1>8, <2>5 DEF u
<1> QED
  BY <1>7, <1>8

\* Every error that is not broken leaves both ends on a frame boundary.
THEOREM EndsStayAligned == SocketSpec => []Aligned
BY AlignedByInv, FramingInvariance, PTL

\* A frame that was flushed is there to be read.
LEMMA FlushedByInv == FramingInv => FlushedIsReadable
<1> SUFFICES ASSUME FramingInv, ~cut, wstatus = "ok", rpc # "ended", Len(got) < Len(sent)
             PROVE  Wanted <= Len(stream)
    BY DEF FlushedIsReadable
<1>1. /\ ~failed /\ writing = <<>>
  BY DEF FramingInv, WriterInv
<1>2. Consumed + Len(stream) = Len(words)
  <2>1. Consumed + Len(stream) + Len(writing) = Len(words)
    BY <1>1 DEF FramingInv, StreamInv
  <2> QED
    BY <1>1, <2>1, Bounds
<1> DEFINE body == sent[Len(got) + 1].body
<1>3. Len(body) \in Nat /\ End(Len(got)) \in Nat /\ End(Len(got)) + 3 + Len(body) <= Len(words)
  <2>1. sent[Len(got) + 1] \in Items
    BY Bounds
  <2>2. Len(body) \in Nat
    BY <2>1, ItemType
  <2> QED
    BY <2>2, Bounds DEF HeaderSize
<1>4. rpc = "body" => header[3] = Len(body)
  BY DEF FramingInv, ReadingInv
<1> HIDE DEF body
<1>5. CASE rpc = "header"
  BY <1>2, <1>3, <1>5, Bounds DEF Consumed, Wanted, HeaderSize
<1>6. CASE rpc = "body"
  <2>1. Wanted = Len(body) /\ Consumed = End(Len(got)) + 3
    BY <1>4, <1>6 DEF Consumed, Wanted, HeaderSize
  <2> QED
    BY <1>2, <1>3, <2>1, Bounds
<1>7. CASE rpc = "start"
  BY <1>7, Bounds DEF Wanted
<1> QED
  BY <1>5, <1>6, <1>7 DEF FramingInv, FramesIntact, SocketTypeOK

\* A reader is never left waiting for the rest of a frame that was flushed.
THEOREM NoFrameIsHeldBack == SocketSpec => []FlushedIsReadable
BY FlushedByInv, FramingInvariance, PTL
=============================================================================
