------------------------------- MODULE Server -------------------------------
(***************************************************************************)
(* The server: the accept loop (server/server.go), one serve goroutine per *)
(* connection (server/conn.go) and the pool of buffers they share          *)
(* (server/pools.go).                                                      *)
(*                                                                         *)
(* A client sends numbered requests on each connection.  What a request is *)
(* decides what serve does with it:                                        *)
(*   call    a registered or unknown path; the handler returns (a value or *)
(*           an error, which both travel in an ordinary response)          *)
(*   bad     a body that is not a protocols.Request                        *)
(*   panic   the handler panics                                            *)
(*   huge    the handler's response is longer than 65535 bytes             *)
(*   junk    bytes without the magic number                                *)
(*   cut     a frame the client never completes                            *)
(* bufio.Readers and bufio.Writers are taken, reset and given back by the  *)
(* same code at the same places: one kind of buffer stands for both.       *)
(***************************************************************************)
EXTENDS Integers, Sequences, FiniteSets, SequencesExt

CONSTANTS
  Conns,         \* connections that clients may open
  Paths,         \* request paths
  Buffers,       \* bufio objects
  Nothing,       \* nil
  MaxRequests,   \* bound: MaxRequests[c] requests on connection c
  MaxDelay,      \* bound: a back-off of this length is not followed by another
  IdleTimeout, ReadTimeout, WriteTimeout  \* configured (not zero)?

ASSUME ServerAssumption ==
  /\ {IdleTimeout, ReadTimeout, WriteTimeout} \subseteq BOOLEAN
  /\ MaxRequests \in [Conns -> Nat] /\ MaxDelay \in Nat /\ Nothing \notin Conns \cup Buffers

\* sync.Pool makes a buffer when it has none: there is one for every connection.
ASSUME BuffersAssumption ==
  /\ IsFiniteSet(Conns) /\ IsFiniteSet(Buffers)
  /\ Cardinality(Conns) <= Cardinality(Buffers)

RequestKinds == {"call", "bad", "panic", "huge", "junk", "cut"}
Requests == [kind : RequestKinds, path : Paths]
AnswerKinds == {"rsp", "status"}
Answers == [req : Nat, kind : AnswerKinds]

VARIABLES
  accepting,     \* where Serve is: "accept", "sleep" or "returned"
  tempDelay,     \* Serve's local variable, in milliseconds
  handlers,      \* registered paths
  keepAlives,    \* DisableKeepAlives = 0
  alive,         \* the counter srv.alive.conns
  pc,            \* where the serve goroutine of each connection is
  sent, eof,     \* the client: requests sent, and whether it has closed
  taken,         \* requests serve has read
  answers,       \* answers written, oldest first
  status,        \* the answer serve is about to write
  late,          \* answers written since DisableKeepAlives was set
  buf,           \* the connection's buffer
  pooled,        \* buffers in the sync.Pool
  source         \* the connection each buffer is attached to

acceptVars == <<accepting, tempDelay>>
configVars == <<handlers, keepAlives>>
clientVars == <<sent, eof>>
bufVars == <<buf, pooled, source>>
workVars == <<taken, answers, status, late>>
vars == <<acceptVars, configVars, alive, pc, clientVars, workVars, bufVars>>

Steps == {"none", "start", "wait", "read", "handle", "write", "recover",
          "keep", "close", "dec", "ended"}

Init ==
  /\ accepting = "accept" /\ tempDelay = 0
  /\ handlers = {} /\ keepAlives = TRUE /\ alive = 0
  /\ pc = [c \in Conns |-> "none"]
  /\ sent = [c \in Conns |-> <<>>] /\ eof = [c \in Conns |-> FALSE]
  /\ taken = [c \in Conns |-> 0] /\ answers = [c \in Conns |-> <<>>]
  /\ status = [c \in Conns |-> "none"] /\ late = [c \in Conns |-> 0]
  /\ buf = [c \in Conns |-> Nothing]
  /\ pooled = {} /\ source = [b \in Buffers |-> Nothing]

Goto(c, from, to) == pc[c] = from /\ pc' = [pc EXCEPT ![c] = to]

-----------------------------------------------------------------------------
(* The accept loop and the configuration.                                  *)

Accept(c) ==
  /\ accepting = "accept" /\ Goto(c, "none", "start")
  /\ tempDelay' = 0 /\ alive' = alive + 1
  /\ UNCHANGED <<accepting, configVars, clientVars, workVars, bufVars>>

\* sleep's delay: 5 ms, doubled at every temporary failure, at most a second.
Backoff(delay) ==
  LET next == IF delay = 0 THEN 5 ELSE 2 * delay
  IN IF next > 1000 THEN 1000 ELSE next

AcceptFails(temporary) ==
  /\ accepting = "accept"
  /\ \/ /\ temporary /\ tempDelay < MaxDelay
        /\ accepting' = "sleep" /\ tempDelay' = Backoff(tempDelay)
     \/ ~temporary /\ accepting' = "returned" /\ tempDelay' = 0
  /\ UNCHANGED <<configVars, alive, pc, clientVars, workVars, bufVars>>

Wake ==
  /\ accepting = "sleep" /\ accepting' = "accept"
  /\ UNCHANGED <<tempDelay, configVars, alive, pc, clientVars, workVars, bufVars>>

HandleFunc(p) ==
  /\ p \notin handlers /\ handlers' = handlers \cup {p}
  /\ UNCHANGED <<acceptVars, keepAlives, alive, pc, clientVars, workVars, bufVars>>

\* Somebody stores 1 in DisableKeepAlives.
StopKeepAlives ==
  /\ keepAlives /\ keepAlives' = FALSE
  /\ UNCHANGED <<acceptVars, handlers, alive, pc, clientVars, workVars, bufVars>>

-----------------------------------------------------------------------------
(* The client's end.                                                       *)

\* A request, possibly before the previous one is answered; none follows a
\* frame that was never completed.
ClientSends(c) ==
  /\ ~eof[c] /\ Len(sent[c]) < MaxRequests[c]
  /\ \A i \in DOMAIN sent[c] : sent[c][i].kind # "cut"
  /\ \E r \in Requests : sent' = [sent EXCEPT ![c] = Append(@, r)]
  /\ UNCHANGED <<acceptVars, configVars, alive, pc, eof, workVars, bufVars>>

ClientCloses(c) ==
  /\ ~eof[c] /\ eof' = [eof EXCEPT ![c] = TRUE]
  /\ UNCHANGED <<acceptVars, configVars, alive, pc, sent, workVars, bufVars>>

-----------------------------------------------------------------------------
(* The serve goroutine.                                                    *)

\* getBufReader: a pooled buffer, or a new one (sync.Pool may always say no,
\* which covers a garbage collector that empties it).
Start(c) ==
  /\ Goto(c, "start", "wait")
  /\ \E b \in pooled \cup (Buffers \ Range(buf)) :
       /\ buf' = [buf EXCEPT ![c] = b]
       /\ pooled' = pooled \ {b}
       /\ source' = [source EXCEPT ![b] = c]
  /\ UNCHANGED <<acceptVars, configVars, alive, clientVars, workVars>>

More(c) == taken[c] < Len(sent[c])
Current(c) == sent[c][taken[c]]

\* Fault: waitNext tries again after an EOF.
WaitNextIgnoresEof(c) ==
  /\ More(c) /\ Goto(c, "wait", "read")
  /\ UNCHANGED <<acceptVars, configVars, alive, clientVars, workVars, bufVars>>

\* waitNext's Peek: bytes to read, or the client's EOF.
WaitNext(c) ==
  /\ \/ More(c) /\ Goto(c, "wait", "read")
     \/ eof[c] /\ ~More(c) /\ Goto(c, "wait", "close")
  /\ UNCHANGED <<acceptVars, configVars, alive, clientVars, workVars, bufVars>>

\* ReadSocket.  Bytes without the magic number are skipped.  An incomplete
\* frame blocks until the client closes.
ReadRequest(c) ==
  /\ pc[c] = "read"
  /\ \/ /\ sent[c][taken[c] + 1].kind \notin {"junk", "cut"}
        /\ Goto(c, "read", "handle")
     \/ sent[c][taken[c] + 1].kind = "junk" /\ Goto(c, "read", "wait")
     \/ sent[c][taken[c] + 1].kind = "cut" /\ eof[c] /\ Goto(c, "read", "close")
  /\ taken' = [taken EXCEPT ![c] = @ + 1]
  /\ UNCHANGED <<acceptVars, configVars, alive, clientVars, answers, status, late, bufVars>>

\* handleServe: the handler runs, or a status says why not.
Handle(c) ==
  LET r == Current(c)
      reaches == r.kind # "bad" /\ r.path \in handlers
  IN /\ Goto(c, "handle", IF reaches /\ r.kind = "panic" THEN "recover" ELSE "write")
     /\ status' = [status EXCEPT ![c] =
          IF ~reaches \/ r.kind = "panic" THEN "status"
          ELSE IF r.kind = "huge" THEN "none" ELSE "rsp"]
     /\ UNCHANGED <<acceptVars, configVars, alive, clientVars, taken, answers, late, bufVars>>

\* WriteSocket of an answer; it refuses one that is too long, and the request
\* stays without an answer.
Deliver(c) ==
  IF status[c] = "none" THEN UNCHANGED <<answers, late>>
  ELSE /\ answers' = [answers EXCEPT ![c] =
                        Append(@, [req |-> taken[c], kind |-> status[c]])]
       /\ late' = IF keepAlives THEN late ELSE [late EXCEPT ![c] = @ + 1]

\* Fault: serve goes on after a write that failed.
WriteAnswerIgnoresError(c) ==
  /\ Goto(c, "write", "keep")
  /\ \/ Deliver(c)
     \/ eof[c] /\ UNCHANGED <<answers, late>>
  /\ status' = [status EXCEPT ![c] = "none"]
  /\ UNCHANGED <<acceptVars, configVars, alive, clientVars, taken, bufVars>>

\* The write fails when the client is gone.
WriteAnswer(c) ==
  /\ \/ Goto(c, "write", "keep") /\ Deliver(c)
     \/ /\ status[c] # "none" /\ eof[c]
        /\ Goto(c, "write", "close") /\ UNCHANGED <<answers, late>>
  /\ status' = [status EXCEPT ![c] = "none"]
  /\ UNCHANGED <<acceptVars, configVars, alive, clientVars, taken, bufVars>>

\* A deadline passes.  For waitNext it is IdleTimeout, or ReadTimeout if that is
\* zero; ReadSocket may meet ReadTimeout half way through a frame; WriteTimeout
\* is set before the handler runs and includes its time.
TimeOut(c) ==
  /\ \/ /\ IdleTimeout \/ ReadTimeout
        /\ Goto(c, "wait", "close") /\ UNCHANGED taken
     \/ /\ ReadTimeout /\ Goto(c, "read", "close")
        /\ taken' = [taken EXCEPT ![c] = @ + 1]
     \/ /\ WriteTimeout /\ status[c] # "none"
        /\ Goto(c, "write", "close") /\ UNCHANGED taken
  /\ status' = [status EXCEPT ![c] = "none"]
  /\ UNCHANGED <<acceptVars, configVars, alive, clientVars, answers, late, bufVars>>

\* Fault: the panic ends the goroutine without the other deferred calls.
RecoverEnds(c) ==
  /\ Goto(c, "recover", "ended")
  /\ Deliver(c) \/ UNCHANGED <<answers, late>>
  /\ status' = [status EXCEPT ![c] = "none"]
  /\ UNCHANGED <<acceptVars, configVars, alive, clientVars, taken, bufVars>>

\* The deferred recover: a 500 with the stack, which may not fit or may not
\* arrive; the goroutine ends either way.
Recover(c) ==
  /\ Goto(c, "recover", "close")
  /\ Deliver(c) \/ UNCHANGED <<answers, late>>
  /\ status' = [status EXCEPT ![c] = "none"]
  /\ UNCHANGED <<acceptVars, configVars, alive, clientVars, taken, bufVars>>

\* Fault: DisableKeepAlives is not looked at again after the first answer.
KeepAliveOnce(c) ==
  /\ Goto(c, "keep", IF keepAlives \/ Len(answers[c]) > 1 THEN "wait" ELSE "close")
  /\ UNCHANGED <<acceptVars, configVars, alive, clientVars, workVars, bufVars>>

\* doKeepAlives, after an answer and nowhere else.
KeepAlive(c) ==
  /\ Goto(c, "keep", IF keepAlives THEN "wait" ELSE "close")
  /\ UNCHANGED <<acceptVars, configVars, alive, clientVars, workVars, bufVars>>

\* Fault: the buffer is not reset.
CloseKeepsSource(c) ==
  /\ Goto(c, "close", "dec")
  /\ pooled' = pooled \cup {buf[c]}
  /\ buf' = [buf EXCEPT ![c] = Nothing]
  /\ UNCHANGED <<acceptVars, configVars, alive, clientVars, workVars, source>>

\* Close, deferred: the buffer is reset and goes back to the pool.
Close(c) ==
  /\ Goto(c, "close", "dec")
  /\ pooled' = pooled \cup {buf[c]}
  /\ source' = [source EXCEPT ![buf[c]] = Nothing]
  /\ buf' = [buf EXCEPT ![c] = Nothing]
  /\ UNCHANGED <<acceptVars, configVars, alive, clientVars, workVars>>

\* connsHist.Dec, deferred first and so run last.
Decrement(c) ==
  /\ Goto(c, "dec", "ended")
  /\ alive' = alive - 1
  /\ UNCHANGED <<acceptVars, configVars, clientVars, workVars, bufVars>>

Serve(c) ==
  \/ Start(c) \/ WaitNext(c) \/ ReadRequest(c) \/ Handle(c) \/ WriteAnswer(c)
  \/ Recover(c) \/ KeepAlive(c) \/ Close(c) \/ Decrement(c)

Next ==
  \/ \E c \in Conns : Accept(c) \/ ClientSends(c) \/ ClientCloses(c) \/ Serve(c) \/ TimeOut(c)
  \/ \E temporary \in BOOLEAN : AcceptFails(temporary)
  \/ Wake \/ StopKeepAlives
  \/ \E p \in Paths : HandleFunc(p)

Spec == Init /\ [][Next]_vars
-----------------------------------------------------------------------------
\* Every variable holds a value of its Go type; the back-off stays in its range.
TypeOK ==
  /\ accepting \in {"accept", "sleep", "returned"}
  /\ tempDelay \in {0, 5, 10, 20, 40, 80, 160, 320, 640, 1000}
  /\ accepting = "sleep" => tempDelay # 0
  /\ handlers \subseteq Paths /\ keepAlives \in BOOLEAN
  /\ alive \in Int
  /\ pc \in [Conns -> Steps]
  /\ sent \in [Conns -> Seq(Requests)] /\ eof \in [Conns -> BOOLEAN]
  /\ taken \in [Conns -> Nat] /\ late \in [Conns -> Nat]
  /\ answers \in [Conns -> Seq(Answers)]
  /\ status \in [Conns -> AnswerKinds \cup {"none"}]
  /\ buf \in [Conns -> Buffers \cup {Nothing}]
  /\ pooled \subseteq Buffers /\ source \in [Buffers -> Conns \cup {Nothing}]

\* The requests of c that serve has finished with, or will answer next.
Settled(c) == IF pc[c] \in {"handle", "write", "recover"} THEN taken[c] - 1 ELSE taken[c]

\* Request i is never answered: it has no magic number, or its handler is
\* known and its response does not fit a frame.
Silent(c, i) ==
  \/ sent[c][i].kind = "junk"
  \/ sent[c][i].kind = "huge" /\ sent[c][i].path \in handlers

\* Answers leave in the order of the requests, one each, and serve never goes
\* on to the next request without answering this one: the client, which takes
\* the next frame for its answer, depends on it.  The only requests passed
\* over are junk and those whose response is too long (conn.go:149-182).
AnsweredInOrder ==
  \A c \in Conns :
    /\ \A i, j \in DOMAIN answers[c] : i < j => answers[c][i].req < answers[c][j].req
    /\ pc[c] \in {"wait", "read", "handle", "write", "keep"} =>
         \A i \in 1 .. Settled(c) :
           Silent(c, i) \/ \E n \in DOMAIN answers[c] : answers[c][n].req = i

\* srv.alive.conns counts the connections accepted and not yet ended, however
\* they end: EOF, timeout, broken write, panic or keep-alives off.
AliveIsExact ==
  alive = Cardinality({c \in Conns : pc[c] \notin {"none", "ended"}})

\* No two live connections share a buffer, a live buffer is attached to its own
\* connection, and a pooled one to none: no request is read from the bytes of
\* another connection and no answer written to another's socket.
BuffersArePrivate ==
  /\ \A c, d \in Conns : buf[c] = buf[d] /\ buf[c] # Nothing => c = d
  /\ \A c \in Conns : buf[c] # Nothing => source[buf[c]] = c /\ buf[c] \notin pooled
  /\ \A b \in pooled : source[b] = Nothing

\* DisableKeepAlives is read after an answer only, by each connection in its own
\* time: a connection that is waiting stays, and one that slips past junk is not
\* asked.  Still, whatever the clients have already sent, no connection answers
\* more than once after it is set, and that answer is its last (server.go:145).
OneMoreAnswer ==
  \A c \in Conns :
    late[c] > 0 => late[c] = 1 /\ pc[c] \in {"keep", "close", "dec", "ended"}

\* serve waits for no client: it has a buffer to take, bytes or an EOF to read.
Ready(c) ==
  \/ pc[c] = "start" /\ pooled \cup (Buffers \ Range(buf)) # {}
  \/ pc[c] = "wait" /\ (More(c) \/ eof[c])
  \/ pc[c] = "read" /\ More(c) /\ (sent[c][taken[c] + 1].kind = "cut" => eof[c])
  \/ pc[c] = "handle" /\ taken[c] \in DOMAIN sent[c]
  \/ pc[c] \in {"write", "recover", "keep", "close", "dec"}

\* When a client goes away its goroutine can end, whatever was in progress and
\* without the help of a timeout: serve always has a step to take
\* (conn.go:115-189).
GoneClientsEnd ==
  \A c \in Conns : eof[c] /\ pc[c] \notin {"none", "ended"} => Ready(c) /\ ENABLED Serve(c)

\* How far a connection is from the end of its last deferred function.
Rank == [none |-> 9, start |-> 8, handle |-> 7, write |-> 6, recover |-> 6, keep |-> 5,
         wait |-> 4, read |-> 3, close |-> 2, dec |-> 1, ended |-> 0]
StepsLeft(c) == 5 * (Len(sent[c]) - taken[c]) + Rank[pc[c]]

\* And it does end: each turn of its loop uses up a request, and there are no more
\* to come, so every step brings it nearer to its end (conn.go:115-189).
NearerTheEnd ==
  [][\A c \in Conns : eof[c] =>
       /\ eof'[c] /\ 0 <= StepsLeft(c)' /\ StepsLeft(c)' <= StepsLeft(c)
       /\ pc'[c] # pc[c] => StepsLeft(c)' < StepsLeft(c)]_vars
=============================================================================
