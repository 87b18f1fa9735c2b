---------------------------- MODULE ServerProofs ----------------------------
(***************************************************************************)
(* Server, for any set of connections, buffers and paths, any number of    *)
(* requests and any configuration of the timeouts: the types, the counter  *)
(* of live connections, who holds which buffer, how many answers follow    *)
(* DisableKeepAlives, and the order of the answers.                        *)
(*                                                                         *)
(* Each has its own invariant over the types: BufInv and AliveInv say at   *)
(* which steps serve holds a buffer and is counted, LateInv where a        *)
(* connection with a late answer can still be, and OrderInv relates what a *)
(* connection has taken, settled and answered.                             *)
(***************************************************************************)
EXTENDS Server, FiniteSetTheorems, TLAPS

\* serve has a buffer from its start to its deferred Close.
Holds == {"wait", "read", "handle", "write", "recover", "keep", "close"}

\* The buffers' invariant: TypeOK alone does not say that Close gives back a
\* buffer.
BufInv ==
  /\ TypeOK
  /\ \A c \in Conns : pc[c] \in Holds => buf[c] \in Buffers

-----------------------------------------------------------------------------
(* Type correctness.                                                       *)

\* Initially every variable is of its type.
LEMMA InitTyped == Init => BufInv
<1> SUFFICES ASSUME Init PROVE BufInv
    OBVIOUS
<1>1. sent \in [Conns -> Seq(Requests)]
  <2>1. <<>> \in Seq(Requests)
    OBVIOUS
  <2> QED
    BY <2>1, Zenon DEF Init
<1>2. answers \in [Conns -> Seq(Answers)]
  <2>1. <<>> \in Seq(Answers)
    OBVIOUS
  <2> QED
    BY <2>1, Zenon DEF Init
<1> QED
  BY <1>1, <1>2 DEF Init, BufInv, TypeOK, Steps, AnswerKinds, Holds

\* An answer keeps the types.
LEMMA DeliverTyped ==
  ASSUME TypeOK, NEW c \in Conns, Deliver(c)
  PROVE  /\ answers' \in [Conns -> Seq(Answers)]
         /\ late' \in [Conns -> Nat]
<1>1. CASE status[c] = "none"
  BY <1>1 DEF TypeOK, Deliver
<1>2. CASE status[c] # "none"
  <2>1. [req |-> taken[c], kind |-> status[c]] \in Answers
    BY <1>2 DEF TypeOK, Answers
  <2>2. Append(answers[c], [req |-> taken[c], kind |-> status[c]])
          \in Seq(Answers)
    BY <2>1 DEF TypeOK
  <2>3. answers' = [answers EXCEPT ![c] = Append(@, [req |-> taken[c], kind |-> status[c]])]
    BY <1>2 DEF Deliver
  <2>4. late' = IF keepAlives THEN late ELSE [late EXCEPT ![c] = @ + 1]
    BY <1>2 DEF Deliver
  <2>5. answers' \in [Conns -> Seq(Answers)]
    BY <2>2, <2>3 DEF TypeOK
  <2>6. late' \in [Conns -> Nat]
    BY <2>4 DEF TypeOK
  <2> QED
    BY <2>5, <2>6
<1> QED
  BY <1>1, <1>2

\* A step of serve between two places where it has a buffer.
LEMMA MoveTyped ==
  ASSUME BufInv, NEW c \in Conns, NEW from \in Holds, NEW to \in Holds,
         Goto(c, from, to), UNCHANGED bufVars
  PROVE  /\ pc' \in [Conns -> Steps]
         /\ \A d \in Conns : pc'[d] \in Holds => buf'[d] \in Buffers
  BY DEF BufInv, TypeOK, Goto, Steps, Holds, bufVars

\* Every step keeps the types, and every serve goroutine its buffer.
LEMMA StepTyped == BufInv /\ [Next]_vars => BufInv'
<1> SUFFICES ASSUME BufInv, [Next]_vars PROVE BufInv'
    OBVIOUS
<1>0. TypeOK /\ \A c \in Conns : pc[c] \in Holds => buf[c] \in Buffers
  BY DEF BufInv
<1>1. ASSUME NEW c \in Conns, Accept(c) PROVE BufInv'
  BY <1>0, <1>1 DEF BufInv, TypeOK, Accept, Goto, configVars, clientVars, workVars, bufVars, Steps, Holds
<1>2. ASSUME NEW c \in Conns, ClientSends(c) PROVE BufInv'
  <2>1. PICK r \in Requests : sent' = [sent EXCEPT ![c] = Append(@, r)]
    BY <1>2 DEF ClientSends
  <2>2. sent' \in [Conns -> Seq(Requests)]
    BY <1>0, <2>1 DEF TypeOK
  <2> QED
    BY <1>0, <1>2, <2>2 DEF BufInv, TypeOK, ClientSends, acceptVars, configVars, workVars, bufVars
<1>3. ASSUME NEW c \in Conns, ClientCloses(c) PROVE BufInv'
  BY <1>0, <1>3 DEF BufInv, TypeOK, ClientCloses, acceptVars, configVars, workVars, bufVars
<1>4. ASSUME NEW c \in Conns, Start(c) PROVE BufInv'
  <2>1. PICK b \in pooled \cup (Buffers \ Range(buf)) :
          /\ buf' = [buf EXCEPT ![c] = b]
          /\ pooled' = pooled \ {b}
          /\ source' = [source EXCEPT ![b] = c]
    BY <1>4 DEF Start
  <2>2. b \in Buffers
    BY <1>0, <2>1 DEF TypeOK
  <2> QED
    BY <1>0, <1>4, <2>1, <2>2 DEF BufInv, TypeOK, Start, Goto, acceptVars, configVars, clientVars, workVars, Steps, Holds
<1>5. ASSUME NEW c \in Conns, WaitNext(c) PROVE BufInv'
  <2>1. \E to \in {"read", "close"} : Goto(c, "wait", to)
    BY <1>5 DEF WaitNext
  <2>2. UNCHANGED <<acceptVars, configVars, alive, clientVars, workVars, bufVars>>
    BY <1>5 DEF WaitNext
  <2>3. /\ pc' \in [Conns -> Steps]
        /\ \A d \in Conns : pc'[d] \in Holds => buf'[d] \in Buffers
    BY <2>1, <2>2, MoveTyped DEF Holds
  <2> QED
    BY <1>0, <2>2, <2>3 DEF BufInv, TypeOK, acceptVars, configVars, clientVars, workVars, bufVars
<1>6. ASSUME NEW c \in Conns, ReadRequest(c) PROVE BufInv'
  <2>1. \E to \in {"handle", "wait", "close"} : Goto(c, "read", to)
    BY <1>6 DEF ReadRequest
  <2>2. UNCHANGED <<acceptVars, configVars, alive, clientVars, answers, status, late, bufVars>>
    BY <1>6 DEF ReadRequest
  <2>3. /\ pc' \in [Conns -> Steps]
        /\ \A d \in Conns : pc'[d] \in Holds => buf'[d] \in Buffers
    BY <2>1, <2>2, MoveTyped DEF Holds
  <2>4. taken' \in [Conns -> Nat]
    BY <1>0, <1>6 DEF TypeOK, ReadRequest
  <2> QED
    BY <1>0, <2>2, <2>3, <2>4 DEF BufInv, TypeOK, acceptVars, configVars, clientVars, bufVars
<1>7. ASSUME NEW c \in Conns, Handle(c) PROVE BufInv'
  BY <1>0, <1>7 DEF BufInv, TypeOK, Handle, Goto, acceptVars, configVars, clientVars, bufVars, Steps, Holds, AnswerKinds
<1>8. ASSUME NEW c \in Conns, WriteAnswer(c) \/ Recover(c) PROVE BufInv'
  <2>1. UNCHANGED <<acceptVars, configVars, alive, clientVars, taken, bufVars>>
    BY <1>8 DEF WriteAnswer, Recover
  <2>2. Deliver(c) \/ UNCHANGED <<answers, late>>
    BY <1>8 DEF WriteAnswer, Recover
  <2>3. /\ answers' \in [Conns -> Seq(Answers)]
        /\ late' \in [Conns -> Nat]
    <3>1. answers \in [Conns -> Seq(Answers)] /\ late \in [Conns -> Nat]
      BY <1>0 DEF TypeOK
    <3> QED
      BY <1>0, <2>2, <3>1, DeliverTyped
  <2>4. \E from \in {"write", "recover"}, to \in {"keep", "close"} : Goto(c, from, to)
    BY <1>8 DEF WriteAnswer, Recover
  <2>5. /\ pc' \in [Conns -> Steps]
        /\ \A d \in Conns : pc'[d] \in Holds => buf'[d] \in Buffers
    BY <2>1, <2>4, MoveTyped DEF Holds
  <2>6. status' = [status EXCEPT ![c] = "none"]
    BY <1>8 DEF WriteAnswer, Recover
  <2> QED
    BY <1>0, <2>1, <2>3, <2>5, <2>6 DEF BufInv, TypeOK, acceptVars, configVars, clientVars, bufVars
<1>9. ASSUME NEW c \in Conns, TimeOut(c) PROVE BufInv'
  <2>1. UNCHANGED <<acceptVars, configVars, alive, clientVars, answers, late, bufVars>>
    BY <1>9 DEF TimeOut
  <2>2. \E from \in {"wait", "read", "write"} : Goto(c, from, "close")
    BY <1>9 DEF TimeOut
  <2>3. /\ pc' \in [Conns -> Steps]
        /\ \A d \in Conns : pc'[d] \in Holds => buf'[d] \in Buffers
    BY <2>1, <2>2, MoveTyped DEF Holds
  <2>4. taken' \in [Conns -> Nat]
    BY <1>0, <1>9 DEF TypeOK, TimeOut
  <2>5. status' = [status EXCEPT ![c] = "none"]
    BY <1>9 DEF TimeOut
  <2> QED
    BY <1>0, <2>1, <2>3, <2>4, <2>5 DEF BufInv, TypeOK, acceptVars, configVars, clientVars, bufVars
<1>10. ASSUME NEW c \in Conns, KeepAlive(c) PROVE BufInv'
  BY <1>0, <1>10 DEF BufInv, TypeOK, KeepAlive, Goto, acceptVars, configVars, clientVars, workVars, bufVars, Steps, Holds
<1>11. ASSUME NEW c \in Conns, Close(c) PROVE BufInv'
  BY <1>0, <1>11 DEF BufInv, TypeOK, Close, Goto, acceptVars, configVars, clientVars, workVars, Steps, Holds
<1>12. ASSUME NEW c \in Conns, Decrement(c) PROVE BufInv'
  BY <1>0, <1>12 DEF BufInv, TypeOK, Decrement, Goto, acceptVars, configVars, clientVars, workVars, bufVars, Steps, Holds
<1>13. ASSUME NEW temporary \in BOOLEAN, AcceptFails(temporary) PROVE BufInv'
  <2>1. UNCHANGED <<configVars, alive, pc, clientVars, workVars, bufVars>>
    BY <1>13 DEF AcceptFails
  <2>2. /\ accepting' \in {"accept", "sleep", "returned"}
        /\ tempDelay' \in {0, 5, 10, 20, 40, 80, 160, 320, 640, 1000}
        /\ accepting' = "sleep" => tempDelay' # 0
    <3>1. Backoff(tempDelay) \in {5, 10, 20, 40, 80, 160, 320, 640, 1000}
      BY <1>0 DEF TypeOK, Backoff
    <3> QED
      BY <1>13, <3>1 DEF AcceptFails
  <2> QED
    BY <1>0, <2>1, <2>2 DEF BufInv, TypeOK, configVars, clientVars, workVars, bufVars
<1>14. ASSUME Wake PROVE BufInv'
  BY <1>0, <1>14 DEF BufInv, TypeOK, Wake, configVars, clientVars, workVars, bufVars
<1>15. ASSUME StopKeepAlives PROVE BufInv'
  <2>1. keepAlives' \in BOOLEAN
    BY <1>15 DEF StopKeepAlives
  <2>2. UNCHANGED <<acceptVars, handlers, alive, pc, clientVars, workVars, bufVars>>
    BY <1>15 DEF StopKeepAlives
  <2> QED
    BY <1>0, <2>1, <2>2 DEF BufInv, TypeOK, acceptVars, clientVars, workVars, bufVars
<1>16. ASSUME NEW p \in Paths, HandleFunc(p) PROVE BufInv'
  BY <1>0, <1>16 DEF BufInv, TypeOK, HandleFunc, acceptVars, clientVars, workVars, bufVars
<1>17. CASE UNCHANGED vars
  BY <1>0, <1>17 DEF BufInv, TypeOK, vars, acceptVars, configVars, clientVars, workVars, bufVars
<1> QED
  BY <1>1, <1>2, <1>3, <1>4, <1>5, <1>6, <1>7, <1>8, <1>9, <1>10, <1>11, <1>12, <1>13,
     <1>14, <1>15, <1>16, <1>17 DEF Next, Serve

\* Every variable of the server keeps its type and the back-off its range, for
\* any configuration of the timeouts.
THEOREM TypeCorrect == Spec => []TypeOK
<1>1. BufInv => TypeOK
  BY DEF BufInv
<1> QED
  BY InitTyped, StepTyped, <1>1, PTL DEF Spec

-----------------------------------------------------------------------------
(* The counter of live connections.                                        *)

Live == {c \in Conns : pc[c] \notin {"none", "ended"}}

\* The inductive invariant: the counter is exact and, whatever Conns is, only
\* finitely many connections are live.
AliveInv == TypeOK /\ AliveIsExact /\ IsFiniteSet(Live)

\* Accept adds one connection, the last deferred call takes it away, and no
\* other step takes a connection in or out of the live ones.
LEMMA StepCounts == AliveInv /\ TypeOK' /\ [Next]_vars => AliveInv'
<1> SUFFICES ASSUME AliveInv, TypeOK', [Next]_vars PROVE AliveInv'
    OBVIOUS
<1>0. /\ pc \in [Conns -> Steps] /\ alive \in Int
      /\ alive = Cardinality(Live) /\ IsFiniteSet(Live)
  BY DEF AliveInv, TypeOK, AliveIsExact, Live
<1>1. ASSUME NEW c \in Conns, Accept(c) PROVE AliveInv'
  <2>1. Live' = Live \cup {c} /\ c \notin Live /\ alive' = alive + 1
    BY <1>0, <1>1 DEF Accept, Goto, Live
  <2>2. IsFiniteSet(Live') /\ Cardinality(Live') = alive'
    BY <1>0, <2>1, FS_AddElement
  <2> QED
    BY <2>2 DEF AliveInv, AliveIsExact, Live
<1>2. ASSUME NEW c \in Conns, Decrement(c) PROVE AliveInv'
  <2>1. Live' = Live \ {c} /\ c \in Live /\ alive' = alive - 1
    BY <1>0, <1>2 DEF Decrement, Goto, Live
  <2>2. IsFiniteSet(Live') /\ Cardinality(Live') = alive'
    BY <1>0, <2>1, FS_RemoveElement
  <2> QED
    BY <2>2 DEF AliveInv, AliveIsExact, Live
<1>3. ASSUME Live' = Live, alive' = alive PROVE AliveInv'
  BY <1>0, <1>3 DEF AliveInv, AliveIsExact, Live
<1>4. ASSUME NEW c \in Conns, NEW from \in Holds \cup {"start"},
             NEW to \in Holds \cup {"dec"}, Goto(c, from, to)
      PROVE  Live' = Live
  BY <1>0, <1>4 DEF Goto, Live, Holds
<1>5. ASSUME NEW c \in Conns,
             \/ Start(c) \/ WaitNext(c) \/ ReadRequest(c) \/ Handle(c) \/ WriteAnswer(c)
             \/ Recover(c) \/ KeepAlive(c) \/ Close(c) \/ TimeOut(c)
      PROVE  AliveInv'
  <2>1. alive' = alive
    BY <1>5 DEF Start, WaitNext, ReadRequest, Handle, WriteAnswer, Recover, KeepAlive, Close, TimeOut
  <2>2. \E from \in Holds \cup {"start"}, to \in Holds \cup {"dec"} : Goto(c, from, to)
    BY <1>5 DEF Start, WaitNext, ReadRequest, Handle, WriteAnswer, Recover, KeepAlive, Close, TimeOut, Holds
  <2> QED
    BY <1>3, <1>4, <2>1, <2>2
<1>6. CASE \/ \E c \in Conns : ClientSends(c) \/ ClientCloses(c)
           \/ \E temporary \in BOOLEAN : AcceptFails(temporary)
           \/ Wake \/ StopKeepAlives \/ (\E p \in Paths : HandleFunc(p)) \/ UNCHANGED vars
  <2>1. pc' = pc /\ alive' = alive
    BY <1>6 DEF ClientSends, ClientCloses, AcceptFails, Wake, StopKeepAlives, HandleFunc, vars
  <2> QED
    BY <1>3, <2>1 DEF Live
<1> QED
  BY <1>1, <1>2, <1>5, <1>6 DEF Next, Serve

\* The counter is the number of accepted connections that have not ended, on
\* every path through serve and for any number of connections.
THEOREM CounterIsExact == Spec => []AliveIsExact
<1>1. Init => AliveInv
  <2>1. ASSUME Init PROVE AliveInv
    <3>1. TypeOK
      BY <2>1, InitTyped DEF BufInv
    <3>2. Live = {} /\ alive = 0
      BY <2>1 DEF Init, Live
    <3> QED
      BY <3>1, <3>2, FS_EmptySet DEF AliveInv, AliveIsExact, Live
  <2> QED
    BY <2>1
<1>2. AliveInv => AliveIsExact
  BY DEF AliveInv
<1> QED
  BY <1>1, <1>2, StepCounts, TypeCorrect, PTL DEF Spec

-----------------------------------------------------------------------------
(* The buffers.                                                            *)

\* Start takes a buffer nobody holds, Close detaches the one it gives back, and
\* no other step touches them.
LEMMA StepKeepsPrivate == BufInv /\ BuffersArePrivate /\ [Next]_vars => BuffersArePrivate'
<1> SUFFICES ASSUME BufInv, BuffersArePrivate, [Next]_vars PROVE BuffersArePrivate'
    OBVIOUS
<1>0. /\ buf \in [Conns -> Buffers \cup {Nothing}] /\ pooled \subseteq Buffers
      /\ source \in [Buffers -> Conns \cup {Nothing}]
      /\ \A c \in Conns : pc[c] \in Holds => buf[c] \in Buffers
      /\ Nothing \notin Conns \cup Buffers
  BY ServerAssumption DEF BufInv, TypeOK
<1>1. ASSUME NEW c \in Conns, Start(c) PROVE BuffersArePrivate'
  <2>1. PICK b \in pooled \cup (Buffers \ Range(buf)) :
          /\ buf' = [buf EXCEPT ![c] = b]
          /\ pooled' = pooled \ {b}
          /\ source' = [source EXCEPT ![b] = c]
    BY <1>1 DEF Start
  <2>2. b \in Buffers /\ \A d \in Conns : buf[d] # b
    BY <1>0, <2>1 DEF BuffersArePrivate, Range
  <2> QED
    BY <1>0, <2>1, <2>2 DEF BuffersArePrivate
<1>2. ASSUME NEW c \in Conns, Close(c) PROVE BuffersArePrivate'
  <2>1. buf[c] \in Buffers
    BY <1>0, <1>2 DEF Close, Goto, Holds
  <2> QED
    BY <1>0, <1>2, <2>1 DEF BuffersArePrivate, Close
<1>3. ASSUME UNCHANGED bufVars PROVE BuffersArePrivate'
  BY <1>3 DEF BuffersArePrivate, bufVars
<1>4. ASSUME NEW c \in Conns,
             \/ Accept(c) \/ ClientSends(c) \/ ClientCloses(c) \/ WaitNext(c) \/ ReadRequest(c)
             \/ Handle(c) \/ WriteAnswer(c) \/ Recover(c) \/ KeepAlive(c) \/ TimeOut(c)
             \/ Decrement(c)
      PROVE  UNCHANGED bufVars
  BY <1>4 DEF Accept, ClientSends, ClientCloses, WaitNext, ReadRequest, Handle, WriteAnswer,
              Recover, KeepAlive, TimeOut, Decrement, bufVars
<1>5. CASE \/ \E temporary \in BOOLEAN : AcceptFails(temporary)
           \/ Wake \/ StopKeepAlives \/ (\E p \in Paths : HandleFunc(p)) \/ UNCHANGED vars
  BY <1>3, <1>5 DEF AcceptFails, Wake, StopKeepAlives, HandleFunc, vars, bufVars
<1> QED
  BY <1>1, <1>2, <1>3, <1>4, <1>5 DEF Next, Serve

\* No two connections ever share a buffer and none finds another's bytes in
\* one, for any number of connections and whatever the pool hands out.
THEOREM BuffersStayPrivate == Spec => []BuffersArePrivate
<1>1. Init => BuffersArePrivate
  BY ServerAssumption DEF Init, BuffersArePrivate
<1> QED
  BY <1>1, InitTyped, StepTyped, StepKeepsPrivate, PTL DEF Spec

-----------------------------------------------------------------------------
(* Keep-alives.                                                            *)

\* The inductive invariant adds that answers are late only once keep-alives
\* are off, so that KeepAlive cannot send a late connection back to wait.
LateInv == OneMoreAnswer /\ \A c \in Conns : late[c] > 0 => ~keepAlives

\* A connection answers from where nothing is late, and goes on to keep or
\* close, which leave only for the end.
LEMMA StepKeepsLate == TypeOK /\ LateInv /\ [Next]_vars => LateInv'
<1> SUFFICES ASSUME TypeOK, LateInv, [Next]_vars PROVE LateInv'
    OBVIOUS
<1> DEFINE Final == {"keep", "close", "dec", "ended"}
           At(c) == /\ late[c] > 0 => late[c] = 1 /\ pc[c] \in Final /\ ~keepAlives
<1>0. /\ pc \in [Conns -> Steps] /\ late \in [Conns -> Nat]
      /\ \A c \in Conns : At(c)
  BY DEF TypeOK, LateInv, OneMoreAnswer
<1>00. (\A c \in Conns : At(c)') => LateInv'
  BY DEF LateInv, OneMoreAnswer
<1> HIDE DEF LateInv
<1>1. ASSUME late' = late, keepAlives' \in {keepAlives, FALSE}, pc' = pc PROVE LateInv'
  BY <1>0, <1>00, <1>1
<1>2. ASSUME NEW c \in Conns, late' = late, keepAlives' = keepAlives, NEW from, NEW to \in Steps,
             Goto(c, from, to), from \in Final => to \in Final
      PROVE  LateInv'
  BY <1>0, <1>00, <1>2 DEF Goto
<1>3. ASSUME NEW c \in Conns, WriteAnswer(c) \/ Recover(c) PROVE LateInv'
  <2>1. keepAlives' = keepAlives
    BY <1>3 DEF WriteAnswer, Recover, configVars
  <2>2. late' = late \/ (late' = [late EXCEPT ![c] = @ + 1] /\ ~keepAlives)
    BY <1>3 DEF WriteAnswer, Recover, Deliver
  <2>3. \E from \in {"write", "recover"}, to \in {"keep", "close"} : Goto(c, from, to)
    BY <1>3 DEF WriteAnswer, Recover
  <2>4. late[c] = 0
    BY <1>0, <2>3 DEF Goto
  <2> QED
    BY <1>0, <1>00, <2>1, <2>2, <2>3, <2>4 DEF Goto
<1>4. ASSUME NEW c \in Conns, KeepAlive(c) PROVE LateInv'
  BY <1>0, <1>00, <1>4 DEF KeepAlive, Goto, configVars, workVars
<1>5. ASSUME NEW c \in Conns,
             \/ Accept(c) \/ Start(c) \/ WaitNext(c) \/ ReadRequest(c) \/ Handle(c) \/ TimeOut(c)
             \/ Close(c) \/ Decrement(c)
      PROVE  LateInv'
  <2>1. late' = late /\ keepAlives' = keepAlives
    BY <1>5 DEF Accept, Start, WaitNext, ReadRequest, Handle, TimeOut, Close, Decrement,
                configVars, workVars
  <2>2. \/ \E from \in Steps \ Final, to \in Steps : Goto(c, from, to)
        \/ \E from \in Final, to \in Final : Goto(c, from, to)
    BY <1>5 DEF Accept, Start, WaitNext, ReadRequest, Handle, TimeOut, Close, Decrement, Steps
  <2> QED
    BY <1>2, <2>1, <2>2 DEF Steps
<1>6. ASSUME NEW c \in Conns, ClientSends(c) \/ ClientCloses(c) PROVE LateInv'
  BY <1>1, <1>6 DEF ClientSends, ClientCloses, configVars, workVars
<1>7. CASE \/ \E temporary \in BOOLEAN : AcceptFails(temporary)
           \/ Wake \/ StopKeepAlives \/ (\E p \in Paths : HandleFunc(p)) \/ UNCHANGED vars
  <2>1. late' = late /\ keepAlives' \in {keepAlives, FALSE} /\ pc' = pc
    BY <1>7 DEF AcceptFails, Wake, StopKeepAlives, HandleFunc, vars, configVars, workVars
  <2> QED
    BY <1>1, <2>1
<1> QED
  BY <1>3, <1>4, <1>5, <1>6, <1>7 DEF Next, Serve

\* After DisableKeepAlives is set no connection answers more than once, and
\* none goes back to wait after that answer.
THEOREM OneAnswerIsLast == Spec => []OneMoreAnswer
<1>1. Init => LateInv
  BY DEF Init, LateInv, OneMoreAnswer
<1>2. LateInv => OneMoreAnswer
  BY DEF LateInv
<1> QED
  BY <1>1, <1>2, StepKeepsLate, TypeCorrect, PTL DEF Spec

-----------------------------------------------------------------------------
(* The order of the answers.                                               *)

\* serve is at work on the request it has taken last.
Busy == {"handle", "write", "recover"}

\* What serve has taken, the client has sent; before it begins it has taken
\* nothing, and it is at work on something.
Bounds(c) ==
  /\ taken[c] <= Len(sent[c])
  /\ pc[c] = "read" => taken[c] < Len(sent[c])
  /\ pc[c] \in Busy => taken[c] > 0
  /\ pc[c] \in {"none", "start"} => taken[c] = 0

\* A request that will get no answer is one that may go without.
Quiet(c) == pc[c] = "write" /\ status[c] = "none" => Silent(c, taken[c])

\* No answer is for a request that serve has not settled.
Past(c) == \A n \in DOMAIN answers[c] : answers[c][n].req <= Settled(c)

\* AnsweredInOrder, of one connection and in two parts.
Sorted(c) ==
  \A i, j \in DOMAIN answers[c] : i < j => answers[c][i].req < answers[c][j].req

\* While serve goes on, every settled request has its answer or needs none.
NoneMissing(c) ==
  pc[c] \in {"wait", "read", "handle", "write", "keep"} =>
    \A i \in 1 .. Settled(c) :
      Silent(c, i) \/ \E n \in DOMAIN answers[c] : answers[c][n].req = i

\* The invariant behind AnsweredInOrder.
Orderly(c) == Bounds(c) /\ Quiet(c) /\ Past(c) /\ Sorted(c) /\ NoneMissing(c)

OrderInv == \A c \in Conns : Orderly(c)

\* A request that may go without an answer stays one, whatever else the client
\* sends and whatever is registered.
LEMMA SilentStays ==
  ASSUME TypeOK, NEW d \in Conns, NEW i \in 1 .. Len(sent[d]), Silent(d, i),
         \/ sent'[d] = sent[d]
         \/ \E r \in Requests : sent'[d] = Append(sent[d], r),
         handlers \subseteq handlers'
  PROVE  Silent(d, i)'
<1>1. sent[d] \in Seq(Requests)
  BY DEF TypeOK
<1>2. sent'[d][i] = sent[d][i]
  BY <1>1
<1> QED
  BY <1>2 DEF Silent

\* A connection that is not served in a step stays orderly.
LEMMA OthersStayOrderly ==
  ASSUME TypeOK, NEW d \in Conns, Orderly(d),
         pc'[d] = pc[d], taken'[d] = taken[d], answers'[d] = answers[d], status'[d] = status[d],
         \/ sent'[d] = sent[d]
         \/ \E r \in Requests : sent'[d] = Append(sent[d], r),
         handlers \subseteq handlers'
  PROVE  Orderly(d)'
<1>1. /\ sent[d] \in Seq(Requests) /\ taken[d] \in Nat /\ Bounds(d)
      /\ Settled(d)' = Settled(d)
  BY DEF TypeOK, Orderly, Settled
<1>2. Len(sent[d]) <= Len(sent'[d])
  BY <1>1
<1>3. Bounds(d)'
  BY <1>1, <1>2 DEF Bounds
<1>4. Quiet(d)'
  <2>1. ASSUME pc[d] = "write" PROVE taken[d] \in 1 .. Len(sent[d])
    BY <1>1, <2>1 DEF Bounds, Busy
  <2> QED
    BY <2>1, SilentStays DEF Orderly, Quiet
<1>5. Past(d)' /\ Sorted(d)'
  BY <1>1 DEF Orderly, Past, Sorted
<1>6. NoneMissing(d)'
  <2>1. ASSUME NEW i \in 1 .. Settled(d) PROVE i \in 1 .. Len(sent[d])
    BY <1>1, <2>1 DEF Bounds, Settled
  <2> QED
    BY <1>1, <2>1, SilentStays DEF Orderly, NoneMissing
<1> QED
  BY <1>3, <1>4, <1>5, <1>6 DEF Orderly

\* The steps that answer nothing and take nothing.
LEMMA WaitingStaysOrderly ==
  ASSUME TypeOK, NEW c \in Conns, Orderly(c),
         UNCHANGED <<handlers, sent, taken, answers, status>>,
         \/ Goto(c, "none", "start") \/ Goto(c, "start", "wait")
         \/ Goto(c, "wait", "read") /\ More(c)
         \/ Goto(c, "wait", "close") \/ Goto(c, "keep", "wait") \/ Goto(c, "keep", "close")
         \/ Goto(c, "close", "dec") \/ Goto(c, "dec", "ended")
  PROVE  Orderly(c)'
<1>1. taken[c] \in Nat /\ pc \in [Conns -> Steps] /\ Len(sent[c]) \in Nat
  BY DEF TypeOK
<1>2. Settled(c)' = Settled(c)
  BY <1>1 DEF Settled, Goto, Steps
<1>3. Bounds(c)'
  BY <1>1 DEF Orderly, Bounds, Goto, Busy, More
<1>4. Quiet(c)'
  BY <1>1 DEF Quiet, Goto
<1>5. Past(c)' /\ Sorted(c)'
  BY <1>2 DEF Orderly, Past, Sorted
<1>6. NoneMissing(c)'
  <2>1. CASE Goto(c, "none", "start") \/ Goto(c, "wait", "close") \/ Goto(c, "keep", "close")
             \/ Goto(c, "close", "dec") \/ Goto(c, "dec", "ended")
    BY <1>1, <2>1 DEF NoneMissing, Goto
  <2>2. CASE Goto(c, "start", "wait")
    <3>1. Settled(c)' = 0
      BY <1>1, <1>2, <2>2 DEF Orderly, Bounds, Settled, Goto
    <3> QED
      BY <3>1 DEF NoneMissing
  <2>3. CASE Goto(c, "wait", "read") \/ Goto(c, "keep", "wait")
    BY <1>1, <1>2, <2>3 DEF Orderly, NoneMissing, Silent, Goto
  <2> QED
    BY <2>1, <2>2, <2>3
<1> QED
  BY <1>3, <1>4, <1>5, <1>6 DEF Orderly

\* Reading takes the next request; one that is passed over is silent.
LEMMA ReadStaysOrderly ==
  ASSUME TypeOK, NEW c \in Conns, Orderly(c), ReadRequest(c)
  PROVE  Orderly(c)'
<1>1. /\ taken[c] \in Nat /\ Len(sent[c]) \in Nat /\ taken[c] < Len(sent[c])
      /\ taken'[c] = taken[c] + 1 /\ pc[c] = "read"
      /\ UNCHANGED <<handlers, sent, answers, status>>
  BY DEF TypeOK, ReadRequest, Orderly, Bounds, configVars, clientVars
<1>2. /\ pc'[c] \in {"handle", "wait", "close"}
      /\ pc'[c] = "wait" => sent[c][taken[c] + 1].kind = "junk"
  BY DEF TypeOK, ReadRequest, Goto
<1>3. /\ Settled(c) = taken[c]
      /\ Settled(c)' = IF pc'[c] = "handle" THEN taken[c] ELSE taken[c] + 1
  BY <1>1, <1>2 DEF Settled
<1>4. Bounds(c)' /\ Quiet(c)'
  BY <1>1, <1>2 DEF Bounds, Quiet, Busy
<1>5. Past(c)'
  <2>1. ASSUME NEW n \in DOMAIN answers[c] PROVE answers[c][n].req \in Nat
    <3>1. answers[c] \in Seq(Answers)
      BY DEF TypeOK
    <3>2. answers[c][n] \in Answers
      BY <3>1
    <3> QED
      BY <3>2 DEF Answers
  <2> QED
    BY <1>1, <1>3, <2>1 DEF Orderly, Past
<1>6. Sorted(c)'
  BY <1>1 DEF Orderly, Sorted
<1>7. NoneMissing(c)'
  <2>1. ASSUME NEW i \in 1 .. taken[c]
        PROVE  Silent(c, i) \/ \E n \in DOMAIN answers[c] : answers[c][n].req = i
    BY <1>1, <1>3, <2>1 DEF Orderly, NoneMissing
  <2>2. pc'[c] = "wait" => Silent(c, taken[c] + 1)
    BY <1>2 DEF Silent
  <2>3. \A i : Silent(c, i)' <=> Silent(c, i)
    BY <1>1 DEF Silent
  <2>4. CASE pc'[c] = "handle"
    BY <1>1, <1>3, <2>1, <2>3, <2>4 DEF NoneMissing
  <2>5. CASE pc'[c] = "wait"
    BY <1>1, <1>3, <2>1, <2>2, <2>3, <2>5 DEF NoneMissing
  <2>6. CASE pc'[c] = "close"
    BY <2>6 DEF NoneMissing
  <2> QED
    BY <1>2, <2>4, <2>5, <2>6
<1> QED
  BY <1>4, <1>5, <1>6, <1>7 DEF Orderly

\* handleServe settles nothing; it chooses no answer only if none is due.
LEMMA HandleStaysOrderly ==
  ASSUME TypeOK, NEW c \in Conns, Orderly(c), Handle(c)
  PROVE  Orderly(c)'
<1>1. /\ taken[c] \in Nat /\ pc[c] = "handle" /\ pc'[c] \in {"recover", "write"}
      /\ UNCHANGED <<handlers, sent, taken, answers>>
  BY DEF TypeOK, Handle, Goto, configVars, clientVars
<1>2. Settled(c)' = Settled(c)
  BY <1>1 DEF Settled
<1>3. Bounds(c)' /\ Past(c)' /\ Sorted(c)'
  BY <1>1, <1>2 DEF Orderly, Bounds, Past, Sorted, Busy
<1>4. Quiet(c)'
  <2>1. status'[c] = "none" => Silent(c, taken[c])
    BY DEF TypeOK, Handle, Current, Silent
  <2> QED
    BY <1>1, <2>1 DEF Quiet, Silent
<1>5. NoneMissing(c)'
  BY <1>1, <1>2 DEF Orderly, NoneMissing, Silent
<1> QED
  BY <1>3, <1>4, <1>5 DEF Orderly

\* An answer is for the request at hand, after all answers so far.
LEMMA AnswerStaysOrderly ==
  ASSUME TypeOK, NEW c \in Conns, Orderly(c),
         \/ Goto(c, "write", "keep") /\ Deliver(c)
         \/ Goto(c, "recover", "close") /\ Deliver(c),
         UNCHANGED <<handlers, sent, taken>>
  PROVE  Orderly(c)'
<1>1. /\ taken[c] \in Nat \ {0} /\ pc[c] \in {"write", "recover"} /\ Deliver(c)
      /\ pc'[c] \in {"keep", "close"} /\ (pc'[c] = "keep" => pc[c] = "write")
      /\ Settled(c) = taken[c] - 1 /\ Settled(c)' = taken[c]
      /\ answers[c] \in Seq(Answers)
  BY DEF TypeOK, Orderly, Bounds, Busy, Goto, Settled
<1>2. Bounds(c)' /\ Quiet(c)'
  BY <1>1 DEF Orderly, Bounds, Quiet, Busy
<1>3. \A n \in DOMAIN answers[c] : answers[c][n].req \in Nat
  <2>1. \A n \in DOMAIN answers[c] : answers[c][n] \in Answers
    BY <1>1
  <2> QED
    BY <2>1 DEF Answers
<1>4. \A i : Silent(c, i)' <=> Silent(c, i)
  BY DEF Silent
<1>5. CASE status[c] = "none"
  <2>1. answers' = answers
    BY <1>1, <1>5 DEF Deliver
  <2>2. Past(c)' /\ Sorted(c)'
    BY <1>1, <1>3, <2>1 DEF Orderly, Past, Sorted
  <2>3. pc[c] = "write" => Silent(c, taken[c])
    BY <1>5 DEF Orderly, Quiet
  <2>4. NoneMissing(c)'
    BY <1>1, <1>4, <2>1, <2>3 DEF Orderly, NoneMissing
  <2> QED
    BY <1>2, <2>2, <2>4 DEF Orderly
<1>6. CASE status[c] # "none"
  <2> DEFINE a == [req |-> taken[c], kind |-> status[c]]
             m == Len(answers[c]) + 1
  <2>1. answers'[c] = Append(answers[c], a)
    BY <1>1, <1>6 DEF Deliver, TypeOK
  <2>2. a \in Answers /\ a.req = taken[c]
    BY <1>1, <1>6 DEF TypeOK, Answers
  <2> HIDE DEF a
  <2>3. /\ DOMAIN answers'[c] = DOMAIN answers[c] \cup {m}
        /\ m \notin DOMAIN answers[c] /\ m \in Nat
        /\ \A n \in DOMAIN answers[c] : n < m /\ n \in Nat /\ answers'[c][n] = answers[c][n]
        /\ answers'[c][m] = a
    BY <1>1, <2>1, <2>2
  <2> HIDE DEF m
  <2>4. \A n \in DOMAIN answers[c] : answers[c][n].req < taken[c]
    BY <1>1, <1>3 DEF Orderly, Past
  <2>5. Past(c)'
    BY <1>1, <1>3, <2>2, <2>3, <2>4 DEF Past
  <2>6. Sorted(c)'
    <3> SUFFICES ASSUME NEW i \in DOMAIN answers'[c], NEW j \in DOMAIN answers'[c], i < j
                 PROVE  answers'[c][i].req < answers'[c][j].req
      BY DEF Sorted
    <3>1. i \in DOMAIN answers[c]
      BY <2>3
    <3>2. CASE j \in DOMAIN answers[c]
      BY <2>3, <3>1, <3>2 DEF Orderly, Sorted
    <3>3. CASE j = m
      BY <2>2, <2>3, <2>4, <3>1, <3>3
    <3> QED
      BY <2>3, <3>2, <3>3
  <2>7. NoneMissing(c)'
    <3> SUFFICES ASSUME pc'[c] = "keep", NEW i \in 1 .. taken[c]
                 PROVE  Silent(c, i) \/ \E n \in DOMAIN answers'[c] : answers'[c][n].req = i
      BY <1>1, <1>4 DEF NoneMissing
    <3>1. CASE i = taken[c]
      BY <2>2, <2>3, <3>1
    <3>2. CASE i # taken[c]
      <4>1. i \in 1 .. Settled(c)
        BY <1>1, <3>2
      <4> QED
        BY <1>1, <2>3, <4>1 DEF Orderly, NoneMissing
    <3> QED
      BY <3>1, <3>2
  <2> QED
    BY <1>2, <2>5, <2>6, <2>7 DEF Orderly
<1> QED
  BY <1>5, <1>6

\* A connection that is given up makes no more promises about the requests it
\* has taken; the answers it has written stay as they are.
LEMMA EndStaysOrderly ==
  ASSUME TypeOK, NEW c \in Conns, Orderly(c), pc'[c] = "close",
         UNCHANGED <<handlers, sent, answers>>,
         \/ taken'[c] = taken[c]
         \/ taken'[c] = taken[c] + 1 /\ pc[c] = "read"
  PROVE  Orderly(c)'
<1>1. taken[c] \in Nat /\ Len(sent[c]) \in Nat
  BY DEF TypeOK
<1>2. Settled(c) \in Int /\ Settled(c)' \in Int /\ Settled(c) <= Settled(c)'
  BY <1>1 DEF Settled
<1>3. \A n \in DOMAIN answers[c] : answers[c][n].req \in Nat
  <2>1. answers[c] \in Seq(Answers)
    BY DEF TypeOK
  <2>2. \A n \in DOMAIN answers[c] : answers[c][n] \in Answers
    BY <2>1
  <2> QED
    BY <2>2 DEF Answers
<1>4. Bounds(c)' /\ Quiet(c)' /\ NoneMissing(c)' /\ Sorted(c)'
  BY <1>1 DEF Orderly, Bounds, Quiet, NoneMissing, Sorted, Busy
<1>5. Past(c)'
  BY <1>2, <1>3 DEF Orderly, Past
<1> QED
  BY <1>4, <1>5 DEF Orderly

\* One lemma for what each step does to the connection it serves, and one for
\* all the others.
LEMMA StepKeepsOrder == TypeOK /\ OrderInv /\ [Next]_vars => OrderInv'
<1> SUFFICES ASSUME TypeOK, OrderInv, [Next]_vars PROVE OrderInv'
    OBVIOUS
<1>0. /\ pc \in [Conns -> Steps] /\ taken \in [Conns -> Nat]
      /\ answers \in [Conns -> Seq(Answers)] /\ sent \in [Conns -> Seq(Requests)]
      /\ status \in [Conns -> AnswerKinds \cup {"none"}]
      /\ \A d \in Conns : Orderly(d)
  BY DEF TypeOK, OrderInv
<1>1. ASSUME NEW c \in Conns, Orderly(c)',
             \A d \in Conns \ {c} : /\ pc'[d] = pc[d] /\ taken'[d] = taken[d]
                                   /\ answers'[d] = answers[d] /\ status'[d] = status[d],
             UNCHANGED <<handlers, sent>>
      PROVE  OrderInv'
  <2>1. ASSUME NEW d \in Conns \ {c} PROVE Orderly(d)'
    BY <1>0, <1>1, OthersStayOrderly
  <2> QED
    BY <1>1, <2>1 DEF OrderInv
<1>2. ASSUME UNCHANGED <<pc, taken, answers, status>>, handlers \subseteq handlers',
             \A d \in Conns : \/ sent'[d] = sent[d]
                              \/ \E r \in Requests : sent'[d] = Append(sent[d], r)
      PROVE  OrderInv'
  BY <1>0, <1>2, OthersStayOrderly DEF OrderInv
<1>3. ASSUME NEW c \in Conns,
             \/ Accept(c) \/ Start(c) \/ WaitNext(c) \/ KeepAlive(c) \/ Close(c) \/ Decrement(c)
      PROVE  OrderInv'
  <2>1. UNCHANGED <<handlers, sent, taken, answers, status>>
    BY <1>3 DEF Accept, Start, WaitNext, KeepAlive, Close, Decrement,
                configVars, clientVars, workVars
  <2>2. \/ Goto(c, "none", "start") \/ Goto(c, "start", "wait")
        \/ Goto(c, "wait", "read") /\ More(c)
        \/ Goto(c, "wait", "close") \/ Goto(c, "keep", "wait") \/ Goto(c, "keep", "close")
        \/ Goto(c, "close", "dec") \/ Goto(c, "dec", "ended")
    BY <1>3 DEF Accept, Start, WaitNext, KeepAlive, Close, Decrement
  <2>3. Orderly(c)'
    BY <1>0, <2>1, <2>2, WaitingStaysOrderly
  <2>4. \A d \in Conns \ {c} : pc'[d] = pc[d]
    BY <1>0, <2>2 DEF Goto
  <2> QED
    BY <1>1, <2>1, <2>3, <2>4
<1>4. ASSUME NEW c \in Conns, ReadRequest(c) PROVE OrderInv'
  <2>1. Orderly(c)'
    BY <1>0, <1>4, ReadStaysOrderly
  <2>2. /\ UNCHANGED <<handlers, sent, answers, status>>
        /\ taken' = [taken EXCEPT ![c] = @ + 1]
        /\ \E to \in {"handle", "wait", "close"} : Goto(c, "read", to)
    BY <1>4 DEF ReadRequest, configVars, clientVars
  <2> QED
    BY <1>0, <1>1, <2>1, <2>2 DEF Goto
<1>5. ASSUME NEW c \in Conns, Handle(c) PROVE OrderInv'
  <2>1. Orderly(c)'
    BY <1>0, <1>5, HandleStaysOrderly
  <2>2. /\ UNCHANGED <<handlers, sent, taken, answers>>
        /\ \E to \in {"recover", "write"} : Goto(c, "handle", to)
        /\ \A d \in Conns \ {c} : status'[d] = status[d]
    BY <1>0, <1>5 DEF Handle, configVars, clientVars
  <2> QED
    BY <1>0, <1>1, <2>1, <2>2 DEF Goto
<1>6. ASSUME NEW c \in Conns, WriteAnswer(c) \/ Recover(c) \/ TimeOut(c) PROVE OrderInv'
  <2>1. /\ UNCHANGED <<handlers, sent>>
        /\ status' = [status EXCEPT ![c] = "none"]
    BY <1>6 DEF WriteAnswer, Recover, TimeOut, configVars, clientVars
  <2>2. \/ /\ taken' = taken /\ Deliver(c)
           /\ Goto(c, "write", "keep") \/ Goto(c, "recover", "close")
        \/ /\ answers' = answers
           /\ \/ taken' = taken /\ \E from \in Steps : Goto(c, from, "close")
              \/ taken' = [taken EXCEPT ![c] = @ + 1] /\ Goto(c, "read", "close")
    BY <1>6 DEF WriteAnswer, Recover, TimeOut, Steps
  <2>3. CASE /\ taken' = taken /\ Deliver(c)
             /\ Goto(c, "write", "keep") \/ Goto(c, "recover", "close")
    <3>1. Orderly(c)'
      BY <1>0, <2>1, <2>3, AnswerStaysOrderly
    <3>2. \A d \in Conns \ {c} : answers'[d] = answers[d]
      BY <1>0, <2>3 DEF Deliver
    <3> QED
      BY <1>0, <1>1, <2>1, <2>3, <3>1, <3>2 DEF Goto
  <2>4. CASE /\ answers' = answers
             /\ \/ taken' = taken /\ \E from \in Steps : Goto(c, from, "close")
                \/ taken' = [taken EXCEPT ![c] = @ + 1] /\ Goto(c, "read", "close")
    <3>1. /\ pc'[c] = "close" /\ \A d \in Conns \ {c} : pc'[d] = pc[d] /\ taken'[d] = taken[d]
          /\ taken'[c] = taken[c] \/ (taken'[c] = taken[c] + 1 /\ pc[c] = "read")
      BY <1>0, <2>4 DEF Goto
    <3>2. Orderly(c)'
      BY <1>0, <2>1, <2>4, <3>1, EndStaysOrderly
    <3> QED
      BY <1>0, <1>1, <2>1, <2>4, <3>1, <3>2
  <2> QED
    BY <2>2, <2>3, <2>4
<1>7. ASSUME NEW c \in Conns, ClientSends(c) \/ ClientCloses(c) PROVE OrderInv'
  <2>1. UNCHANGED <<pc, taken, answers, status, handlers>>
    BY <1>7 DEF ClientSends, ClientCloses, configVars, workVars
  <2>2. \A d \in Conns : \/ sent'[d] = sent[d]
                         \/ \E r \in Requests : sent'[d] = Append(sent[d], r)
    BY <1>0, <1>7 DEF ClientSends, ClientCloses
  <2> QED
    BY <1>2, <2>1, <2>2
<1>8. CASE \/ \E temporary \in BOOLEAN : AcceptFails(temporary)
           \/ Wake \/ StopKeepAlives \/ (\E p \in Paths : HandleFunc(p)) \/ UNCHANGED vars
  <2>1. UNCHANGED <<pc, taken, answers, status, sent>> /\ handlers \subseteq handlers'
    BY <1>8 DEF AcceptFails, Wake, StopKeepAlives, HandleFunc, vars, configVars, clientVars, workVars
  <2> QED
    BY <1>2, <2>1
<1> QED
  BY <1>3, <1>4, <1>5, <1>6, <1>7, <1>8 DEF Next, Serve

\* The order's invariant holds at all times.
LEMMA OrderInvariance == Spec => []OrderInv
<1>1. Init => OrderInv
  <2> SUFFICES ASSUME Init, NEW c \in Conns PROVE Orderly(c)
    BY DEF OrderInv
  <2>1. sent[c] = <<>> /\ taken[c] = 0 /\ answers[c] = <<>> /\ pc[c] = "none" /\ status[c] = "none"
    BY DEF Init
  <2> QED
    BY <2>1 DEF Orderly, Bounds, Quiet, Past, Sorted, NoneMissing, Busy
<1> QED
  BY <1>1, StepKeepsOrder, TypeCorrect, PTL DEF Spec

\* Answers leave in the order of the requests and none is left out but those
\* of junk and of too long responses, for any number of connections and
\* requests, and whatever fails or panics on the way.
THEOREM AnswersInOrder == Spec => []AnsweredInOrder
<1>1. OrderInv => AnsweredInOrder
  BY DEF OrderInv, Orderly, Sorted, NoneMissing, AnsweredInOrder
<1> QED
  BY <1>1, OrderInvariance, PTL

-----------------------------------------------------------------------------
(* A connection whose client has gone ends.                                *)

\* A connection that starts finds a buffer: the others have one less than there
\* are.
LEMMA BufferLeft ==
  ASSUME BufInv, NEW c \in Conns, buf[c] = Nothing
  PROVE  Buffers \ Range(buf) # {}
<1> DEFINE Others == Conns \ {c}
<1> DEFINE Used == {buf[d] : d \in Others}
<1>1. /\ IsFiniteSet(Others) /\ Cardinality(Others) = Cardinality(Conns) - 1
      /\ Cardinality(Conns) \in Nat /\ Cardinality(Buffers) \in Nat
  BY BuffersAssumption, FS_RemoveElement, FS_CardinalityType
<1>2. IsFiniteSet(Used) /\ Cardinality(Used) <= Cardinality(Others)
  <2>1. \A d \in Others : buf[d] \in Used
    OBVIOUS
  <2> DEFINE g == [d \in Others |-> buf[d]]
  <2>2. g \in Surjection(Others, Used)
    BY DEF Surjection
  <2> QED
    BY <1>1, <2>2, FS_Surjection DEF ExistsSurjection
<1>3. SUFFICES ASSUME Buffers \subseteq Range(buf) PROVE FALSE
  OBVIOUS
<1>4. Buffers \subseteq Used
  <2> SUFFICES ASSUME NEW b \in Buffers PROVE b \in Used
      OBVIOUS
  <2>1. PICK d \in Conns : buf[d] = b
    BY <1>3 DEF BufInv, TypeOK, Range
  <2>2. d # c
    BY <2>1, ServerAssumption
  <2> QED
    BY <2>1, <2>2
<1>5. Cardinality(Buffers) <= Cardinality(Used) /\ Cardinality(Used) \in Nat
  BY <1>2, <1>4, FS_Subset, FS_CardinalityType
<1> HIDE DEF Used, Others
<1> QED
  BY <1>1, <1>2, <1>5, BuffersAssumption

\* Before it starts, a connection has no buffer.
Unbuffered == \A c \in Conns : pc[c] \in {"none", "start"} => buf[c] = Nothing

LEMMA StepKeepsUnbuffered == BufInv /\ Unbuffered /\ [Next]_vars => Unbuffered'
<1> SUFFICES ASSUME BufInv, Unbuffered, [Next]_vars, NEW c \in Conns,
                    pc'[c] \in {"none", "start"}
             PROVE  buf'[c] = Nothing
    BY DEF Unbuffered
<1>1. pc \in [Conns -> Steps] /\ buf \in [Conns -> Buffers \cup {Nothing}]
  BY DEF BufInv, TypeOK
<1>2. ASSUME NEW d \in Conns, Start(d) PROVE buf'[c] = Nothing
  <2>1. Goto(d, "start", "wait") /\ \E b : buf' = [buf EXCEPT ![d] = b]
    BY <1>2 DEF Start
  <2>2. c # d /\ pc'[c] = pc[c] /\ buf'[c] = buf[c]
    BY <1>1, <2>1 DEF Goto
  <2> QED
    BY <2>2 DEF Unbuffered
<1>3. ASSUME NEW d \in Conns, Close(d) PROVE buf'[c] = Nothing
  <2>1. Goto(d, "close", "dec") /\ buf' = [buf EXCEPT ![d] = Nothing]
    BY <1>3 DEF Close
  <2>2. c # d /\ pc'[c] = pc[c] /\ buf'[c] = buf[c]
    BY <1>1, <2>1 DEF Goto
  <2> QED
    BY <2>2 DEF Unbuffered
<1>4. ASSUME NEW d \in Conns, NEW from \in Steps, NEW to \in Steps,
             to \in {"none", "start"} => from \in {"none", "start"},
             Goto(d, from, to), buf' = buf
      PROVE  buf'[c] = Nothing
  <2>1. pc[c] \in {"none", "start"}
    BY <1>1, <1>4 DEF Goto
  <2> QED
    BY <1>4, <2>1 DEF Unbuffered
<1>5. ASSUME NEW d \in Conns, Accept(d) \/ WaitNext(d) \/ ReadRequest(d) \/ Handle(d) \/ WriteAnswer(d)
                              \/ Recover(d) \/ KeepAlive(d) \/ Decrement(d) \/ TimeOut(d)
      PROVE  buf'[c] = Nothing
  <2>1. buf' = buf
    BY <1>5 DEF Accept, WaitNext, ReadRequest, Handle, WriteAnswer, Recover, KeepAlive, Decrement,
                TimeOut, bufVars
  <2>2. \E from, to \in Steps : /\ to \in {"none", "start"} => from \in {"none", "start"}
                                /\ Goto(d, from, to)
    BY <1>5, Zenon DEF Accept, WaitNext, ReadRequest, Handle, WriteAnswer, Recover, KeepAlive,
                Decrement, TimeOut, Steps
  <2> QED
    BY <1>4, <2>1, <2>2
<1>6. ASSUME UNCHANGED <<pc, buf>> PROVE buf'[c] = Nothing
  BY <1>6 DEF Unbuffered
<1>7. ASSUME \/ \E d \in Conns : ClientSends(d) \/ ClientCloses(d)
             \/ \E temporary \in BOOLEAN : AcceptFails(temporary)
             \/ Wake \/ StopKeepAlives \/ (\E p \in Paths : HandleFunc(p)) \/ UNCHANGED vars
      PROVE  UNCHANGED <<pc, buf>>
  BY <1>7 DEF ClientSends, ClientCloses, AcceptFails, Wake, StopKeepAlives, HandleFunc, vars, bufVars
<1> QED
  BY <1>2, <1>3, <1>5, <1>6, <1>7 DEF Next, Serve

\* Once its client has gone, a connection's goroutine waits for nothing at any of
\* its places, with no timeout configured and whatever the other connections do
\* (conn.go:115-189): it finds a buffer, and each blocking read an EOF or a
\* frame that was sent whole.
THEOREM GoneClientsWaitForNothing ==
  Spec => []\A c \in Conns : eof[c] /\ pc[c] \notin {"none", "ended"} => Ready(c)
<1> DEFINE Waits == \A c \in Conns : eof[c] /\ pc[c] \notin {"none", "ended"} => Ready(c)
<1>1. ASSUME BufInv, OrderInv, Unbuffered PROVE Waits
  <2> SUFFICES ASSUME NEW c \in Conns, eof[c], pc[c] \notin {"none", "ended"} PROVE Ready(c)
      OBVIOUS
  <2>1. /\ pc[c] \in Steps /\ taken[c] \in Nat /\ sent[c] \in Seq(Requests) /\ Bounds(c)
    BY <1>1 DEF BufInv, TypeOK, OrderInv, Orderly
  <2>2. CASE pc[c] = "start"
    <3>1. buf[c] = Nothing
      BY <1>1, <2>2 DEF Unbuffered
    <3>2. Buffers \ Range(buf) # {}
      BY <1>1, <3>1, BufferLeft
    <3> QED
      BY <2>2, <3>2 DEF Ready
  <2>3. CASE pc[c] \in {"wait", "read", "handle"}
    BY <2>1, <2>3 DEF Ready, More, Bounds, Busy
  <2>4. CASE pc[c] \in {"write", "recover", "keep", "close", "dec"}
    BY <2>4 DEF Ready
  <2> QED
    BY <2>1, <2>2, <2>3, <2>4 DEF Steps
<1>2. Init => Unbuffered
  BY DEF Init, Unbuffered
<1> QED
  BY <1>1, <1>2, InitTyped, StepTyped, StepKeepsUnbuffered, OrderInvariance, PTL DEF Spec

\* A step of one connection's goroutine brings it nearer to its end, and no other.
LEMMA Nearer ==
  ASSUME TypeOK, NEW c \in Conns, UNCHANGED sent, NEW from \in Steps, NEW to \in Steps,
         Goto(c, from, to),
         \/ taken' = taken /\ Rank[to] < Rank[from]
         \/ taken' = [taken EXCEPT ![c] = @ + 1] /\ from = "read" /\ to \in {"handle", "wait", "close"}
  PROVE  \A d \in Conns : /\ StepsLeft(d)' <= StepsLeft(d)
                          /\ pc'[d] # pc[d] => StepsLeft(d)' < StepsLeft(d)
<1>1. /\ pc \in [Conns -> Steps] /\ taken \in [Conns -> Nat]
      /\ \A d \in Conns : Len(sent[d]) \in Nat
  BY DEF TypeOK
<1>2. \A p \in Steps : Rank[p] \in 0 .. 9
  BY DEF Rank, Steps
<1>3. Rank["read"] = 3 /\ \A p \in {"handle", "wait", "close"} : Rank[p] <= 7
  BY DEF Rank
<1>4. ASSUME NEW d \in Conns, d # c PROVE StepsLeft(d)' = StepsLeft(d) /\ StepsLeft(d) \in Int /\ pc'[d] = pc[d]
  <2>1. pc'[d] = pc[d] /\ taken'[d] = taken[d] /\ sent'[d] = sent[d]
    BY <1>1, <1>4 DEF Goto
  <2>2. taken[d] \in Int /\ Len(sent[d]) \in Int
    BY <1>1
  <2>3. Rank[pc[d]] \in Int
    <3>1. pc[d] \in Steps
      BY <1>1
    <3> QED
      BY <1>2, <3>1
  <2> QED
    BY <2>1, <2>2, <2>3 DEF StepsLeft
<1>5. StepsLeft(c)' < StepsLeft(c) /\ StepsLeft(c)' \in Int /\ StepsLeft(c) \in Int
  <2>1. pc[c] = from /\ pc'[c] = to /\ sent'[c] = sent[c]
    BY <1>1 DEF Goto
  <2>2. Rank[from] \in Int /\ Rank[to] \in Int /\ taken[c] \in Int /\ Len(sent[c]) \in Int
    BY <1>1, <1>2
  <2>3. CASE taken' = taken /\ Rank[to] < Rank[from]
    BY <2>1, <2>2, <2>3 DEF StepsLeft
  <2>4. CASE taken' = [taken EXCEPT ![c] = @ + 1] /\ from = "read" /\ to \in {"handle", "wait", "close"}
    <3>1. taken'[c] = taken[c] + 1 /\ Rank[from] = 3 /\ Rank[to] <= 7
      BY <1>1, <1>3, <2>4
    <3>2. StepsLeft(c) = 5 * (Len(sent[c]) - taken[c]) + 3
      BY <2>1, <3>1 DEF StepsLeft
    <3>3. StepsLeft(c)' = 5 * (Len(sent[c]) - (taken[c] + 1)) + Rank[to]
      BY <2>1, <3>1 DEF StepsLeft
    <3> QED
      BY <2>2, <3>1, <3>2, <3>3
  <2> QED
    BY <2>3, <2>4
<1> QED
  BY <1>4, <1>5

\* Only a client that is there sends, and none comes back.
LEMMA GoneForGood ==
  ASSUME TypeOK, [Next]_vars, NEW c \in Conns, eof[c]
  PROVE  eof'[c] /\ sent'[c] = sent[c]
<1>1. sent \in [Conns -> Seq(Requests)] /\ eof \in [Conns -> BOOLEAN]
  BY DEF TypeOK
<1>2. ASSUME NEW d \in Conns, ClientSends(d) PROVE eof'[c] /\ sent'[c] = sent[c]
  BY <1>1, <1>2 DEF ClientSends
<1>3. ASSUME NEW d \in Conns, ClientCloses(d) PROVE eof'[c] /\ sent'[c] = sent[c]
  BY <1>1, <1>3 DEF ClientCloses
<1>4. CASE UNCHANGED clientVars
  BY <1>4 DEF clientVars
<1>5. ASSUME \/ \E d \in Conns : Accept(d) \/ Serve(d) \/ TimeOut(d)
             \/ \E temporary \in BOOLEAN : AcceptFails(temporary)
             \/ Wake \/ StopKeepAlives \/ (\E p \in Paths : HandleFunc(p)) \/ UNCHANGED vars
      PROVE  UNCHANGED clientVars
  BY <1>5 DEF Accept, Serve, Start, WaitNext, ReadRequest, Handle, WriteAnswer, Recover, KeepAlive,
              Close, Decrement, TimeOut, AcceptFails, Wake, StopKeepAlives, HandleFunc, vars
<1> QED
  BY <1>2, <1>3, <1>4, <1>5 DEF Next

\* And it ends: while its client is gone, every step of a connection's goroutine,
\* a panic, a broken write or a timeout too, makes a natural number smaller that no
\* other step makes larger (conn.go:115-189).
THEOREM GoneClientsComeToAnEnd == Spec => NearerTheEnd
<1> DEFINE Down(c) == /\ StepsLeft(c)' <= StepsLeft(c)
                      /\ pc'[c] # pc[c] => StepsLeft(c)' < StepsLeft(c)
<1>1. ASSUME TypeOK, OrderInv, NEW c \in Conns PROVE StepsLeft(c) \in Nat
  <2>1. pc[c] \in Steps /\ taken[c] \in Nat /\ Len(sent[c]) \in Nat /\ taken[c] <= Len(sent[c])
    BY <1>1 DEF TypeOK, OrderInv, Orderly, Bounds
  <2>2. Rank[pc[c]] \in Nat
    BY <2>1 DEF Rank, Steps
  <2> QED
    BY <2>1, <2>2 DEF StepsLeft
<1>2. ASSUME TypeOK, NEW d \in Conns, Accept(d) \/ Serve(d) \/ TimeOut(d) PROVE \A c \in Conns : Down(c)
  <2>1. sent' = sent
    BY <1>2 DEF Accept, Serve, Start, WaitNext, ReadRequest, Handle, WriteAnswer, Recover, KeepAlive,
                Close, Decrement, TimeOut, clientVars
  <2>2. CASE ReadRequest(d)
    <3>1. \E to \in {"handle", "wait", "close"} : Goto(d, "read", to)
      BY <2>2 DEF ReadRequest
    <3>2. taken' = [taken EXCEPT ![d] = @ + 1]
      BY <2>2 DEF ReadRequest
    <3> QED
      BY <1>2, <2>1, <3>1, <3>2, Nearer DEF Steps
  <2>3. CASE TimeOut(d)
    <3>1. \/ taken' = taken /\ \E from \in {"wait", "write"} : Goto(d, from, "close")
          \/ taken' = [taken EXCEPT ![d] = @ + 1] /\ Goto(d, "read", "close")
      BY <2>3 DEF TimeOut
    <3>2. Rank["close"] < Rank["wait"] /\ Rank["close"] < Rank["write"]
      BY DEF Rank
    <3> QED
      BY <1>2, <2>1, <3>1, <3>2, Nearer DEF Steps
  <2>4. CASE \/ Accept(d) \/ Start(d) \/ WaitNext(d) \/ Handle(d) \/ WriteAnswer(d) \/ Recover(d)
             \/ KeepAlive(d) \/ Close(d) \/ Decrement(d)
    <3>1. taken' = taken
      BY <2>4 DEF Accept, Start, WaitNext, Handle, WriteAnswer, Recover, KeepAlive, Close, Decrement,
                  workVars
    <3>2. \/ Goto(d, "none", "start") \/ Goto(d, "start", "wait")
          \/ Goto(d, "wait", "read") \/ Goto(d, "wait", "close")
          \/ Goto(d, "handle", "recover") \/ Goto(d, "handle", "write")
          \/ Goto(d, "write", "keep") \/ Goto(d, "write", "close")
          \/ Goto(d, "recover", "close") \/ Goto(d, "keep", "wait") \/ Goto(d, "keep", "close")
          \/ Goto(d, "close", "dec") \/ Goto(d, "dec", "ended")
      BY <2>4 DEF Accept, Start, WaitNext, Handle, WriteAnswer, Recover, KeepAlive, Close, Decrement
    <3>3. \E from, to \in Steps : Goto(d, from, to) /\ Rank[to] < Rank[from]
      BY <3>2 DEF Rank, Steps
    <3> QED
      BY <1>2, <2>1, <3>1, <3>3, Nearer
  <2> QED
    BY <1>2, <2>2, <2>3, <2>4 DEF Serve
<1>3. ASSUME TypeOK, OrderInv, pc' = pc, taken' = taken, NEW c \in Conns, sent'[c] = sent[c]
      PROVE  Down(c)
  <2>1. StepsLeft(c)' = StepsLeft(c) /\ pc'[c] = pc[c]
    BY <1>3 DEF StepsLeft
  <2> QED
    BY <1>1, <1>3, <2>1
<1>4. ASSUME \/ \E d \in Conns : ClientSends(d) \/ ClientCloses(d)
             \/ \E temporary \in BOOLEAN : AcceptFails(temporary)
             \/ Wake \/ StopKeepAlives \/ (\E p \in Paths : HandleFunc(p)) \/ UNCHANGED vars
      PROVE  pc' = pc /\ taken' = taken
  BY <1>4 DEF ClientSends, ClientCloses, AcceptFails, Wake, StopKeepAlives, HandleFunc, vars, workVars
<1>5. ASSUME TypeOK, OrderInv, [Next]_vars, NEW c \in Conns, eof[c] PROVE eof'[c] /\ Down(c)
  <2>1. eof'[c] /\ sent'[c] = sent[c]
    BY <1>5, GoneForGood
  <2> HIDE DEF Down
  <2>2. CASE pc' = pc /\ taken' = taken
    BY <1>3, <1>5, <2>1, <2>2
  <2>3. CASE \E d \in Conns : Accept(d) \/ Serve(d) \/ TimeOut(d)
    BY <1>2, <1>5, <2>1, <2>3
  <2> QED
    BY <1>4, <1>5, <2>1, <2>2, <2>3 DEF Next
<1> DEFINE Step == \A c \in Conns : eof[c] =>
                     /\ eof'[c] /\ 0 <= StepsLeft(c)' /\ StepsLeft(c)' <= StepsLeft(c)
                     /\ pc'[c] # pc[c] => StepsLeft(c)' < StepsLeft(c)
<1>6. ASSUME TypeOK, OrderInv, TypeOK', OrderInv', [Next]_vars PROVE Step
  <2> SUFFICES ASSUME NEW c \in Conns, eof[c]
               PROVE  eof'[c] /\ 0 <= StepsLeft(c)' /\ Down(c)
      OBVIOUS
  <2>1. eof'[c] /\ Down(c)
    BY <1>5, <1>6
  <2>2. StepsLeft(c)' \in Nat
    <3>1. pc'[c] \in Steps /\ taken'[c] \in Nat /\ Len(sent'[c]) \in Nat /\ taken'[c] <= Len(sent'[c])
      BY <1>6 DEF TypeOK, OrderInv, Orderly, Bounds
    <3>2. Rank[pc'[c]] \in Nat
      BY <3>1 DEF Rank, Steps
    <3> QED
      BY <3>1, <3>2 DEF StepsLeft
  <2> QED
    BY <2>1, <2>2
<1> QED
  BY <1>6, TypeCorrect, OrderInvariance, PTL DEF Spec, NearerTheEnd
=============================================================================
