--------------------------- MODULE RegistryProofs ---------------------------
(***************************************************************************)
(* Registry, for any set of goroutines, names and metrics: one metric per  *)
(* name is ever handed out, and no meter is left in the arbiter that no    *)
(* name and no call refers to.                                             *)
(*                                                                         *)
(* The argument is about the registry's mutex.  Shape says what each place *)
(* of a call has found and may rely on, in particular that a name found    *)
(* free under the mutex is free; Locked says that exactly the goroutine at *)
(* such a place holds it.  So a step of one goroutine cannot disturb what  *)
(* another relies on (OthersKeepShape), and the two properties follow from *)
(* what the few steps that change the map do.                              *)
(*                                                                         *)
(* The last part is about the views of Prefixed: that FindPrefix and       *)
(* RealName, which are recursive, agree for chains of any length, by       *)
(* induction on the number of views that are passed (AllNumbers).          *)
(***************************************************************************)
EXTENDS Prefixed, WellFoundedInduction, TLAPS

\* The calls that add a metric, and those that remove one.
RegOps == {"getOrRegister", "register"}
UnregOps == {"unregister", "unregisterAll"}

\* What a goroutine's place says of its call.
Shape(p) ==
  /\ pc[p] = "idle" => arg[p] = Nil /\ op[p] = "none" /\ ~lazy[p]
  /\ pc[p] = "new" => op[p] \in RegOps /\ ~lazy[p] /\ arg[p] \in Meters
  /\ pc[p] = "read" => op[p] = "getOrRegister"
  /\ pc[p] = "lazy" => op[p] = "getOrRegister" /\ lazy[p]
  /\ pc[p] = "store" => op[p] \in RegOps
  /\ pc[p] = "lock" => op[p] \in RegOps \cup UnregOps
  /\ pc[p] = "remove" => op[p] \in UnregOps /\ arg[p] \in stopped \cup {Nil}
  /\ pc[p] \in {"cas", "delete"} => op[p] \in UnregOps \cup {"stop"} /\ arg[p] \in Meters
  /\ pc[p] = "delete" => arg[p] \in stopped
  /\ pc[p] \in {"cas", "delete"} /\ op[p] # "stop" => \E n \in Names : metrics[n] = arg[p]
  /\ op[p] \in RegOps =>
       arg[p] \in Metrics /\ (lazy[p] => op[p] = "getOrRegister") /\ (~lazy[p] => arg[p] \in given)
  /\ op[p] \in UnregOps /\ pc[p] = "lock" => arg[p] = Nil
  /\ pc[p] \in {"lazy", "store"} /\ op[p] = "getOrRegister" => metrics[name[p]] = Nil

\* The places where the registry's mutex is held.
Holding(p) ==
  \/ pc[p] \in {"lazy", "store", "remove"}
  \/ pc[p] \in {"cas", "delete"} /\ op[p] # "stop"

\* TypeOK but for what it says of the two locks.
Typed ==
  /\ metrics \in [Names -> (Metrics \ Unknown) \cup {Nil}]
  /\ mutex \in Procs \cup {Nil}
  /\ arbiter \subseteq Meters /\ stopped \subseteq Meters
  /\ toTick \subseteq Meters /\ ticking \in BOOLEAN
  /\ pc \in [Procs -> Steps] /\ op \in [Procs -> Ops] /\ name \in [Procs -> Names]
  /\ arg \in [Procs -> Metrics \cup {Nil}] /\ lazy \in [Procs -> BOOLEAN]
  /\ todo \in [Procs -> SUBSET Names] /\ given \subseteq created
  /\ created \subseteq Metrics /\ gone \subseteq Metrics
  /\ granted \in [Names -> SUBSET Metrics]

\* Who holds the registry's mutex; the arbiter ticks meters it has.
Locked ==
  /\ toTick \subseteq arbiter /\ (toTick # {} => ticking)
  /\ \A p \in Procs : mutex = p <=> Holding(p)

\* The inductive invariant below both properties.
ShapeInv == Typed /\ Locked /\ \A p \in Procs : Shape(p)

\* The step is p's: the other goroutines stay where they are.
OthersStay(p) ==
  \A q \in Procs \ {p} :
    /\ pc'[q] = pc[q] /\ op'[q] = op[q] /\ name'[q] = name[q]
    /\ arg'[q] = arg[q] /\ lazy'[q] = lazy[q]

\* What p does keeps the shape of q's call: the map belongs to who holds the
\* mutex, and meters are stopped and metrics given for good.
LEMMA OthersKeepShape ==
  ASSUME Typed, Locked, NEW p \in Procs, NEW q \in Procs \ {p}, Shape(q), OthersStay(p),
         stopped \subseteq stopped', given \subseteq given', metrics' = metrics \/ mutex = p
  PROVE  Shape(q)'
<1>2. metrics' = metrics \/ ~Holding(q)
  BY RegistryAssumption DEF Locked, Typed
<1>3. CASE metrics' = metrics
  BY <1>3 DEF Shape, OthersStay
<1>4. CASE ~Holding(q)
  BY <1>4 DEF Shape, OthersStay, Holding
<1> QED
  BY <1>2, <1>3, <1>4

\* A call begins with a metric of its own.
LEMMA CallRegisterShape ==
  ASSUME ShapeInv, NEW p \in Procs, CallRegister(p)
  PROVE  ShapeInv'
<1>0. Typed /\ Locked /\ Shape(p) /\ \A q \in Procs : Shape(q)
  BY DEF ShapeInv
<1> USE RegistryAssumption
<1>1. Typed'
  BY <1>0 DEF Typed, CallRegister, Enter, Shape, Steps, Ops, RegOps, UnregOps, callVars
<1>2. OthersStay(p)
  BY <1>0 DEF Typed, OthersStay, CallRegister, Enter, callVars
<1>3. Locked'
  BY <1>0, <1>1, <1>2 DEF Typed, Locked, Holding, OthersStay, CallRegister, Enter, Shape, callVars
<1>4. Shape(p)'
  BY <1>0 DEF Typed, Locked, Holding, CallRegister, Enter, Shape, Steps, Ops, RegOps, UnregOps, callVars
<1>5. stopped \subseteq stopped' /\ given \subseteq given' /\ (metrics' = metrics \/ mutex = p)
  BY <1>0 DEF Locked, Holding, CallRegister, Enter, Shape, callVars
<1>6. \A q \in Procs \ {p} : Shape(q)'
  BY <1>0, <1>2, <1>5, OthersKeepShape DEF ShapeInv
<1> QED
  BY <1>1, <1>3, <1>4, <1>6 DEF ShapeInv

\* Unregistering begins without a metric.
LEMMA CallUnregisterShape ==
  ASSUME ShapeInv, NEW p \in Procs, CallUnregister(p)
  PROVE  ShapeInv'
<1>0. Typed /\ Locked /\ Shape(p) /\ \A q \in Procs : Shape(q)
  BY DEF ShapeInv
<1> USE RegistryAssumption
<1>1. Typed'
  BY <1>0 DEF Typed, CallUnregister, Enter, Shape, Steps, Ops, RegOps, UnregOps, callVars
<1>2. OthersStay(p)
  BY <1>0 DEF Typed, OthersStay, CallUnregister, Enter, callVars
<1>3. Locked'
  BY <1>0, <1>1, <1>2 DEF Typed, Locked, Holding, OthersStay, CallUnregister, Enter, Shape, callVars
<1>4. Shape(p)'
  BY <1>0 DEF Typed, Locked, Holding, CallUnregister, Enter, Shape, Steps, Ops, RegOps, UnregOps, callVars
<1>5. stopped \subseteq stopped' /\ given \subseteq given' /\ (metrics' = metrics \/ mutex = p)
  BY <1>0 DEF Locked, Holding, CallUnregister, Enter, Shape, callVars
<1>6. \A q \in Procs \ {p} : Shape(q)'
  BY <1>0, <1>2, <1>5, OthersKeepShape DEF ShapeInv
<1> QED
  BY <1>1, <1>3, <1>4, <1>6 DEF ShapeInv

\* Stop begins with a meter the arbiter knows.
LEMMA CallStopShape ==
  ASSUME ShapeInv, NEW p \in Procs, CallStop(p)
  PROVE  ShapeInv'
<1>0. Typed /\ Locked /\ Shape(p) /\ \A q \in Procs : Shape(q)
  BY DEF ShapeInv
<1> USE RegistryAssumption
<1>1. Typed'
  BY <1>0 DEF Typed, CallStop, Enter, Shape, Steps, Ops, RegOps, UnregOps, callVars
<1>2. OthersStay(p)
  BY <1>0 DEF Typed, OthersStay, CallStop, Enter, callVars
<1>3. Locked'
  BY <1>0, <1>1, <1>2 DEF Typed, Locked, Holding, OthersStay, CallStop, Enter, Shape, callVars
<1>4. Shape(p)'
  BY <1>0 DEF Typed, Locked, Holding, CallStop, Enter, Shape, Steps, Ops, RegOps, UnregOps, callVars
<1>5. stopped \subseteq stopped' /\ given \subseteq given' /\ (metrics' = metrics \/ mutex = p)
  BY <1>0 DEF Locked, Holding, CallStop, Enter, Shape, callVars
<1>6. \A q \in Procs \ {p} : Shape(q)'
  BY <1>0, <1>2, <1>5, OthersKeepShape DEF ShapeInv
<1> QED
  BY <1>1, <1>3, <1>4, <1>6 DEF ShapeInv

\* A new meter is known to the arbiter.
LEMMA NewShape ==
  ASSUME ShapeInv, NEW p \in Procs, New(p)
  PROVE  ShapeInv'
<1>0. Typed /\ Locked /\ Shape(p) /\ \A q \in Procs : Shape(q)
  BY DEF ShapeInv
<1> USE RegistryAssumption
<1>1. Typed'
  BY <1>0 DEF Typed, New, Goto, Shape, Steps, Ops, RegOps, UnregOps, callVars
<1>2. OthersStay(p)
  BY <1>0 DEF Typed, OthersStay, New, Goto, callVars
<1>3. Locked'
  BY <1>0, <1>1, <1>2 DEF Typed, Locked, Holding, OthersStay, New, Goto, Shape, callVars
<1>4. Shape(p)'
  BY <1>0 DEF Typed, Locked, Holding, New, Goto, Shape, Steps, Ops, RegOps, UnregOps, callVars
<1>5. stopped \subseteq stopped' /\ given \subseteq given' /\ (metrics' = metrics \/ mutex = p)
  BY <1>0 DEF Locked, Holding, New, Goto, Shape, callVars
<1>6. \A q \in Procs \ {p} : Shape(q)'
  BY <1>0, <1>2, <1>5, OthersKeepShape DEF ShapeInv
<1> QED
  BY <1>1, <1>3, <1>4, <1>6 DEF ShapeInv

\* A hit returns, a miss goes on to the write lock.
LEMMA ReadShape ==
  ASSUME ShapeInv, NEW p \in Procs, Read(p)
  PROVE  ShapeInv'
<1>0. Typed /\ Locked /\ Shape(p) /\ \A q \in Procs : Shape(q)
  BY DEF ShapeInv
<1> USE RegistryAssumption
<1>1. Typed'
  <2>1. pc' \in [Procs -> Steps] /\ op' \in [Procs -> Ops] /\ lazy' \in [Procs -> BOOLEAN]
    BY <1>0 DEF Typed, Read, Goto, Leave, Grant, Shape, Steps, Ops
  <2>2. arg' \in [Procs -> Metrics \cup {Nil}]
    BY <1>0 DEF Typed, Read, Goto, Leave, Grant, Shape
  <2>3. metrics' \in [Names -> (Metrics \ Unknown) \cup {Nil}]
    BY <1>0 DEF Typed, Read, Goto, Leave, Grant, Shape
  <2>4. granted' \in [Names -> SUBSET Metrics]
    BY <1>0 DEF Typed, Read, Goto, Leave, Grant, Shape
  <2>5. gone' \subseteq Metrics /\ mutex' \in Procs \cup {Nil}
    BY <1>0 DEF Typed, Read, Goto, Leave, Grant, Shape
  <2>6. /\ arbiter' \subseteq Meters /\ stopped' \subseteq Meters
        /\ toTick' \subseteq Meters /\ ticking' \in BOOLEAN
        /\ todo' \in [Procs -> SUBSET Names] /\ UNCHANGED <<name, given, created>>
    BY <1>0 DEF Typed, Read, Goto, Leave, Grant, Shape
  <2> QED
    BY <1>0, <2>1, <2>2, <2>3, <2>4, <2>5, <2>6 DEF Typed
<1>2. OthersStay(p)
  BY <1>0 DEF Typed, OthersStay, Read, Goto, Leave, Grant, callVars
<1>3. Locked'
  BY <1>0, <1>1, <1>2 DEF Typed, Locked, Holding, OthersStay, Read, Goto, Leave, Grant, Shape, callVars
<1>4. Shape(p)'
  BY <1>0 DEF Typed, Locked, Holding, Read, Goto, Leave, Grant, Shape, Steps, Ops, RegOps, UnregOps, callVars
<1>5. stopped \subseteq stopped' /\ given \subseteq given' /\ (metrics' = metrics \/ mutex = p)
  BY <1>0 DEF Locked, Holding, Read, Goto, Leave, Grant, Shape, callVars
<1>6. \A q \in Procs \ {p} : Shape(q)'
  BY <1>0, <1>2, <1>5, OthersKeepShape DEF ShapeInv
<1> QED
  BY <1>1, <1>3, <1>4, <1>6 DEF ShapeInv

\* The lock is taken, unless the metric is there by now.
LEMMA LockShape ==
  ASSUME ShapeInv, NEW p \in Procs, Lock(p)
  PROVE  ShapeInv'
<1>0. Typed /\ Locked /\ Shape(p) /\ \A q \in Procs : Shape(q)
  BY DEF ShapeInv
<1> USE RegistryAssumption
<1>1. Typed'
  <2>1. pc' \in [Procs -> Steps] /\ op' \in [Procs -> Ops] /\ lazy' \in [Procs -> BOOLEAN]
    <3>1. \/ pc' = [pc EXCEPT ![p] = "idle"] /\ op' = [op EXCEPT ![p] = "none"]
            /\ lazy' = [lazy EXCEPT ![p] = FALSE]
          \/ \E to \in {"remove", "lazy", "store"} :
               pc' = [pc EXCEPT ![p] = to] /\ op' = op /\ lazy' = lazy
      BY <1>0 DEF Lock, Goto, Leave
    <3> QED
      BY <1>0, <3>1 DEF Typed, Steps, Ops
  <2>2. arg' \in [Procs -> Metrics \cup {Nil}]
    BY <1>0 DEF Typed, Lock, Goto, Leave, Grant, Shape
  <2>3. metrics' \in [Names -> (Metrics \ Unknown) \cup {Nil}]
    BY <1>0 DEF Typed, Lock, Goto, Leave, Grant, Shape
  <2>4. granted' \in [Names -> SUBSET Metrics]
    BY <1>0 DEF Typed, Lock, Goto, Leave, Grant, Shape
  <2>5. gone' \subseteq Metrics /\ mutex' \in Procs \cup {Nil}
    BY <1>0 DEF Typed, Lock, Goto, Leave, Grant, Shape
  <2>6. /\ arbiter' \subseteq Meters /\ stopped' \subseteq Meters
        /\ toTick' \subseteq Meters /\ ticking' \in BOOLEAN
        /\ todo' \in [Procs -> SUBSET Names] /\ UNCHANGED <<name, given, created>>
    BY <1>0 DEF Typed, Lock, Goto, Leave, Grant, Shape
  <2> QED
    BY <1>0, <2>1, <2>2, <2>3, <2>4, <2>5, <2>6 DEF Typed
<1>2. OthersStay(p)
  BY <1>0 DEF Typed, OthersStay, Lock, Goto, Leave, Grant, callVars
<1>3. Locked'
  BY <1>0, <1>1, <1>2 DEF Typed, Locked, Holding, OthersStay, Lock, Goto, Leave, Grant, Shape, callVars
<1>4. Shape(p)'
  BY <1>0 DEF Typed, Locked, Holding, Lock, Goto, Leave, Grant, Shape, Steps, Ops, RegOps, UnregOps, callVars
<1>5. stopped \subseteq stopped' /\ given \subseteq given' /\ (metrics' = metrics \/ mutex = p)
  BY <1>0 DEF Locked, Holding, Lock, Goto, Leave, Grant, Shape, callVars
<1>6. \A q \in Procs \ {p} : Shape(q)'
  BY <1>0, <1>2, <1>5, OthersKeepShape DEF ShapeInv
<1> QED
  BY <1>1, <1>3, <1>4, <1>6 DEF ShapeInv

\* The function runs with the mutex held.
LEMMA LazyNewShape ==
  ASSUME ShapeInv, NEW p \in Procs, LazyNew(p)
  PROVE  ShapeInv'
<1>0. Typed /\ Locked /\ Shape(p) /\ \A q \in Procs : Shape(q)
  BY DEF ShapeInv
<1> USE RegistryAssumption
<1>1. Typed'
  BY <1>0 DEF Typed, LazyNew, Goto, Shape, Steps, Ops, RegOps, UnregOps, callVars
<1>2. OthersStay(p)
  BY <1>0 DEF Typed, OthersStay, LazyNew, Goto, callVars
<1>3. Locked'
  BY <1>0, <1>1, <1>2 DEF Typed, Locked, Holding, OthersStay, LazyNew, Goto, Shape, callVars
<1>4. Shape(p)'
  BY <1>0 DEF Typed, Locked, Holding, LazyNew, Goto, Shape, Steps, Ops, RegOps, UnregOps, callVars
<1>5. stopped \subseteq stopped' /\ given \subseteq given' /\ (metrics' = metrics \/ mutex = p)
  BY <1>0 DEF Locked, Holding, LazyNew, Goto, Shape, callVars
<1>6. \A q \in Procs \ {p} : Shape(q)'
  BY <1>0, <1>2, <1>5, OthersKeepShape DEF ShapeInv
<1> QED
  BY <1>1, <1>3, <1>4, <1>6 DEF ShapeInv

\* A metric is stored under a name that was free since the lock was taken.
LEMMA StoreShape ==
  ASSUME ShapeInv, NEW p \in Procs, Store(p)
  PROVE  ShapeInv'
<1>0. Typed /\ Locked /\ Shape(p) /\ \A q \in Procs : Shape(q)
  BY DEF ShapeInv
<1> USE RegistryAssumption
<1>1. Typed'
  BY <1>0 DEF Typed, Store, Leave, Grant, Shape, Steps, Ops, RegOps, UnregOps, callVars
<1>2. OthersStay(p)
  BY <1>0 DEF Typed, OthersStay, Store, Leave, Grant, callVars
<1>3. Locked'
  BY <1>0, <1>1, <1>2 DEF Typed, Locked, Holding, OthersStay, Store, Leave, Grant, Shape, callVars
<1>4. Shape(p)'
  BY <1>0 DEF Typed, Locked, Holding, Store, Leave, Grant, Shape, Steps, Ops, RegOps, UnregOps, callVars
<1>5. stopped \subseteq stopped' /\ given \subseteq given' /\ (metrics' = metrics \/ mutex = p)
  BY <1>0 DEF Locked, Holding, Store, Leave, Grant, Shape, callVars
<1>6. \A q \in Procs \ {p} : Shape(q)'
  BY <1>0, <1>2, <1>5, OthersKeepShape DEF ShapeInv
<1> QED
  BY <1>1, <1>3, <1>4, <1>6 DEF ShapeInv

\* A meter is to be stopped, another metric goes at once.
LEMMA UnregisterNextShape ==
  ASSUME ShapeInv, NEW p \in Procs, UnregisterNext(p)
  PROVE  ShapeInv'
<1>0. Typed /\ Locked /\ Shape(p) /\ \A q \in Procs : Shape(q)
  BY DEF ShapeInv
<1> USE RegistryAssumption
<1>1. Typed'
  <2>1. pc' \in [Procs -> Steps] /\ op' \in [Procs -> Ops] /\ lazy' \in [Procs -> BOOLEAN]
    <3>1. \/ pc' = [pc EXCEPT ![p] = "idle"] /\ op' = [op EXCEPT ![p] = "none"]
            /\ lazy' = [lazy EXCEPT ![p] = FALSE]
          \/ pc' = [pc EXCEPT ![p] = "cas"] /\ op' = op /\ lazy' = lazy
          \/ UNCHANGED <<pc, op, lazy>>
      BY <1>0 DEF UnregisterNext, Leave
    <3> QED
      BY <1>0, <3>1 DEF Typed, Steps, Ops
  <2>2. arg' \in [Procs -> Metrics \cup {Nil}]
    BY <1>0 DEF Typed, UnregisterNext, Leave, Forget, Shape
  <2>3. metrics' \in [Names -> (Metrics \ Unknown) \cup {Nil}]
    BY <1>0 DEF Typed, UnregisterNext, Leave, Forget, Shape
  <2>4. granted' \in [Names -> SUBSET Metrics]
    BY <1>0 DEF Typed, UnregisterNext, Leave, Forget, Shape
  <2>5. gone' \subseteq Metrics /\ mutex' \in Procs \cup {Nil}
    BY <1>0 DEF Typed, UnregisterNext, Leave, Forget, Shape
  <2>6. /\ arbiter' \subseteq Meters /\ stopped' \subseteq Meters
        /\ toTick' \subseteq Meters /\ ticking' \in BOOLEAN
        /\ todo' \in [Procs -> SUBSET Names] /\ UNCHANGED <<name, given, created>>
    BY <1>0 DEF Typed, UnregisterNext, Leave, Forget, Shape
  <2> QED
    BY <1>0, <2>1, <2>2, <2>3, <2>4, <2>5, <2>6 DEF Typed
<1>2. OthersStay(p)
  BY <1>0 DEF Typed, OthersStay, UnregisterNext, Leave, Forget, callVars
<1>3. Locked'
  <2>1. /\ pc[p] = "remove" /\ op[p] \in UnregOps /\ mutex = p
        /\ UNCHANGED <<toTick, arbiter, ticking>>
    BY <1>0 DEF UnregisterNext, Shape, Locked, Holding
  <2>2. \/ pc'[p] = "idle" /\ mutex' = Nil
        \/ pc'[p] \in {"cas", "remove"} /\ op'[p] = op[p] /\ mutex' = mutex
    BY <1>0 DEF Typed, UnregisterNext, Leave
  <2>3. mutex' = p <=> Holding(p)'
    BY <2>1, <2>2 DEF Holding, UnregOps
  <2>4. ASSUME NEW q \in Procs \ {p} PROVE mutex' = q <=> Holding(q)'
    BY <1>0, <1>2, <2>1, <2>2 DEF Locked, Holding, OthersStay
  <2> QED
    BY <1>0, <2>1, <2>3, <2>4 DEF Locked
<1>4. Shape(p)'
  BY <1>0 DEF Typed, Locked, Holding, UnregisterNext, Leave, Forget, Shape, Steps, Ops, RegOps, UnregOps, callVars
<1>5. stopped \subseteq stopped' /\ given \subseteq given' /\ (metrics' = metrics \/ mutex = p)
  BY <1>0 DEF Locked, Holding, UnregisterNext, Leave, Forget, Shape, callVars
<1>6. \A q \in Procs \ {p} : Shape(q)'
  BY <1>0, <1>2, <1>5, OthersKeepShape DEF ShapeInv
<1> QED
  BY <1>1, <1>3, <1>4, <1>6 DEF ShapeInv

\* The first Stop goes on; the meter is stopped either way.
LEMMA StopOnceShape ==
  ASSUME ShapeInv, NEW p \in Procs, StopOnce(p)
  PROVE  ShapeInv'
<1>0. Typed /\ Locked /\ Shape(p) /\ \A q \in Procs : Shape(q)
  BY DEF ShapeInv
<1> USE RegistryAssumption
<1>1. Typed'
  <2>1. pc' \in [Procs -> Steps] /\ op' \in [Procs -> Ops] /\ lazy' \in [Procs -> BOOLEAN]
    BY <1>0 DEF Typed, StopOnce, AfterStop, Goto, Leave, Forget, Shape, Steps, Ops
  <2>2. arg' \in [Procs -> Metrics \cup {Nil}]
    BY <1>0 DEF Typed, StopOnce, AfterStop, Goto, Leave, Forget, Shape
  <2>3. metrics' \in [Names -> (Metrics \ Unknown) \cup {Nil}]
    <3>1. metrics' = metrics \/ \E n : metrics' = [metrics EXCEPT ![n] = Nil]
      BY <1>0 DEF StopOnce, AfterStop, Forget
    <3> QED
      BY <1>0, <3>1 DEF Typed
  <2>4. granted' \in [Names -> SUBSET Metrics]
    BY <1>0 DEF Typed, StopOnce, AfterStop, Goto, Leave, Forget, Shape
  <2>5. gone' \subseteq Metrics /\ mutex' \in Procs \cup {Nil}
    BY <1>0 DEF Typed, StopOnce, AfterStop, Goto, Leave, Forget, Shape
  <2>6. /\ arbiter' \subseteq Meters /\ stopped' \subseteq Meters
        /\ toTick' \subseteq Meters /\ ticking' \in BOOLEAN
        /\ todo' \in [Procs -> SUBSET Names] /\ UNCHANGED <<name, given, created>>
    BY <1>0 DEF Typed, StopOnce, AfterStop, Goto, Leave, Forget, Shape
  <2> QED
    BY <1>0, <2>1, <2>2, <2>3, <2>4, <2>5, <2>6 DEF Typed
<1>2. OthersStay(p)
  BY <1>0 DEF Typed, OthersStay, StopOnce, AfterStop, Goto, Leave, Forget, callVars
<1>3. Locked'
  BY <1>0, <1>1, <1>2 DEF Typed, Locked, Holding, OthersStay, StopOnce, AfterStop, Goto, Leave, Forget, Shape, callVars
<1>4. Shape(p)'
  BY <1>0 DEF Typed, Locked, Holding, StopOnce, AfterStop, Goto, Leave, Forget, Shape, Steps, Ops, RegOps, UnregOps, callVars
<1>5. stopped \subseteq stopped' /\ given \subseteq given' /\ (metrics' = metrics \/ mutex = p)
  BY <1>0 DEF Locked, Holding, StopOnce, AfterStop, Goto, Leave, Forget, Shape, callVars
<1>6. \A q \in Procs \ {p} : Shape(q)'
  BY <1>0, <1>2, <1>5, OthersKeepShape DEF ShapeInv
<1> QED
  BY <1>1, <1>3, <1>4, <1>6 DEF ShapeInv

\* The arbiter forgets the meter, and the registry its name.
LEMMA DeleteShape ==
  ASSUME ShapeInv, NEW p \in Procs, Delete(p)
  PROVE  ShapeInv'
<1>0. Typed /\ Locked /\ Shape(p) /\ \A q \in Procs : Shape(q)
  BY DEF ShapeInv
<1> USE RegistryAssumption
<1>1. Typed'
  <2>1. pc' \in [Procs -> Steps] /\ op' \in [Procs -> Ops] /\ lazy' \in [Procs -> BOOLEAN]
    BY <1>0 DEF Typed, Delete, AfterStop, Goto, Leave, Forget, Shape, Steps, Ops
  <2>2. arg' \in [Procs -> Metrics \cup {Nil}]
    BY <1>0 DEF Typed, Delete, AfterStop, Goto, Leave, Forget, Shape
  <2>3. metrics' \in [Names -> (Metrics \ Unknown) \cup {Nil}]
    <3>1. metrics' = metrics \/ \E n : metrics' = [metrics EXCEPT ![n] = Nil]
      BY <1>0 DEF Delete, AfterStop, Forget
    <3> QED
      BY <1>0, <3>1 DEF Typed
  <2>4. granted' \in [Names -> SUBSET Metrics]
    BY <1>0 DEF Typed, Delete, AfterStop, Goto, Leave, Forget, Shape
  <2>5. gone' \subseteq Metrics /\ mutex' \in Procs \cup {Nil}
    BY <1>0 DEF Typed, Delete, AfterStop, Goto, Leave, Forget, Shape
  <2>6. /\ arbiter' \subseteq Meters /\ stopped' \subseteq Meters
        /\ toTick' \subseteq Meters /\ ticking' \in BOOLEAN
        /\ todo' \in [Procs -> SUBSET Names] /\ UNCHANGED <<name, given, created>>
    BY <1>0 DEF Typed, Delete, AfterStop, Goto, Leave, Forget, Shape
  <2> QED
    BY <1>0, <2>1, <2>2, <2>3, <2>4, <2>5, <2>6 DEF Typed
<1>2. OthersStay(p)
  BY <1>0 DEF Typed, OthersStay, Delete, AfterStop, Goto, Leave, Forget, callVars
<1>3. Locked'
  BY <1>0, <1>1, <1>2 DEF Typed, Locked, Holding, OthersStay, Delete, AfterStop, Goto, Leave, Forget, Shape, callVars
<1>4. Shape(p)'
  BY <1>0 DEF Typed, Locked, Holding, Delete, AfterStop, Goto, Leave, Forget, Shape, Steps, Ops, RegOps, UnregOps, callVars
<1>5. stopped \subseteq stopped' /\ given \subseteq given' /\ (metrics' = metrics \/ mutex = p)
  BY <1>0 DEF Locked, Holding, Delete, AfterStop, Goto, Leave, Forget, Shape, callVars
<1>6. \A q \in Procs \ {p} : Shape(q)'
  BY <1>0, <1>2, <1>5, OthersKeepShape DEF ShapeInv
<1> QED
  BY <1>1, <1>3, <1>4, <1>6 DEF ShapeInv

\* The arbiter touches no goroutine and holds its lock as long as it ticks.
LEMMA ArbiterShape == ShapeInv /\ (Arbiter \/ UNCHANGED vars) => ShapeInv'
<1> SUFFICES ASSUME ShapeInv, Arbiter \/ UNCHANGED vars PROVE ShapeInv'
    OBVIOUS
<1>0. Typed /\ Locked /\ \A p \in Procs : Shape(p)
  BY DEF ShapeInv
<1>1. /\ UNCHANGED <<metrics, mutex, arbiter, stopped, callVars, granted, gone>>
      /\ toTick' \subseteq arbiter /\ ticking' \in BOOLEAN /\ (toTick' # {} => ticking')
  BY <1>0 DEF Typed, Locked, Arbiter, TickBegin, TickMeter, TickEnd, vars
<1>2. Typed' /\ Locked'
  BY <1>0, <1>1 DEF Typed, Locked, Holding, callVars
<1>3. \A p \in Procs : Shape(p)'
  BY <1>0, <1>1 DEF Shape, callVars
<1> QED
  BY <1>2, <1>3 DEF ShapeInv

\* One lemma per step.
LEMMA StepKeepsShape == ShapeInv /\ [Next]_vars => ShapeInv'
  BY ArbiterShape, CallRegisterShape, CallUnregisterShape, CallStopShape, NewShape, ReadShape,
     LockShape, LazyNewShape, StoreShape, UnregisterNextShape, StopOnceShape, DeleteShape
     DEF Next, Call, Proceed

\* Nobody has begun.
LEMMA InitShape == Init => ShapeInv
<1> SUFFICES ASSUME Init PROVE ShapeInv
    OBVIOUS
<1>1. Typed
  BY RegistryAssumption DEF Init, Typed, Steps, Ops
<1>2. Locked
  BY RegistryAssumption DEF Init, Locked, Holding
<1>3. \A p \in Procs : Shape(p)
  BY DEF Init, Shape, RegOps, UnregOps
<1> QED
  BY <1>1, <1>2, <1>3 DEF ShapeInv

\* Every variable keeps its type, and the registry's mutex is held exactly at
\* the places of the code between its Lock and its Unlock.
THEOREM TypeCorrect == Spec => []TypeOK
<1>1. ShapeInv => TypeOK
  BY DEF ShapeInv, Typed, Locked, Holding, TypeOK
<1> QED
  BY <1>1, InitShape, StepKeepsShape, PTL DEF Spec

-----------------------------------------------------------------------------
(* One metric per name.                                                    *)

\* Where the name is free, GetOrRegister has granted nothing that counts.
LEMMA StepKeepsOne == ShapeInv /\ OneMetricPerName /\ [Next]_vars => OneMetricPerName'
<1> SUFFICES ASSUME ShapeInv, OneMetricPerName, [Next]_vars PROVE OneMetricPerName'
    OBVIOUS
<1> USE RegistryAssumption
<1>0. /\ Typed /\ \A p \in Procs : Shape(p)
      /\ metrics \in [Names -> (Metrics \ Unknown) \cup {Nil}]
      /\ granted \in [Names -> SUBSET Metrics] /\ name \in [Procs -> Names]
  BY DEF ShapeInv, Typed
<1>1. ASSUME metrics' = metrics, granted' = granted PROVE OneMetricPerName'
  BY <1>1 DEF OneMetricPerName
<1>2. ASSUME NEW p \in Procs, metrics' = metrics, Grant(p, metrics[name[p]])
      PROVE  OneMetricPerName'
  BY <1>0, <1>2 DEF OneMetricPerName, Grant
<1>3. ASSUME NEW n, Forget(n) PROVE OneMetricPerName'
  BY <1>0, <1>3 DEF OneMetricPerName, Forget
<1>4. ASSUME NEW p \in Procs, Store(p) PROVE OneMetricPerName'
  <2> DEFINE k == name[p]
  <2>1. k \in Names /\ arg[p] \in Metrics /\ (op[p] = "getOrRegister" => metrics[k] = Nil)
    BY <1>0, <1>4 DEF Store, Leave, Shape, RegOps
  <2>2. metrics[k] = Nil => granted[k] \subseteq Unknown
    BY <1>0, <2>1 DEF OneMetricPerName
  <2>3. /\ metrics' = IF metrics[k] = Nil /\ arg[p] \notin Unknown
                       THEN [metrics EXCEPT ![k] = arg[p]] ELSE metrics
        /\ IF op[p] = "getOrRegister" THEN granted' = [granted EXCEPT ![k] = @ \cup {arg[p]}]
                                     ELSE granted' = granted
    BY <1>4 DEF Store, Grant
  <2> HIDE DEF k
  <2>4. CASE op[p] = "getOrRegister"
    BY <1>0, <2>1, <2>2, <2>3, <2>4 DEF OneMetricPerName
  <2>5. CASE op[p] # "getOrRegister"
    BY <1>0, <2>1, <2>2, <2>3, <2>5 DEF OneMetricPerName
  <2> QED
    BY <2>4, <2>5
<1>5. ASSUME NEW p \in Procs, Read(p) \/ Lock(p) PROVE OneMetricPerName'
  <2>1. metrics' = metrics /\ (granted' = granted \/ Grant(p, metrics[name[p]]))
    BY <1>5 DEF Read, Lock
  <2> QED
    BY <1>1, <1>2, <2>1
<1>6. ASSUME NEW p \in Procs, UnregisterNext(p) \/ StopOnce(p) \/ Delete(p)
      PROVE  OneMetricPerName'
  <2>1. (metrics' = metrics /\ granted' = granted) \/ \E n : Forget(n)
    BY <1>6 DEF UnregisterNext, StopOnce, Delete, AfterStop
  <2> QED
    BY <1>1, <1>3, <2>1
<1>7. ASSUME NEW p \in Procs,
             CallRegister(p) \/ CallUnregister(p) \/ CallStop(p) \/ New(p) \/ LazyNew(p)
      PROVE  OneMetricPerName'
  BY <1>1, <1>7 DEF CallRegister, CallUnregister, CallStop, New, LazyNew
<1>8. CASE Arbiter \/ UNCHANGED vars
  BY <1>1, <1>8 DEF Arbiter, TickBegin, TickMeter, TickEnd, vars
<1> QED
  BY <1>4, <1>5, <1>6, <1>7, <1>8 DEF Next, Call, Proceed

\* All who ask GetOrRegister for a name get the one metric under it, until it
\* is unregistered, for any number of goroutines and names.
THEOREM OneMetric == Spec => []OneMetricPerName
<1>1. Init => OneMetricPerName
  BY DEF Init, OneMetricPerName
<1> QED
  BY <1>1, InitShape, StepKeepsShape, StepKeepsOne, PTL DEF Spec

-----------------------------------------------------------------------------
(* No meter is orphaned.                                                   *)

\* A metric that is still to be made.
Pending(p) ==
  op[p] \in RegOps /\ (pc[p] = "new" \/ (lazy[p] /\ pc[p] \in {"read", "lock", "lazy"}))

\* Nobody can have stopped, registered or passed it.
Fresh(p) ==
  Pending(p) =>
    /\ arg[p] \notin arbiter \cup stopped
    /\ \A n \in Names : metrics[n] # arg[p]
    /\ \A q \in Procs \ {p} : arg[q] # arg[p]

\* Whatever the arbiter, the registry or a call knows has been created, so a
\* new call's metric is fresh.
Known ==
  /\ arbiter \subseteq created /\ stopped \subseteq created
  /\ \A n \in Names : metrics[n] \in created \cup {Nil}
  /\ \A p \in Procs : arg[p] \in created \cup {Nil}

\* The inductive invariant: a meter that joins the arbiter is fresh, so it is
\* not stopped already; this is what keeps stopped meters out.
MeterInv == ShapeInv /\ Known /\ (\A p \in Procs : Fresh(p)) /\ NoMeterIsOrphaned

\* The new metric has not been created before.
LEMMA CallRegisterKeepsMeters ==
  ASSUME MeterInv, NEW p \in Procs, CallRegister(p)
  PROVE  Known' /\ (\A r \in Procs : Fresh(r)') /\ NoMeterIsOrphaned'
<1> USE RegistryAssumption
<1>0. /\ Typed /\ Locked /\ Shape(p) /\ Known /\ Fresh(p)
      /\ MadeMetersAreKnown /\ GoneMetersStop
      /\ \A q \in Procs : Shape(q) /\ Fresh(q)
  BY DEF MeterInv, ShapeInv, NoMeterIsOrphaned
<1>1. Known'
  BY <1>0 DEF Known, Typed, Shape, CallRegister, Enter, callVars
<1>2. ASSUME NEW r \in Procs PROVE Fresh(r)'
  BY <1>0 DEF Known, Fresh, Pending, Shape, Typed, RegOps, UnregOps, CallRegister, Enter, callVars
<1>3. MadeMetersAreKnown'
  BY <1>0 DEF MadeMetersAreKnown, Fresh, Pending, Shape, Typed, RegOps, UnregOps, CallRegister, Enter, callVars
<1>4. GoneMetersStop'
  BY <1>0 DEF GoneMetersStop, Fresh, Pending, Shape, Typed, RegOps, UnregOps, CallRegister, Enter, callVars
<1> QED
  BY <1>1, <1>2, <1>3, <1>4 DEF NoMeterIsOrphaned

\* Nothing changes for the meters.
LEMMA CallUnregisterKeepsMeters ==
  ASSUME MeterInv, NEW p \in Procs, CallUnregister(p)
  PROVE  Known' /\ (\A r \in Procs : Fresh(r)') /\ NoMeterIsOrphaned'
<1> USE RegistryAssumption
<1>0. /\ Typed /\ Locked /\ Shape(p) /\ Known /\ Fresh(p)
      /\ MadeMetersAreKnown /\ GoneMetersStop
      /\ \A q \in Procs : Shape(q) /\ Fresh(q)
  BY DEF MeterInv, ShapeInv, NoMeterIsOrphaned
<1>1. Known'
  BY <1>0 DEF Known, Typed, Shape, CallUnregister, Enter, callVars
<1>2. ASSUME NEW r \in Procs PROVE Fresh(r)'
  BY <1>0 DEF Known, Fresh, Pending, Shape, Typed, RegOps, UnregOps, CallUnregister, Enter, callVars
<1>3. MadeMetersAreKnown'
  BY <1>0 DEF MadeMetersAreKnown, Fresh, Pending, Shape, Typed, RegOps, UnregOps, CallUnregister, Enter, callVars
<1>4. GoneMetersStop'
  BY <1>0 DEF GoneMetersStop, Fresh, Pending, Shape, Typed, RegOps, UnregOps, CallUnregister, Enter, callVars
<1> QED
  BY <1>1, <1>2, <1>3, <1>4 DEF NoMeterIsOrphaned

\* Stop takes a meter of the arbiter, which is not fresh.
LEMMA CallStopKeepsMeters ==
  ASSUME MeterInv, NEW p \in Procs, CallStop(p)
  PROVE  Known' /\ (\A r \in Procs : Fresh(r)') /\ NoMeterIsOrphaned'
<1> USE RegistryAssumption
<1>0. /\ Typed /\ Locked /\ Shape(p) /\ Known /\ Fresh(p)
      /\ MadeMetersAreKnown /\ GoneMetersStop
      /\ \A q \in Procs : Shape(q) /\ Fresh(q)
  BY DEF MeterInv, ShapeInv, NoMeterIsOrphaned
<1>1. Known'
  BY <1>0 DEF Known, Typed, Shape, CallStop, Enter, callVars
<1>2. ASSUME NEW r \in Procs PROVE Fresh(r)'
  BY <1>0 DEF Known, Fresh, Pending, Shape, Typed, RegOps, UnregOps, CallStop, Enter, callVars
<1>3. MadeMetersAreKnown'
  BY <1>0 DEF MadeMetersAreKnown, Fresh, Pending, Shape, Typed, RegOps, UnregOps, CallStop, Enter, callVars
<1>4. GoneMetersStop'
  BY <1>0 DEF GoneMetersStop, Fresh, Pending, Shape, Typed, RegOps, UnregOps, CallStop, Enter, callVars
<1> QED
  BY <1>1, <1>2, <1>3, <1>4 DEF NoMeterIsOrphaned

\* The meter that joins the arbiter is not stopped.
LEMMA NewKeepsMeters ==
  ASSUME MeterInv, NEW p \in Procs, New(p)
  PROVE  Known' /\ (\A r \in Procs : Fresh(r)') /\ NoMeterIsOrphaned'
<1> USE RegistryAssumption
<1>0. /\ Typed /\ Locked /\ Shape(p) /\ Known /\ Fresh(p)
      /\ MadeMetersAreKnown /\ GoneMetersStop
      /\ \A q \in Procs : Shape(q) /\ Fresh(q)
  BY DEF MeterInv, ShapeInv, NoMeterIsOrphaned
<1>1. Known'
  BY <1>0 DEF Known, Typed, Shape, New, Goto, callVars
<1>2. ASSUME NEW r \in Procs PROVE Fresh(r)'
  BY <1>0 DEF Known, Fresh, Pending, Shape, Typed, RegOps, UnregOps, New, Goto, callVars
<1>3. MadeMetersAreKnown'
  BY <1>0 DEF MadeMetersAreKnown, Fresh, Pending, Shape, Typed, RegOps, UnregOps, New, Goto, callVars
<1>4. GoneMetersStop'
  BY <1>0 DEF GoneMetersStop, Fresh, Pending, Shape, Typed, RegOps, UnregOps, New, Goto, callVars
<1> QED
  BY <1>1, <1>2, <1>3, <1>4 DEF NoMeterIsOrphaned

\* What is given up was made by its caller or not made at all.
LEMMA ReadKeepsMeters ==
  ASSUME MeterInv, NEW p \in Procs, Read(p)
  PROVE  Known' /\ (\A r \in Procs : Fresh(r)') /\ NoMeterIsOrphaned'
<1> USE RegistryAssumption
<1>0. /\ Typed /\ Locked /\ Shape(p) /\ Known /\ Fresh(p)
      /\ MadeMetersAreKnown /\ GoneMetersStop
      /\ \A q \in Procs : Shape(q) /\ Fresh(q)
  BY DEF MeterInv, ShapeInv, NoMeterIsOrphaned
<1>1. Known'
  BY <1>0 DEF Known, Typed, Shape, Read, Goto, Leave, callVars
<1>2. ASSUME NEW r \in Procs PROVE Fresh(r)'
  BY <1>0 DEF Known, Fresh, Pending, Shape, Typed, RegOps, UnregOps, Read, Goto, Leave, callVars
<1>3. MadeMetersAreKnown'
  BY <1>0 DEF MadeMetersAreKnown, Fresh, Pending, Shape, Typed, RegOps, UnregOps, Read, Goto, Leave, callVars
<1>4. GoneMetersStop'
  BY <1>0 DEF GoneMetersStop, Fresh, Pending, Shape, Typed, RegOps, UnregOps, Read, Goto, Leave, callVars
<1> QED
  BY <1>1, <1>2, <1>3, <1>4 DEF NoMeterIsOrphaned

\* What is given up was made by its caller or not made at all.
LEMMA LockKeepsMeters ==
  ASSUME MeterInv, NEW p \in Procs, Lock(p)
  PROVE  Known' /\ (\A r \in Procs : Fresh(r)') /\ NoMeterIsOrphaned'
<1> USE RegistryAssumption
<1>0. /\ Typed /\ Locked /\ Shape(p) /\ Known /\ Fresh(p)
      /\ MadeMetersAreKnown /\ GoneMetersStop
      /\ \A q \in Procs : Shape(q) /\ Fresh(q)
  BY DEF MeterInv, ShapeInv, NoMeterIsOrphaned
<1>1. Known'
  BY <1>0 DEF Known, Typed, Shape, Lock, Goto, Leave, callVars
<1>2. ASSUME NEW r \in Procs PROVE Fresh(r)'
  BY <1>0 DEF Known, Fresh, Pending, Shape, Typed, RegOps, UnregOps, Lock, Goto, Leave, callVars
<1>3. MadeMetersAreKnown'
  BY <1>0 DEF MadeMetersAreKnown, Fresh, Pending, Shape, Typed, RegOps, UnregOps, Lock, Goto, Leave, callVars
<1>4. GoneMetersStop'
  BY <1>0 DEF GoneMetersStop, Fresh, Pending, Shape, Typed, RegOps, UnregOps, Lock, Goto, Leave, callVars
<1> QED
  BY <1>1, <1>2, <1>3, <1>4 DEF NoMeterIsOrphaned

\* The meter that joins the arbiter is not stopped.
LEMMA LazyNewKeepsMeters ==
  ASSUME MeterInv, NEW p \in Procs, LazyNew(p)
  PROVE  Known' /\ (\A r \in Procs : Fresh(r)') /\ NoMeterIsOrphaned'
<1> USE RegistryAssumption
<1>0. /\ Typed /\ Locked /\ Shape(p) /\ Known /\ Fresh(p)
      /\ MadeMetersAreKnown /\ GoneMetersStop
      /\ \A q \in Procs : Shape(q) /\ Fresh(q)
  BY DEF MeterInv, ShapeInv, NoMeterIsOrphaned
<1>1. Known'
  BY <1>0 DEF Known, Typed, Shape, LazyNew, Goto, callVars
<1>2. ASSUME NEW r \in Procs PROVE Fresh(r)'
  BY <1>0 DEF Known, Fresh, Pending, Shape, Typed, RegOps, UnregOps, LazyNew, Goto, callVars
<1>3. MadeMetersAreKnown'
  BY <1>0 DEF MadeMetersAreKnown, Fresh, Pending, Shape, Typed, RegOps, UnregOps, LazyNew, Goto, callVars
<1>4. GoneMetersStop'
  BY <1>0 DEF GoneMetersStop, Fresh, Pending, Shape, Typed, RegOps, UnregOps, LazyNew, Goto, callVars
<1> QED
  BY <1>1, <1>2, <1>3, <1>4 DEF NoMeterIsOrphaned

\* A meter that was made is registered, since the name is free.
LEMMA StoreKeepsMeters ==
  ASSUME MeterInv, NEW p \in Procs, Store(p)
  PROVE  Known' /\ (\A r \in Procs : Fresh(r)') /\ NoMeterIsOrphaned'
<1> USE RegistryAssumption
<1>0. /\ Typed /\ Locked /\ Shape(p) /\ Known /\ Fresh(p)
      /\ MadeMetersAreKnown /\ GoneMetersStop
      /\ \A q \in Procs : Shape(q) /\ Fresh(q)
  BY DEF MeterInv, ShapeInv, NoMeterIsOrphaned
<1>1. Known'
  BY <1>0 DEF Known, Typed, Shape, Store, Leave, callVars
<1>2. ASSUME NEW r \in Procs PROVE Fresh(r)'
  BY <1>0 DEF Known, Fresh, Pending, Shape, Typed, RegOps, UnregOps, Store, Leave, callVars
<1>3. MadeMetersAreKnown'
  BY <1>0 DEF MadeMetersAreKnown, Fresh, Pending, Shape, Typed, RegOps, UnregOps, Store, Leave, callVars
<1>4. GoneMetersStop'
  BY <1>0 DEF GoneMetersStop, Fresh, Pending, Shape, Typed, RegOps, UnregOps, Store, Leave, callVars
<1> QED
  BY <1>1, <1>2, <1>3, <1>4 DEF NoMeterIsOrphaned

\* A meter is not forgotten before it is stopped.
LEMMA UnregisterNextKeepsMeters ==
  ASSUME MeterInv, NEW p \in Procs, UnregisterNext(p)
  PROVE  Known' /\ (\A r \in Procs : Fresh(r)') /\ NoMeterIsOrphaned'
<1> USE RegistryAssumption
<1>0. /\ Typed /\ Locked /\ Shape(p) /\ Known /\ Fresh(p)
      /\ MadeMetersAreKnown /\ GoneMetersStop
      /\ \A q \in Procs : Shape(q) /\ Fresh(q)
  BY DEF MeterInv, ShapeInv, NoMeterIsOrphaned
<1>1. Known'
  BY <1>0 DEF Known, Typed, Shape, UnregisterNext, Leave, Forget, callVars
<1>2. ASSUME NEW r \in Procs PROVE Fresh(r)'
  BY <1>0 DEF Known, Fresh, Pending, Shape, Typed, RegOps, UnregOps, UnregisterNext, Leave, Forget, callVars
<1>3. MadeMetersAreKnown'
  BY <1>0 DEF MadeMetersAreKnown, Fresh, Pending, Shape, Typed, RegOps, UnregOps, UnregisterNext, Leave, Forget, callVars
<1>4. GoneMetersStop'
  BY <1>0 DEF GoneMetersStop, Fresh, Pending, Shape, Typed, RegOps, UnregOps, UnregisterNext, Leave, Forget, callVars
<1> QED
  BY <1>1, <1>2, <1>3, <1>4 DEF NoMeterIsOrphaned

\* A stopped meter leaves the arbiter, or its Stop is on the way there.
LEMMA StopOnceKeepsMeters ==
  ASSUME MeterInv, NEW p \in Procs, StopOnce(p)
  PROVE  Known' /\ (\A r \in Procs : Fresh(r)') /\ NoMeterIsOrphaned'
<1> USE RegistryAssumption
<1>0. /\ Typed /\ Locked /\ Shape(p) /\ Known /\ Fresh(p)
      /\ MadeMetersAreKnown /\ GoneMetersStop
      /\ \A q \in Procs : Shape(q) /\ Fresh(q)
  BY DEF MeterInv, ShapeInv, NoMeterIsOrphaned
<1>1. /\ \A n \in Names : metrics'[n] \in {metrics[n], Nil}
      /\ \A q \in Procs : arg'[q] \in {arg[q], Nil}
      /\ arbiter' \subseteq arbiter /\ stopped' \subseteq stopped \cup {arg[p]}
      /\ created' = created /\ arg[p] \in Meters /\ pc[p] \in {"cas", "delete"}
      /\ \A q \in Procs : Pending(q)' => Pending(q)
  <2>1. metrics' = metrics \/ \E n : metrics' = [metrics EXCEPT ![n] = Nil]
    BY DEF StopOnce, AfterStop, Forget
  <2>2. arg' = arg \/ arg' = [arg EXCEPT ![p] = Nil]
    BY DEF StopOnce, AfterStop, Goto, Leave
  <2>3. /\ arbiter' \subseteq arbiter /\ stopped' \subseteq stopped \cup {arg[p]}
        /\ created' = created /\ arg[p] \in Meters /\ pc[p] \in {"cas", "delete"}
    BY <1>0 DEF StopOnce, AfterStop, Goto, Leave, Shape
  <2>4. \A q \in Procs : Pending(q)' => Pending(q)
    BY <1>0, <2>3 DEF Typed, Pending, StopOnce, AfterStop, Goto, Leave, Shape, RegOps, UnregOps
  <2> QED
    BY <1>0, <2>1, <2>2, <2>3, <2>4 DEF Typed
<1>2. Known' /\ \A r \in Procs : Fresh(r)'
  <2>1. Known'
    BY <1>0, <1>1 DEF Known
  <2>2. ASSUME NEW r \in Procs, Pending(r)' PROVE Fresh(r)'
    <3>1. Pending(r) /\ r # p /\ arg'[r] = arg[r] /\ arg[r] # Nil
      BY <1>0, <1>1, <2>2 DEF Typed, Pending, Shape, RegOps, StopOnce, AfterStop, Goto, Leave
    <3> QED
      BY <1>0, <1>1, <3>1 DEF Fresh
  <2> QED
    BY <2>1, <2>2 DEF Fresh
<1>3. MadeMetersAreKnown'
  BY <1>0 DEF MadeMetersAreKnown, Fresh, Pending, Shape, Typed, RegOps, UnregOps, StopOnce, AfterStop, Goto, Leave, Forget, callVars
<1>4. GoneMetersStop'
  BY <1>0 DEF GoneMetersStop, Fresh, Pending, Shape, Typed, RegOps, UnregOps, StopOnce, AfterStop, Goto, Leave, Forget, callVars
<1> QED
  BY <1>2, <1>3, <1>4 DEF NoMeterIsOrphaned

\* The meter has left the arbiter.
LEMMA DeleteKeepsMeters ==
  ASSUME MeterInv, NEW p \in Procs, Delete(p)
  PROVE  Known' /\ (\A r \in Procs : Fresh(r)') /\ NoMeterIsOrphaned'
<1> USE RegistryAssumption
<1>0. /\ Typed /\ Locked /\ Shape(p) /\ Known /\ Fresh(p)
      /\ MadeMetersAreKnown /\ GoneMetersStop
      /\ \A q \in Procs : Shape(q) /\ Fresh(q)
  BY DEF MeterInv, ShapeInv, NoMeterIsOrphaned
<1>1. /\ \A n \in Names : metrics'[n] \in {metrics[n], Nil}
      /\ \A q \in Procs : arg'[q] \in {arg[q], Nil}
      /\ arbiter' \subseteq arbiter /\ stopped' \subseteq stopped \cup {arg[p]}
      /\ created' = created /\ arg[p] \in Meters /\ pc[p] \in {"cas", "delete"}
      /\ \A q \in Procs : Pending(q)' => Pending(q)
  <2>1. metrics' = metrics \/ \E n : metrics' = [metrics EXCEPT ![n] = Nil]
    BY DEF Delete, AfterStop, Forget
  <2>2. arg' = arg \/ arg' = [arg EXCEPT ![p] = Nil]
    BY DEF Delete, AfterStop, Goto, Leave
  <2>3. /\ arbiter' \subseteq arbiter /\ stopped' \subseteq stopped \cup {arg[p]}
        /\ created' = created /\ arg[p] \in Meters /\ pc[p] \in {"cas", "delete"}
    BY <1>0 DEF Delete, AfterStop, Goto, Leave, Shape
  <2>4. \A q \in Procs : Pending(q)' => Pending(q)
    BY <1>0, <2>3 DEF Typed, Pending, Delete, AfterStop, Goto, Leave, Shape, RegOps, UnregOps
  <2> QED
    BY <1>0, <2>1, <2>2, <2>3, <2>4 DEF Typed
<1>2. Known' /\ \A r \in Procs : Fresh(r)'
  <2>1. Known'
    BY <1>0, <1>1 DEF Known
  <2>2. ASSUME NEW r \in Procs, Pending(r)' PROVE Fresh(r)'
    <3>1. Pending(r) /\ r # p /\ arg'[r] = arg[r] /\ arg[r] # Nil
      BY <1>0, <1>1, <2>2 DEF Typed, Pending, Shape, RegOps, Delete, AfterStop, Goto, Leave
    <3> QED
      BY <1>0, <1>1, <3>1 DEF Fresh
  <2> QED
    BY <2>1, <2>2 DEF Fresh
<1>3. MadeMetersAreKnown'
  BY <1>0 DEF MadeMetersAreKnown, Fresh, Pending, Shape, Typed, RegOps, UnregOps, Delete, AfterStop, Goto, Leave, Forget, callVars
<1>4. GoneMetersStop'
  BY <1>0 DEF GoneMetersStop, Fresh, Pending, Shape, Typed, RegOps, UnregOps, Delete, AfterStop, Goto, Leave, Forget, callVars
<1> QED
  BY <1>2, <1>3, <1>4 DEF NoMeterIsOrphaned

\* The arbiter only ticks.
LEMMA ArbiterKeepsMeters ==
  ASSUME MeterInv, Arbiter \/ UNCHANGED vars
  PROVE  Known' /\ (\A r \in Procs : Fresh(r)') /\ NoMeterIsOrphaned'
<1>1. UNCHANGED <<metrics, arbiter, stopped, callVars, gone>>
  BY DEF Arbiter, TickBegin, TickMeter, TickEnd, vars
<1>2. Known' /\ NoMeterIsOrphaned'
  BY <1>1 DEF MeterInv, Known, NoMeterIsOrphaned, MadeMetersAreKnown, GoneMetersStop, callVars
<1>3. \A r \in Procs : Fresh(r)'
  BY <1>1 DEF MeterInv, Fresh, Pending, callVars
<1> QED
  BY <1>2, <1>3

\* The arbiter never ticks a meter that nobody can stop: one that GetOrRegister
\* made is registered or in its maker's hands, and one that was unregistered is
\* stopped, whatever the goroutines do at the same time.
THEOREM NoOrphans == Spec => []NoMeterIsOrphaned
<1>1. Init => MeterInv
  <2> SUFFICES ASSUME Init PROVE MeterInv
    OBVIOUS
  <2>1. ShapeInv
    BY InitShape
  <2>2. Known /\ NoMeterIsOrphaned
    BY DEF Init, Known, NoMeterIsOrphaned, MadeMetersAreKnown, GoneMetersStop
  <2>3. \A p \in Procs : Fresh(p)
    BY DEF Init, Fresh, Pending, RegOps
  <2> QED
    BY <2>1, <2>2, <2>3 DEF MeterInv
<1>2. MeterInv /\ [Next]_vars => MeterInv'
  <2> SUFFICES ASSUME MeterInv, [Next]_vars PROVE MeterInv'
    OBVIOUS
  <2>1. ShapeInv'
    BY StepKeepsShape DEF MeterInv
  <2>2. Known' /\ (\A r \in Procs : Fresh(r)') /\ NoMeterIsOrphaned'
    BY CallRegisterKeepsMeters, CallUnregisterKeepsMeters, CallStopKeepsMeters,
       NewKeepsMeters, ReadKeepsMeters, LockKeepsMeters, LazyNewKeepsMeters,
       StoreKeepsMeters, UnregisterNextKeepsMeters, StopOnceKeepsMeters,
       DeleteKeepsMeters, ArbiterKeepsMeters DEF Next, Call, Proceed
  <2> QED
    BY <2>1, <2>2 DEF MeterInv
<1>3. MeterInv => NoMeterIsOrphaned
  BY DEF MeterInv
<1> QED
  BY <1>1, <1>2, <1>3, PTL DEF Spec

-----------------------------------------------------------------------------
(* Views.                                                                  *)

\* A set of numbers that is not empty has a least one.
LEMMA LeastNumber ==
  ASSUME NEW T, T \subseteq Nat, T # {}
  PROVE  \E x \in T : \A y \in T : x <= y
<1> DEFINE R == OpToRel(<, Nat)
<1>1. IsWellFoundedOn(R, Nat)
  BY NatLessThanWellFounded
<1>2. \A x, y \in Nat : <<y, x>> \in R <=> y < x
  BY DEF OpToRel
<1> HIDE DEF R
<1>3. PICK x \in T : \A y \in T : ~ (<<y, x>> \in R)
  BY <1>1, WFMin
<1>4. ASSUME NEW y \in T PROVE x <= y
  <2>1. x \in Nat /\ y \in Nat
    OBVIOUS
  <2>2. ~ (y < x)
    BY <1>2, <1>3, <2>1
  <2> QED
    BY <2>1, <2>2
<1> QED
  BY <1>4

\* A set that holds zero and with every number the next holds them all.
LEMMA AllNumbers ==
  ASSUME NEW T, 0 \in T, \A k \in Nat : k \in T => k + 1 \in T
  PROVE  Nat \subseteq T
<1> SUFFICES ASSUME Nat \ T # {} PROVE FALSE
    OBVIOUS
<1>1. PICK k \in Nat \ T : \A l \in Nat \ T : k <= l
  BY LeastNumber
<1>2. k - 1 \in Nat /\ ~(k <= k - 1)
  BY <1>1
<1>3. k - 1 \in T
  BY <1>1, <1>2
<1>4. k - 1 + 1 = k
  BY <1>1
<1> QED
  BY <1>1, <1>2, <1>3, <1>4

\* The equation that defines the functions of FindPrefix and RealName.
Built(view, x, m, f) ==
  f = [k \in 0 .. m |-> IF k = 0 THEN x ELSE Longer(view, k, f[k - 1])]

\* What it says of the first place.
LEMMA BuiltFirst ==
  ASSUME NEW view, NEW x, NEW m \in Nat, NEW f, Built(view, x, m, f)
  PROVE  f[0] = x
<1>1. 0 \in 0 .. m
  BY Z3
<1> QED
  BY <1>1 DEF Built

\* What it says of any other.
LEMMA BuiltNext ==
  ASSUME NEW view, NEW x, NEW m \in Nat, NEW f, Built(view, x, m, f),
         NEW k \in 1 .. m, NEW i \in Nat, i = k - 1
  PROVE  f[k] = Longer(view, k, f[i])
<1>1. k \in 0 .. m /\ k # 0
  BY Z3
<1> QED
  BY <1>1 DEF Built

\* What makes a function satisfy it.
LEMMA SaysBuilt ==
  ASSUME NEW view, NEW x, NEW m \in Nat, NEW f,
         f = [k \in 0 .. m |-> f[k]], f[0] = x,
         \A k \in 1 .. m : f[k] = Longer(view, k, f[k - 1])
  PROVE  Built(view, x, m, f)
<1> DEFINE step(k) == IF k = 0 THEN x ELSE Longer(view, k, f[k - 1])
<1>1. step(0) = x /\ \A k \in 1 .. m : step(k) = Longer(view, k, f[k - 1])
  BY Z3
<1>2. \A k \in 0 .. m : k = 0 \/ k \in 1 .. m
  BY Z3
<1> HIDE DEF step
<1>3. \A k \in 0 .. m : f[k] = step(k)
  BY <1>1, <1>2
<1>4. f = [k \in 0 .. m |-> step(k)]
  BY <1>3
<1> QED
  BY <1>4, Zenon DEF Built, step

\* There is one for every chain, as long as it may be.
LEMMA BuiltExists ==
  ASSUME NEW view, NEW x, NEW n \in Nat
  PROVE  \E f : Built(view, x, n, f)
<1> DEFINE T == {m \in Nat : \E f : Built(view, x, m, f)}
<1>1. 0 \in T
  <2> DEFINE f == [k \in 0 .. 0 |-> x]
  <2>1. f = [k \in 0 .. 0 |-> f[k]] /\ f[0] = x
    OBVIOUS
  <2> HIDE DEF f
  <2>2. \A k \in 1 .. 0 : f[k] = Longer(view, k, f[k - 1])
    OBVIOUS
  <2>3. Built(view, x, 0, f)
    BY <2>1, <2>2, SaysBuilt
  <2> QED
    BY <2>3
<1>2. ASSUME NEW m \in Nat, m \in T PROVE m + 1 \in T
  <2>1. PICK f : Built(view, x, m, f)
    BY <1>2
  <2>2. f[0] = x
    BY <2>1, BuiltFirst
  <2> DEFINE last == Longer(view, m + 1, f[m])
  <2> DEFINE g == [k \in 0 .. m + 1 |-> IF k = m + 1 THEN last ELSE f[k]]
  <2> HIDE DEF last
  <2>3. g[m + 1] = last /\ \A k \in 0 .. m : g[k] = f[k]
    OBVIOUS
  <2>4. g = [k \in 0 .. m + 1 |-> g[k]]
    OBVIOUS
  <2> HIDE DEF g
  <2>5. ASSUME NEW k \in 1 .. m + 1 PROVE g[k] = Longer(view, k, g[k - 1])
    <3>1. CASE k = m + 1
      <4>1. k - 1 = m /\ g[m] = f[m]
        BY <2>3, <3>1
      <4> QED
        BY <2>3, <3>1, <4>1 DEF last
    <3>2. CASE k \in 1 .. m
      <4>1. k \in 0 .. m /\ k - 1 \in 0 .. m
        BY <3>2
      <4>2. g[k] = f[k] /\ g[k - 1] = f[k - 1]
        BY <2>3, <4>1
      <4>3. f[k] = Longer(view, k, f[k - 1])
        <5> DEFINE i == k - 1
        <5>1. i \in Nat /\ i = k - 1
          BY <3>2
        <5> HIDE DEF i
        <5>2. f[k] = Longer(view, k, f[i])
          BY <2>1, <3>2, <5>1, BuiltNext
        <5> QED
          BY <5>2 DEF i
      <4> QED
        BY <4>2, <4>3
    <3> QED
      BY <3>1, <3>2
  <2>6. g[0] = x
    BY <2>2, <2>3
  <2>7. Built(view, x, m + 1, g)
    <3>1. m + 1 \in Nat
      OBVIOUS
    <3> QED
      BY <2>4, <2>5, <2>6, <3>1, SaysBuilt
  <2> QED
    BY <2>7
<1>3. n \in T
  <2> HIDE DEF T
  <2>1. Nat \subseteq T
    BY <1>1, <1>2, AllNumbers
  <2> QED
    BY <2>1
<1> QED
  BY <1>3

\* What the definitions compute.
LEMMA NamesBuilt ==
  ASSUME NEW view \in Seq(Seq(Letters)), NEW x
  PROVE  \E local : Built(view, x, Len(view), local) /\ RealName(view, x) = local[Len(view)]
<1> DEFINE local == CHOOSE f : Built(view, x, Len(view), f)
<1>1. Len(view) \in Nat
  OBVIOUS
<1>2. Built(view, x, Len(view), local)
  <2>1. \E f : Built(view, x, Len(view), f)
    BY <1>1, BuiltExists
  <2> QED
    BY <2>1, Zenon
<1>3. RealName(view, x) = local[Len(view)]
  BY Zenon DEF RealName, Built
<1> QED
  BY <1>2, <1>3

\* The same of findPrefix.
LEMMA PrefixBuilt ==
  ASSUME NEW view \in Seq(Seq(Letters))
  PROVE  \E found : Built(view, <<>>, Len(view), found) /\ FindPrefix(view) = found[Len(view)]
<1> DEFINE found == CHOOSE f : Built(view, <<>>, Len(view), f)
<1>1. Len(view) \in Nat
  OBVIOUS
<1>2. Built(view, <<>>, Len(view), found)
  <2>1. \E f : Built(view, <<>>, Len(view), f)
    BY <1>1, BuiltExists
  <2> QED
    BY <2>1, Zenon
<1>3. FindPrefix(view) = found[Len(view)]
  BY Zenon DEF FindPrefix, Built
<1> QED
  BY <1>2, <1>3

\* What Get asks the registry for is what findPrefix finds, before the name.
LEMMA RealNameIsPrefixed ==
  ASSUME NEW view \in Seq(Seq(Letters)), NEW x \in Seq(Letters)
  PROVE  /\ FindPrefix(view) \in Seq(Letters)
         /\ RealName(view, x) = FindPrefix(view) \o x
<1>1. PICK found : Built(view, <<>>, Len(view), found) /\ FindPrefix(view) = found[Len(view)]
  BY PrefixBuilt
<1>2. PICK local : Built(view, x, Len(view), local) /\ RealName(view, x) = local[Len(view)]
  BY NamesBuilt
<1> DEFINE T == {k \in Nat : k <= Len(view) => /\ found[k] \in Seq(Letters)
                                               /\ local[k] = found[k] \o x}
<1>3. 0 \in T
  <2>1. found[0] = <<>> /\ local[0] = x
    <3>1. Len(view) \in Nat
      OBVIOUS
    <3> QED
      BY <1>1, <1>2, <3>1, BuiltFirst
  <2>2. <<>> \in Seq(Letters) /\ x = <<>> \o x
    OBVIOUS
  <2> QED
    BY <2>1, <2>2
<1>4. ASSUME NEW k \in Nat, k \in T PROVE k + 1 \in T
  <2> SUFFICES ASSUME k + 1 <= Len(view)
               PROVE  found[k + 1] \in Seq(Letters) /\ local[k + 1] = found[k + 1] \o x
      OBVIOUS
  <2>1. found[k] \in Seq(Letters) /\ local[k] = found[k] \o x
    BY <1>4
  <2>2. k + 1 \in 1 .. Len(view) /\ k + 1 - 1 = k
    OBVIOUS
  <2>3. found[k + 1] = Longer(view, k + 1, found[k]) /\ local[k + 1] = Longer(view, k + 1, local[k])
    <3> DEFINE j == k + 1
    <3>1. j \in 1 .. Len(view) /\ k = j - 1 /\ Len(view) \in Nat
      BY <2>2
    <3> HIDE DEF j
    <3>2. found[j] = Longer(view, j, found[k])
      BY <1>1, <3>1, BuiltNext
    <3>3. local[j] = Longer(view, j, local[k])
      BY <1>2, <3>1, BuiltNext
    <3> QED
      BY <3>2, <3>3 DEF j
  <2>4. Prefix(view, k + 1) \in Seq(Letters)
    BY <2>2 DEF Prefix
  <2> DEFINE p == Prefix(view, k + 1)
  <2> DEFINE f == found[k]
  <2>5. p \o (f \o x) = (p \o f) \o x /\ p \o f \in Seq(Letters)
    <3>1. p \in Seq(Letters) /\ f \in Seq(Letters)
      BY <2>1, <2>4
    <3> HIDE DEF p, f
    <3> QED
      BY <3>1
  <2>6. found[k + 1] = p \o f /\ local[k + 1] = p \o (f \o x)
    <3>1. found[k + 1] = p \o found[k] /\ local[k + 1] = p \o local[k]
      BY <2>3 DEF Longer
    <3> QED
      BY <2>1, <3>1
  <2> HIDE DEF p, f
  <2> QED
    BY <2>5, <2>6
<1>5. Len(view) \in T
  <2> HIDE DEF T
  <2>1. Nat \subseteq T
    BY <1>3, <1>4, AllNumbers
  <2> QED
    BY <2>1
<1> QED
  BY <1>1, <1>2, <1>5

\* A name begins with a prefix just when it is the prefix and a suffix of it.
LEMMA PrefixAndRest ==
  ASSUME NEW p \in Seq(Letters), NEW n \in Seq(Letters)
  PROVE  /\ IsPrefix(p, n) => \E x \in Suffixes(n) : x \in Seq(Letters) /\ n = p \o x
         /\ \A x \in Seq(Letters) : n = p \o x => IsPrefix(p, n)
<1>1. ASSUME IsPrefix(p, n) PROVE \E x \in Suffixes(n) : x \in Seq(Letters) /\ n = p \o x
  <2> DEFINE x == SubSeq(n, Len(p) + 1, Len(n))
  <2>1. Len(p) \in Nat /\ Len(n) \in Nat /\ Len(p) <= Len(n) /\ \A i \in 1 .. Len(p) : p[i] = n[i]
    <3>1. Len(p) \in Nat /\ Len(n) \in Nat /\ Len(p) <= Len(n) /\ SubSeq(p, 1, Len(p)) = SubSeq(n, 1, Len(p))
      BY <1>1 DEF IsPrefix
    <3>2. \A i \in 1 .. Len(p) : SubSeq(p, 1, Len(p))[i] = p[i] /\ SubSeq(n, 1, Len(p))[i] = n[i]
      BY <3>1
    <3> QED
      BY <3>1, <3>2
  <2>2. x \in Seq(Letters) /\ Len(x) = Len(n) - Len(p)
        /\ \A i \in 1 .. Len(x) : x[i] = n[Len(p) + i]
    BY <2>1
  <2>3. n = p \o x
    <3> HIDE DEF x
    <3>1. p \o x \in Seq(Letters) /\ Len(p \o x) = Len(n)
      BY <2>1, <2>2
    <3>2. ASSUME NEW i \in 1 .. Len(n) PROVE (p \o x)[i] = n[i]
      <4>1. CASE i <= Len(p)
        BY <2>1, <2>2, <4>1
      <4>2. CASE ~(i <= Len(p))
        <5>1. i - Len(p) \in 1 .. Len(x) /\ Len(p) + (i - Len(p)) = i
          BY <2>1, <2>2, <4>2
        <5>2. (p \o x)[i] = x[i - Len(p)]
          BY <2>1, <2>2, <4>2
        <5> QED
          BY <2>2, <5>1, <5>2
      <4> QED
        BY <4>1, <4>2
    <3> DEFINE y == p \o x
    <3>3. y \in Seq(Letters) /\ Len(y) = Len(n) /\ \A i \in 1 .. Len(n) : y[i] = n[i]
      BY <3>1, <3>2
    <3> HIDE DEF y
    <3>4. y = n
      BY <3>3
    <3> QED
      BY <3>4 DEF y
  <2>4. x \in Suffixes(n)
    <3>1. CASE Len(p) + 1 \in 1 .. Len(n)
      BY <3>1, Zenon DEF Suffixes
    <3>2. CASE Len(p) + 1 \notin 1 .. Len(n)
      <4>1. x = <<>>
        BY <2>1, <2>2, <3>2
      <4> QED
        BY <4>1 DEF Suffixes
    <3> QED
      BY <3>1, <3>2
  <2> QED
    BY <2>2, <2>3, <2>4
<1>2. ASSUME NEW x \in Seq(Letters), n = p \o x PROVE IsPrefix(p, n)
  <2>1. Len(p) <= Len(n) /\ \A i \in 1 .. Len(p) : p[i] = n[i]
    BY <1>2
  <2>2. SubSeq(p, 1, Len(p)) = SubSeq(n, 1, Len(p))
    BY <2>1
  <2> QED
    BY <2>1, <2>2 DEF IsPrefix
<1> QED
  BY <1>1, <1>2

\* The names the property looks at are all that a view can find a metric by.
LEMMA LocalsAreAll ==
  ASSUME NEW view \in Views, NEW x \in Seq(Letters), Get(view, x) # Nil
  PROVE  x \in Locals
<1>1. RealName(view, x) \in Names
  BY DEF Get
<1>2. view \in Seq(Seq(Letters)) /\ RealName(view, x) \in Seq(Letters)
  BY <1>1, PrefixedAssumption
<1> DEFINE p == FindPrefix(view)
<1> DEFINE n == RealName(view, x)
<1>3. p \in Seq(Letters) /\ n = p \o x
  BY <1>2, RealNameIsPrefixed
<1>4. x \in Suffixes(n)
  <2> HIDE DEF p, n
  <2>1. Len(n) = Len(p) + Len(x) /\ Len(x) \in Nat /\ Len(p) \in Nat
    BY <1>3
  <2>2. x = SubSeq(n, Len(p) + 1, Len(n))
    <3>1. SubSeq(n, Len(p) + 1, Len(n)) \in Seq(Letters) /\ Len(SubSeq(n, Len(p) + 1, Len(n))) = Len(x)
      BY <1>2, <1>3, <2>1
    <3>2. \A i \in 1 .. Len(x) : SubSeq(n, Len(p) + 1, Len(n))[i] = x[i]
      BY <1>2, <1>3, <2>1
    <3> QED
      BY <3>1, <3>2
  <2>3. CASE x = <<>>
    BY <2>3 DEF Suffixes
  <2>4. CASE x # <<>>
    <3>1. Len(p) + 1 \in 1 .. Len(n)
      BY <2>1, <2>4
    <3> QED
      BY <2>2, <3>1 DEF Suffixes
  <2> QED
    BY <2>3, <2>4
<1> QED
  BY <1>1, <1>4 DEF Locals

\* A suffix of a name is a name.
LEMMA LocalsType == Locals \subseteq Seq(Letters)
<1> SUFFICES ASSUME NEW n \in Names, NEW x \in Suffixes(n) PROVE x \in Seq(Letters)
    BY DEF Locals
<1>1. n \in Seq(Letters)
  BY PrefixedAssumption
<1>2. CASE x = <<>>
  BY <1>2
<1>3. ASSUME NEW l \in 1 .. Len(n), x = SubSeq(n, l, Len(n)) PROVE x \in Seq(Letters)
  BY <1>1, <1>3
<1> QED
  BY <1>2, <1>3 DEF Suffixes

\* Each visits exactly the metrics that Get finds, through every chain of views,
\* whatever is in the registry: findPrefix and the Gets put the same prefix before
\* a name.
THEOREM ViewsSeeWhatTheyName == Spec => []PrefixesCompose
<1>1. PrefixesCompose
  <2> SUFFICES ASSUME NEW view \in Views
               PROVE  Each(view) = {<<RealName(view, x), Get(view, x)>> :
                                      x \in {x \in Locals : Get(view, x) # Nil}}
      BY DEF PrefixesCompose
  <2> DEFINE p == FindPrefix(view)
  <2> DEFINE named == {<<RealName(view, x), Get(view, x)>> :
                         x \in {x \in Locals : Get(view, x) # Nil}}
  <2>1. view \in Seq(Seq(Letters)) /\ p \in Seq(Letters)
    <3>1. view \in Seq(Seq(Letters)) /\ <<>> \in Seq(Letters)
      BY PrefixedAssumption
    <3> QED
      BY <3>1, RealNameIsPrefixed
  <2>2. \A x \in Seq(Letters) : RealName(view, x) = p \o x
    BY <2>1, RealNameIsPrefixed
  <2> HIDE DEF p
  <2>3. ASSUME NEW n \in Names, metrics[n] # Nil, IsPrefix(p, n) PROVE <<n, metrics[n]>> \in named
    <3>1. PICK x \in Suffixes(n) : x \in Seq(Letters) /\ n = p \o x
      BY <2>1, <2>3, PrefixAndRest, PrefixedAssumption
    <3>2. x \in Locals /\ RealName(view, x) = n
      BY <2>2, <3>1 DEF Locals
    <3>3. Get(view, x) = metrics[n]
      BY <3>2 DEF Get
    <3> QED
      BY <2>3, <3>2, <3>3
  <2>4. ASSUME NEW x \in Locals, Get(view, x) # Nil
        PROVE  <<RealName(view, x), Get(view, x)>> \in Each(view)
    <3> DEFINE n == RealName(view, x)
    <3>1. n \in Names /\ Get(view, x) = metrics[n]
      BY <2>4 DEF Get
    <3>2. n = p \o x /\ x \in Seq(Letters)
      BY <2>2, LocalsType
    <3> HIDE DEF n
    <3>3. IsPrefix(p, n)
      BY <2>1, <3>1, <3>2, PrefixAndRest, PrefixedAssumption
    <3>4. <<n, metrics[n]>> \in Each(view)
      BY <2>4, <3>1, <3>3 DEF Each, p
    <3> QED
      BY <3>1, <3>4 DEF n
  <2>5. Each(view) \subseteq named
    <3> HIDE DEF named
    <3> QED
      BY <2>3 DEF Each, p
  <2> QED
    BY <2>4, <2>5
<1> QED
  BY <1>1, PTL
=============================================================================
