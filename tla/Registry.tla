------------------------------ MODULE Registry ------------------------------
(***************************************************************************)
(* StandardRegistry (metrics/registry.go) and the arbiter that ticks every *)
(* meter (metrics/meter.go), used by several goroutines.                   *)
(*                                                                         *)
(* The registry's mutex is held across the creation of a lazy metric and   *)
(* across the Stop of an unregistered one; both take the arbiter's lock,   *)
(* which the arbiter holds for reading while it ticks its meters.  Each    *)
(* call registers a metric of its own: counters, gauges and histograms     *)
(* behave alike, meters are known to the arbiter too, and a value of any   *)
(* other type is silently not registered.                                  *)
(***************************************************************************)
EXTENDS Naturals, FiniteSets

CONSTANTS
  Procs,    \* goroutines
  Names,    \* names of metrics
  Metrics,  \* metrics that may be created
  Meters,   \* those that are meters
  Unknown,  \* those of no metric type
  Nil       \* no metric, nobody

ASSUME RegistryAssumption ==
  /\ Meters \subseteq Metrics /\ Unknown \subseteq Metrics \ Meters
  /\ Nil \notin Metrics \cup Procs

VARIABLES
  metrics,   \* the registry's map
  mutex,     \* who holds its lock for writing
  arbiter,   \* arbiter.meters
  ticking,   \* the arbiter holds its lock, in tickMeters
  toTick,    \* the meters that round has still to tick
  stopped,   \* meters whose stopped field is set
  pc, op, name, arg,  \* each goroutine: its step, call and arguments
  lazy,      \* the argument is a function
  todo,      \* the names its Unregister or UnregisterAll has still to remove
  created,   \* metrics in use
  given,     \* those that were passed as a value, not made by a function
  granted,   \* what GetOrRegister returned for a name since it was unregistered
  gone       \* metrics that have been unregistered

callVars == <<pc, op, name, arg, lazy, todo, created, given>>
vars == <<metrics, mutex, arbiter, ticking, toTick, stopped, callVars, granted, gone>>

Ops == {"none", "getOrRegister", "register", "unregister", "unregisterAll", "stop"}
Steps == {"idle", "new", "read", "lock", "lazy", "store", "remove", "cas", "delete"}

Init ==
  /\ metrics = [n \in Names |-> Nil] /\ mutex = Nil
  /\ arbiter = {} /\ ticking = FALSE /\ toTick = {} /\ stopped = {}
  /\ pc = [p \in Procs |-> "idle"] /\ op = [p \in Procs |-> "none"]
  /\ name \in [Procs -> Names]
  /\ arg = [p \in Procs |-> Nil] /\ lazy = [p \in Procs |-> FALSE]
  /\ todo = [p \in Procs |-> {}]
  /\ created = {} /\ given = {} /\ gone = {}
  /\ granted = [n \in Names |-> {}]

Goto(p, from, to) ==
  /\ pc[p] = from /\ pc' = [pc EXCEPT ![p] = to]
  /\ UNCHANGED <<op, arg, lazy>>

\* The call returns and its variables are gone.
Leave(p, from) ==
  /\ pc[p] = from /\ pc' = [pc EXCEPT ![p] = "idle"]
  /\ op' = [op EXCEPT ![p] = "none"]
  /\ arg' = [arg EXCEPT ![p] = Nil] /\ lazy' = [lazy EXCEPT ![p] = FALSE]

Enter(p, o, to) ==
  /\ pc[p] = "idle" /\ pc' = [pc EXCEPT ![p] = to]
  /\ op' = [op EXCEPT ![p] = o]
Grant(p, m) == granted' = [granted EXCEPT ![name[p]] = @ \cup {m}]

-----------------------------------------------------------------------------
(* The calls.                                                              *)

\* GetOrRegister(name, metric or function) or Register(name, metric).  A
\* meter that is passed as a value has been through NewMeter.
CallRegister(p) ==
  /\ \E o \in {"getOrRegister", "register"}, n \in Names,
        m \in Metrics \ created, l \in BOOLEAN :
       /\ o = "register" => ~l
       /\ Enter(p, o, IF m \in Meters /\ ~l THEN "new"
                      ELSE IF o = "register" THEN "lock" ELSE "read")
       /\ name' = [name EXCEPT ![p] = n]
       /\ arg' = [arg EXCEPT ![p] = m] /\ lazy' = [lazy EXCEPT ![p] = l]
       /\ created' = created \cup {m}
       /\ given' = IF l THEN given ELSE given \cup {m}
  /\ UNCHANGED <<metrics, mutex, arbiter, ticking, toTick, stopped, todo, granted, gone>>

\* Unregister(name) or UnregisterAll().
CallUnregister(p) ==
  /\ \/ \E n \in Names : /\ Enter(p, "unregister", "lock")
                         /\ todo' = [todo EXCEPT ![p] = {n}]
     \/ /\ Enter(p, "unregisterAll", "lock")
        /\ todo' = [todo EXCEPT ![p] = Names]
  /\ UNCHANGED <<metrics, mutex, arbiter, ticking, toTick, stopped, name, arg,
                 lazy, created, given, granted, gone>>

\* Somebody who has a meter stops it, registered or not.
CallStop(p) ==
  /\ Enter(p, "stop", "cas")
  /\ \E m \in arbiter : arg' = [arg EXCEPT ![p] = m]
  /\ UNCHANGED <<metrics, mutex, arbiter, ticking, toTick, stopped, name, lazy,
                 todo, created, given, granted, gone>>

-----------------------------------------------------------------------------
(* Registering.                                                            *)

\* NewMeter, before the registry is called.
New(p) ==
  /\ ~ticking
  /\ Goto(p, "new", IF op[p] = "register" THEN "lock" ELSE "read")
  /\ arbiter' = arbiter \cup {arg[p]}
  /\ UNCHANGED <<metrics, mutex, ticking, toTick, stopped, name, todo, created,
                 given, granted, gone>>

\* Fault: the function is called before the write lock is taken.
ReadCreates(p) ==
  /\ mutex = Nil /\ ~ticking
  /\ \/ /\ metrics[name[p]] # Nil
        /\ Leave(p, "read") /\ Grant(p, metrics[name[p]])
        /\ UNCHANGED arbiter
     \/ /\ metrics[name[p]] = Nil
        /\ Goto(p, "read", "lock") /\ UNCHANGED granted
        /\ arbiter' = arbiter \cup (IF lazy[p] THEN {arg[p]} \cap Meters ELSE {})
  /\ UNCHANGED <<metrics, mutex, ticking, toTick, stopped, name, todo, created,
                 given, gone>>

\* GetOrRegister's look under the read lock.
Read(p) ==
  /\ mutex = Nil
  /\ \/ /\ metrics[name[p]] # Nil
        /\ Leave(p, "read") /\ Grant(p, metrics[name[p]])
     \/ /\ metrics[name[p]] = Nil
        /\ Goto(p, "read", "lock") /\ UNCHANGED granted
  /\ UNCHANGED <<metrics, mutex, arbiter, ticking, toTick, stopped, name, todo,
                 created, given, gone>>

\* Fault: GetOrRegister does not look again under the write lock.
LockHasty(p) ==
  /\ mutex = Nil /\ mutex' = p
  /\ Goto(p, "lock", IF op[p] \in {"unregister", "unregisterAll"} THEN "remove"
                     ELSE IF lazy[p] THEN "lazy" ELSE "store")
  /\ UNCHANGED <<metrics, arbiter, ticking, toTick, stopped, name, todo, created,
                 given, granted, gone>>

\* The write lock: GetOrRegister returns what another call has registered in
\* the meantime, and otherwise calls its function.
Lock(p) ==
  /\ mutex = Nil
  /\ \/ /\ op[p] \in {"unregister", "unregisterAll"}
        /\ Goto(p, "lock", "remove") /\ mutex' = p /\ UNCHANGED granted
     \/ /\ op[p] = "getOrRegister" /\ metrics[name[p]] # Nil
        /\ Leave(p, "lock") /\ Grant(p, metrics[name[p]]) /\ UNCHANGED mutex
     \/ /\ op[p] = "register" \/ (op[p] = "getOrRegister" /\ metrics[name[p]] = Nil)
        /\ Goto(p, "lock", IF lazy[p] THEN "lazy" ELSE "store") /\ mutex' = p
        /\ UNCHANGED granted
  /\ UNCHANGED <<metrics, arbiter, ticking, toTick, stopped, name, todo, created,
                 given, gone>>

\* The function, NewMeter for instance, runs with the registry locked.
LazyNew(p) ==
  /\ Goto(p, "lazy", "store")
  /\ arg[p] \in Meters => ~ticking
  /\ arbiter' = arbiter \cup ({arg[p]} \cap Meters)
  /\ UNCHANGED <<metrics, mutex, ticking, toTick, stopped, name, todo, created,
                 given, granted, gone>>

\* register stores a metric of a known type under a free name; only
\* GetOrRegister's caller gets it back.
Store(p) ==
  /\ Leave(p, "store") /\ mutex' = Nil
  /\ metrics' = IF metrics[name[p]] = Nil /\ arg[p] \notin Unknown
                  THEN [metrics EXCEPT ![name[p]] = arg[p]] ELSE metrics
  /\ IF op[p] = "getOrRegister" THEN Grant(p, arg[p]) ELSE UNCHANGED granted
  /\ UNCHANGED <<arbiter, ticking, toTick, stopped, name, todo, created, given,
                 gone>>

-----------------------------------------------------------------------------
(* Unregistering and stopping.                                             *)

Forget(n) ==
  /\ metrics' = [metrics EXCEPT ![n] = Nil]
  /\ gone' = gone \cup ({metrics[n]} \ {Nil})
  /\ granted' = [granted EXCEPT ![n] = {}]

\* The next name, in any order: a meter is stopped first, any other metric is
\* deleted at once.
UnregisterNext(p) ==
  /\ pc[p] = "remove"
  /\ \/ /\ todo[p] = {} /\ Leave(p, "remove") /\ mutex' = Nil
        /\ UNCHANGED <<metrics, gone, granted, todo>>
     \/ \E n \in todo[p] :
          /\ UNCHANGED mutex
          /\ todo' = [todo EXCEPT ![p] = @ \ {n}]
          /\ \/ /\ metrics[n] \in Meters /\ pc' = [pc EXCEPT ![p] = "cas"]
                /\ arg' = [arg EXCEPT ![p] = metrics[n]]
                /\ UNCHANGED <<metrics, gone, granted, op, lazy>>
             \/ /\ metrics[n] \notin Meters /\ UNCHANGED <<pc, op, arg, lazy>>
                /\ Forget(n)
  /\ UNCHANGED <<arbiter, ticking, toTick, stopped, name, created, given>>

\* What follows Stop: its caller returns, or Unregister deletes the name.
AfterStop(p, from) ==
  \/ op[p] = "stop" /\ Leave(p, from) /\ UNCHANGED <<metrics, gone, granted>>
  \/ /\ op[p] # "stop" /\ Goto(p, from, "remove")
     /\ Forget(CHOOSE n \in Names : metrics[n] = arg[p])

\* Stop's compare and swap: only the first Stop of a meter goes on.
StopOnce(p) ==
  /\ pc[p] = "cas"
  /\ stopped' = stopped \cup {arg[p]}
  /\ \/ /\ arg[p] \notin stopped /\ Goto(p, "cas", "delete")
        /\ UNCHANGED <<metrics, gone, granted>>
     \/ arg[p] \in stopped /\ AfterStop(p, "cas")
  /\ UNCHANGED <<mutex, arbiter, ticking, toTick, name, todo, created, given>>

\* Stop waits for the arbiter's lock.
Delete(p) ==
  /\ pc[p] = "delete" /\ ~ticking
  /\ arbiter' = arbiter \ {arg[p]}
  /\ AfterStop(p, "delete")
  /\ UNCHANGED <<mutex, ticking, toTick, stopped, name, todo, created, given>>

-----------------------------------------------------------------------------
(* The arbiter: tickMeters holds the lock for reading all along.           *)

TickBegin ==
  /\ arbiter # {} /\ ~ticking
  /\ ticking' = TRUE /\ toTick' = arbiter
  /\ UNCHANGED <<metrics, mutex, arbiter, stopped, callVars, granted, gone>>

TickMeter(m) ==
  /\ m \in toTick /\ toTick' = toTick \ {m}
  /\ UNCHANGED <<metrics, mutex, arbiter, ticking, stopped, callVars, granted, gone>>

\* Fault: the lock is released by a defer in the arbiter's endless loop.
TickEndDefers ==
  /\ ticking /\ toTick = {}
  /\ toTick' = arbiter
  /\ UNCHANGED <<metrics, mutex, arbiter, ticking, stopped, callVars, granted, gone>>

TickEnd ==
  /\ ticking /\ toTick = {}
  /\ ticking' = FALSE
  /\ UNCHANGED <<metrics, mutex, arbiter, toTick, stopped, callVars, granted, gone>>

Arbiter == TickBegin \/ (\E m \in Meters : TickMeter(m)) \/ TickEnd

Call(p) == CallRegister(p) \/ CallUnregister(p) \/ CallStop(p)

Proceed(p) ==
  \/ New(p) \/ Read(p) \/ Lock(p) \/ LazyNew(p) \/ Store(p)
  \/ UnregisterNext(p) \/ StopOnce(p) \/ Delete(p)

Next == Arbiter \/ \E p \in Procs : Call(p) \/ Proceed(p)

Spec == Init /\ [][Next]_vars

\* Goroutines run, and a lock that is free again and again is obtained (Go's
\* mutexes do not starve a waiter).
FairSpec == Spec /\ WF_vars(Arbiter) /\ \A p \in Procs : SF_vars(Proceed(p))
-----------------------------------------------------------------------------
\* Every variable holds a value of its Go type; the two locks are held exactly
\* where the code holds them.
TypeOK ==
  /\ metrics \in [Names -> (Metrics \ Unknown) \cup {Nil}]
  /\ mutex \in Procs \cup {Nil}
  /\ arbiter \subseteq Meters /\ toTick \subseteq arbiter /\ stopped \subseteq Meters
  /\ ticking \in BOOLEAN /\ (toTick # {} => ticking)
  /\ pc \in [Procs -> Steps] /\ op \in [Procs -> Ops] /\ name \in [Procs -> Names]
  /\ arg \in [Procs -> Metrics \cup {Nil}] /\ lazy \in [Procs -> BOOLEAN]
  /\ todo \in [Procs -> SUBSET Names] /\ given \subseteq created
  /\ created \subseteq Metrics /\ gone \subseteq Metrics
  /\ granted \in [Names -> SUBSET Metrics]
  /\ \A p \in Procs :
       mutex = p <=> \/ pc[p] \in {"lazy", "store", "remove"}
                     \/ pc[p] \in {"cas", "delete"} /\ op[p] # "stop"

\* GetOrRegister gives every caller the metric that is in the registry, until
\* the name is unregistered: no two goroutines count into different metrics of
\* one name (registry.go:82-102).  A value of no metric type is the exception.
OneMetricPerName ==
  \A n \in Names : granted[n] \ Unknown \subseteq {metrics[n]}

\* The arbiter keeps no meter that GetOrRegister had made by a function and
\* did not register: its caller has another metric and nobody could ever stop
\* this one (registry.go:92-102).
MadeMetersAreKnown ==
  \A m \in arbiter \ given :
    \/ \E n \in Names : metrics[n] = m
    \/ \E p \in Procs : arg[p] = m
    \/ m \in stopped

\* A meter that was unregistered is stopped, and the arbiter has let go of it
\* or a Stop is waiting for the arbiter to finish its round.
GoneMetersStop ==
  /\ gone \cap Meters \subseteq stopped
  /\ \A m \in stopped \cap arbiter : \E p \in Procs : pc[p] = "delete" /\ arg[p] = m

\* The arbiter ticks no meter that nobody can stop any more.
NoMeterIsOrphaned == MadeMetersAreKnown /\ GoneMetersStop

\* Every call returns: the registry's mutex and the arbiter's lock, taken in
\* this order and never in the other, cannot deadlock.
EveryCallReturns == \A p \in Procs : (pc[p] # "idle") ~> (pc[p] = "idle")
=============================================================================
