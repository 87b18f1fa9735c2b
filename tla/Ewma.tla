-------------------------------- MODULE Ewma --------------------------------
(***************************************************************************)
(* StandardEWMA (statistics/metrics/ewma.go): goroutines that Update it    *)
(* and goroutines that Tick it, at the grain of its atomic loads and       *)
(* stores.  In this repository the meter arbiter is the only ticker; the   *)
(* type is written for several.                                            *)
(*                                                                         *)
(* The rate is a float computed from the event counts the ticks fetched.   *)
(* Here it is the sequence of their running totals: <<>> before the first  *)
(* tick, a single count after it, one more total with every tick that is   *)
(* averaged in.                                                            *)
(***************************************************************************)
EXTENDS Integers, Sequences, FiniteSets

CONSTANTS
  Tickers,    \* goroutines that call Tick
  MaxEvents,  \* bound: events added
  MaxTicks    \* bound: ticks of one goroutine

Nobody == "nobody"

ASSUME EwmaAssumption ==
  MaxEvents \in Nat /\ MaxTicks \in Nat /\ Nobody \notin Tickers

VARIABLES
  uncounted,  \* events that no tick has fetched
  rate,       \* the running totals of the counts it is computed from
  init,       \* the first tick has begun to store the rate
  mutex,      \* who holds it
  pc,         \* where each ticker is in Tick
  count,      \* fetchInstantRate's local variable
  loaded,     \* updateRate's local variable
  first,      \* the tick is in the branch that stores init
  added,      \* events added so far
  fetched,    \* events taken from uncounted so far
  ticks       \* ticks begun by each goroutine

locals == <<pc, count, loaded, first, ticks>>
vars == <<uncounted, rate, init, mutex, locals, added, fetched>>

Steps == {"idle", "lock", "setInit", "fetch", "subtract", "load", "store"}

Init ==
  /\ uncounted = 0 /\ rate = <<>> /\ init = FALSE /\ mutex = Nobody
  /\ pc = [t \in Tickers |-> "idle"]
  /\ count = [t \in Tickers |-> 0]
  /\ loaded = [t \in Tickers |-> <<>>]
  /\ first = [t \in Tickers |-> FALSE]
  /\ ticks = [t \in Tickers |-> 0]
  /\ added = 0 /\ fetched = 0

Goto(t, from, to) == pc[t] = from /\ pc' = [pc EXCEPT ![t] = to]

\* The events a rate is computed from.
Total(r) == IF r = <<>> THEN 0 ELSE r[Len(r)]

Update(n) ==
  /\ added + n <= MaxEvents
  /\ uncounted' = uncounted + n /\ added' = added + n
  /\ UNCHANGED <<rate, init, mutex, locals, fetched>>

\* The first load of init decides between the fast and the slow path.
Tick(t) ==
  /\ Goto(t, "idle", IF init THEN "fetch" ELSE "lock")
  /\ first' = [first EXCEPT ![t] = FALSE]
  /\ ticks[t] < MaxTicks /\ ticks' = [ticks EXCEPT ![t] = @ + 1]
  /\ UNCHANGED <<uncounted, rate, init, mutex, count, loaded, added, fetched>>

\* The slow path looks again once it has the mutex.
Lock(t) ==
  /\ mutex = Nobody /\ mutex' = t
  /\ Goto(t, "lock", IF init THEN "fetch" ELSE "setInit")
  /\ UNCHANGED <<uncounted, rate, init, count, loaded, first, ticks, added, fetched>>

\* The first tick stores init before it has a rate to store.
SetInit(t) ==
  /\ Goto(t, "setInit", "fetch")
  /\ init' = TRUE /\ first' = [first EXCEPT ![t] = TRUE]
  /\ UNCHANGED <<uncounted, rate, mutex, count, loaded, ticks, added, fetched>>

\* fetchInstantRate: a load, and a subtraction of what was loaded.
FetchLoad(t) ==
  /\ Goto(t, "fetch", "subtract")
  /\ count' = [count EXCEPT ![t] = uncounted]
  /\ UNCHANGED <<uncounted, rate, init, mutex, loaded, first, ticks, added, fetched>>

\* Fault: it stores 0 instead.
FetchReset(t) ==
  /\ Goto(t, "subtract", IF first[t] THEN "store" ELSE "load")
  /\ uncounted' = 0 /\ fetched' = fetched + count[t]
  /\ loaded' = [loaded EXCEPT ![t] = <<>>]
  /\ UNCHANGED <<rate, init, mutex, count, first, ticks, added>>

FetchSubtract(t) ==
  /\ Goto(t, "subtract", IF first[t] THEN "store" ELSE "load")
  /\ uncounted' = uncounted - count[t] /\ fetched' = fetched + count[t]
  /\ loaded' = [loaded EXCEPT ![t] = <<>>]
  /\ UNCHANGED <<rate, init, mutex, count, first, ticks, added>>

\* updateRate's load.
LoadRate(t) ==
  /\ Goto(t, "load", "store")
  /\ loaded' = [loaded EXCEPT ![t] = rate]
  /\ UNCHANGED <<uncounted, rate, init, mutex, count, first, ticks, added, fetched>>

\* Fault: every tick stores its instant rate.
StoreInstant(t) ==
  /\ Goto(t, "store", "idle")
  /\ rate' = <<count[t]>>
  /\ mutex' = IF mutex = t THEN Nobody ELSE mutex
  /\ UNCHANGED <<uncounted, init, count, loaded, first, ticks, added, fetched>>

\* The first tick stores its instant rate, any other the average of what it
\* loaded and its own; the slow path releases the mutex.
StoreRate(t) ==
  /\ Goto(t, "store", "idle")
  /\ rate' = Append(loaded[t], Total(loaded[t]) + count[t])
  /\ mutex' = IF mutex = t THEN Nobody ELSE mutex
  /\ UNCHANGED <<uncounted, init, count, loaded, first, ticks, added, fetched>>

Next ==
  \/ \E n \in 1 .. MaxEvents : Update(n)
  \/ \E t \in Tickers :
       \/ Tick(t) \/ Lock(t) \/ SetInit(t) \/ FetchLoad(t) \/ FetchSubtract(t)
       \/ LoadRate(t) \/ StoreRate(t)

Spec == Init /\ [][Next]_vars
-----------------------------------------------------------------------------
\* Every variable holds a value of its Go type.
TypeOK ==
  /\ uncounted \in Int /\ init \in BOOLEAN /\ rate \in Seq(Int)
  /\ mutex \in Tickers \cup {Nobody}
  /\ pc \in [Tickers -> Steps] /\ first \in [Tickers -> BOOLEAN]
  /\ count \in [Tickers -> Int] /\ loaded \in [Tickers -> Seq(Int)]
  /\ rate # <<>> => init
  /\ added \in 0 .. MaxEvents /\ fetched \in Int

\* No event is lost or counted twice, whatever Update and Tick do at the same
\* time: what the ticks fetched and what is left uncounted add up to what was
\* added, even when two ticks fetch the same events and uncounted goes below 0.
EventsConserved == uncounted + fetched = added

\* Only one tick ever takes the branch that stores init and overwrites the rate,
\* whoever else saw init unset before it had the mutex.
OneFirstTick == \A t, u \in Tickers : first[t] /\ first[u] => t = u

\* As long as one goroutine is the only ticker, as the arbiter is, the rate is
\* made of every event it fetched, in as many instants as it made ticks, and
\* uncounted is never negative.
ArbiterTicksCount ==
  \A t \in Tickers : (\A u \in Tickers \ {t} : ticks[u] = 0) =>
    /\ uncounted >= 0
    /\ pc[t] = "idle" => /\ Len(rate) = ticks[t]
                        /\ Total(rate) = fetched
=============================================================================
