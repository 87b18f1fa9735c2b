----------------------------- MODULE MeterProofs -----------------------------
(***************************************************************************)
(* Proofs about Ewma, for any set of tickers and any bounds, and about     *)
(* Meter, for any number of goroutines that mark and stop it.              *)
(*                                                                         *)
(* OneFirstTick is not inductive.  It holds because the branch is entered  *)
(* with the mutex held and init unset (InvFirst), because init is never    *)
(* unset again, and because a tick past the branch has seen init set       *)
(* (InvInit), which is also why a stored rate implies init.  With one      *)
(* ticker the rate is all that was fetched (RateInv).                      *)
(*                                                                         *)
(* The meter uses its average as Ewma says, so all of that holds in it.    *)
(* A stop is final because a tick is inside the meter only while the       *)
(* arbiter reads its map, and Stop changes the map only when nobody reads  *)
(* it (StopInv).  A rate is not ahead of the count because the events that *)
(* are counted and not in the average yet are those of the Marks that are  *)
(* between the two (CountInv), and because every copy of the rate is one   *)
(* that it has had, which a rate only grows from (CopyInv).                *)
(***************************************************************************)
EXTENDS Meter, FiniteSetTheorems, TLAPS

-----------------------------------------------------------------------------
(* The moving average: no event is lost, and one tick is the first.        *)

\* A tick that is past the test of init, on either path, has init set.
InvInit ==
  /\ \A t \in Tickers : pc[t] \in {"fetch", "subtract", "load", "store"} => init
  /\ \A t \in Tickers : first[t] => init

\* A tick about to store init holds the mutex and finds init unset.
InvFirst == \A t \in Tickers : pc[t] = "setInit" => mutex = t /\ ~init

\* The total of a rate is a number, 0 if it has no entry.
LEMMA TotalType == ASSUME NEW r \in Seq(Int) PROVE Total(r) \in Int /\ (r = <<>> => Total(r) = 0)
BY DEF Total

\* The inductive invariant.
Inv == TypeOK /\ EventsConserved /\ OneFirstTick /\ InvInit /\ InvFirst

\* Nothing has happened in the initial state.
LEMMA InvHolds == Init => Inv
<1> USE EwmaAssumption DEF Nobody
<1> SUFFICES ASSUME Init PROVE Inv
    OBVIOUS
<1>1. TypeOK
  <2>1. <<>> \in Seq(Int)
    OBVIOUS
  <2>2. loaded \in [Tickers -> Seq(Int)] /\ rate \in Seq(Int) /\ (rate # <<>> => init)
    BY <2>1, Zenon DEF Init
  <2>3. pc \in [Tickers -> Steps] /\ first \in [Tickers -> BOOLEAN]
    BY DEF Init, Steps
  <2>4. /\ uncounted \in Int /\ fetched \in Int /\ added \in 0 .. MaxEvents
        /\ count \in [Tickers -> Int]
    BY DEF Init
  <2> QED
    BY <2>2, <2>3, <2>4 DEF Init, TypeOK
<1>2. EventsConserved /\ OneFirstTick /\ InvInit /\ InvFirst
  BY DEF Init, EventsConserved, OneFirstTick, InvInit, InvFirst
<1> QED
  BY <1>1, <1>2 DEF Inv

\* Update adds its events to both sides of the account and moves no ticker.
LEMMA UpdateKeepsInv ==
  ASSUME Inv, NEW k \in 1 .. MaxEvents, Update(k)
  PROVE  Inv'
<1> USE EwmaAssumption DEF Nobody
<1>1. TypeOK'
  BY DEF Inv, TypeOK, Update, locals
<1>2. EventsConserved'
  BY DEF Inv, TypeOK, EventsConserved, Update
<1>3. (OneFirstTick /\ InvInit /\ InvFirst)'
  BY DEF Inv, OneFirstTick, InvInit, InvFirst, Update, locals
<1> QED
  BY <1>1, <1>2, <1>3 DEF Inv

\* Only fetchInstantRate's subtraction changes the account, on both sides.
LEMMA TickConservesEvents ==
  ASSUME Inv, NEW t \in Tickers,
         Tick(t) \/ Lock(t) \/ SetInit(t) \/ FetchLoad(t) \/ FetchSubtract(t)
           \/ LoadRate(t) \/ StoreRate(t)
  PROVE  EventsConserved'
<1>1. CASE FetchSubtract(t)
  <2>1. uncounted \in Int /\ fetched \in Int /\ count[t] \in Int
    BY DEF Inv, TypeOK
  <2> QED
    BY <1>1, <2>1 DEF Inv, EventsConserved, FetchSubtract
<1>2. CASE Tick(t) \/ Lock(t) \/ SetInit(t) \/ FetchLoad(t) \/ LoadRate(t) \/ StoreRate(t)
  BY <1>2 DEF Inv, EventsConserved, Tick, Lock, SetInit, FetchLoad, LoadRate, StoreRate
<1> QED
  BY <1>1, <1>2

\* Every step of a ticker is well typed.
LEMMA TickKeepsType ==
  ASSUME Inv, NEW t \in Tickers,
         Tick(t) \/ Lock(t) \/ SetInit(t) \/ FetchLoad(t) \/ FetchSubtract(t)
           \/ LoadRate(t) \/ StoreRate(t)
  PROVE  TypeOK'
<1> USE EwmaAssumption DEF Nobody, Steps, Goto
<1>0. TypeOK /\ InvInit
  BY DEF Inv
<1>1. CASE Tick(t)
  BY <1>0, <1>1 DEF TypeOK, Tick
<1>2. CASE Lock(t)
  BY <1>0, <1>2 DEF TypeOK, Lock
<1>3. CASE SetInit(t)
  BY <1>0, <1>3 DEF TypeOK, SetInit
<1>4. CASE FetchLoad(t)
  BY <1>0, <1>4 DEF TypeOK, FetchLoad
<1>5. CASE FetchSubtract(t)
  <2>1. <<>> \in Seq(Int)
    OBVIOUS
  <2> QED
    BY <1>0, <1>5, <2>1 DEF TypeOK, FetchSubtract
<1>6. CASE LoadRate(t)
  BY <1>0, <1>6 DEF TypeOK, LoadRate
<1>7. CASE StoreRate(t)
  <2>1. loaded[t] \in Seq(Int) /\ count[t] \in Int /\ init
    BY <1>0, <1>7 DEF TypeOK, InvInit, StoreRate
  <2>2. Append(loaded[t], Total(loaded[t]) + count[t]) \in Seq(Int)
    BY <2>1, TotalType
  <2> QED
    BY <1>0, <1>7, <2>1, <2>2 DEF TypeOK, StoreRate
<1> QED
  BY <1>1, <1>2, <1>3, <1>4, <1>5, <1>6, <1>7

\* Every step of a ticker keeps the three facts about the first tick.
LEMMA TickKeepsFirst ==
  ASSUME Inv, NEW t \in Tickers,
         Tick(t) \/ Lock(t) \/ SetInit(t) \/ FetchLoad(t) \/ FetchSubtract(t)
           \/ LoadRate(t) \/ StoreRate(t)
  PROVE  (OneFirstTick /\ InvInit /\ InvFirst)'
<1> USE EwmaAssumption DEF Nobody, Goto, OneFirstTick, InvInit, InvFirst
<1>0. /\ pc \in [Tickers -> Steps] /\ first \in [Tickers -> BOOLEAN] /\ init \in BOOLEAN
      /\ OneFirstTick /\ InvInit /\ InvFirst
  BY DEF Inv, TypeOK
<1>1. CASE Tick(t)
  BY <1>0, <1>1 DEF Tick
<1>2. CASE Lock(t)
  BY <1>0, <1>2 DEF Lock
<1>3. CASE SetInit(t)
  BY <1>0, <1>3 DEF SetInit
<1>4. CASE FetchLoad(t) \/ FetchSubtract(t) \/ LoadRate(t)
  BY <1>0, <1>4 DEF FetchLoad, FetchSubtract, LoadRate
<1>5. CASE StoreRate(t)
  BY <1>0, <1>5 DEF StoreRate
<1> QED
  BY <1>1, <1>2, <1>3, <1>4, <1>5

\* The invariant is inductive.
LEMMA InvStep == Inv /\ [Next]_vars => Inv'
<1> SUFFICES ASSUME Inv, [Next]_vars PROVE Inv'
    OBVIOUS
<1>1. ASSUME NEW k \in 1 .. MaxEvents, Update(k) PROVE Inv'
  BY <1>1, UpdateKeepsInv
<1>2. ASSUME NEW t \in Tickers,
             Tick(t) \/ Lock(t) \/ SetInit(t) \/ FetchLoad(t) \/ FetchSubtract(t)
               \/ LoadRate(t) \/ StoreRate(t)
      PROVE  Inv'
  <2>1. TypeOK'
    BY <1>2, TickKeepsType
  <2>2. EventsConserved'
    BY <1>2, TickConservesEvents
  <2>3. (OneFirstTick /\ InvInit /\ InvFirst)'
    BY <1>2, TickKeepsFirst
  <2> QED
    BY <2>1, <2>2, <2>3 DEF Inv
<1>3. CASE UNCHANGED vars
  BY <1>3 DEF vars, locals, Inv, TypeOK, EventsConserved, OneFirstTick, InvInit, InvFirst
<1> QED
  BY <1>1, <1>2, <1>3 DEF Next

\* The values of ewma.go's fields and local variables stay in their types, and
\* a stored rate implies init.
THEOREM TypeCorrect == Spec => []TypeOK
<1>1. Inv => TypeOK
  BY DEF Inv
<1> QED
  BY <1>1, InvHolds, InvStep, PTL DEF Spec

\* Whatever the numbers of tickers and events: uncounted and what the ticks
\* fetched from it (ewma.go:119-135) add up to what Update added.
THEOREM NoEventIsLost == Spec => []EventsConserved
<1>1. Inv => EventsConserved
  BY DEF Inv
<1> QED
  BY <1>1, InvHolds, InvStep, PTL DEF Spec

\* The double-checked init of Tick (ewma.go:97-117) lets one tick initialise
\* the rate, whatever the number of tickers.
THEOREM FirstTickIsUnique == Spec => []OneFirstTick
<1>1. Inv => OneFirstTick
  BY DEF Inv
<1> QED
  BY <1>1, InvHolds, InvStep, PTL DEF Spec

-----------------------------------------------------------------------------
(* The moving average with one ticker: its rate is what was fetched.       *)

\* A goroutine that has made no tick is at rest.
TicksInv ==
  ticks \in [Tickers -> Nat] /\ \A t \in Tickers : ticks[t] = 0 => pc[t] = "idle"

\* No other goroutine than t has made a tick.
OnlyTicker(t) == \A u \in Tickers \ {t} : ticks[u] = 0

\* The running totals never fall.
Ascending(r) == \A i, j \in 1 .. Len(r) : i <= j => 0 <= r[i] /\ r[i] <= r[j]

\* Where t is in its tick, and what of it the rate and the counts show: what it
\* fetches and has not stored is between fetched and the rate, and what it
\* loaded to store is still the rate.
RateOf(t) ==
  /\ 0 <= uncounted /\ 0 <= fetched /\ Ascending(rate)
  /\ Len(rate) = IF pc[t] = "idle" THEN ticks[t] ELSE ticks[t] - 1
  /\ pc[t] \in {"subtract", "load", "store"} => 0 <= count[t]
  /\ pc[t] = "subtract" => count[t] <= uncounted
  /\ Total(rate) = IF pc[t] \in {"load", "store"} THEN fetched - count[t] ELSE fetched
  /\ pc[t] = "store" => loaded[t] = rate
  /\ first[t] => pc[t] \in {"idle", "fetch", "subtract", "store"}
  /\ first[t] /\ pc[t] # "idle" => rate = <<>>

\* The inductive invariant of a single ticker.
RateInv == TicksInv /\ \A t \in Tickers : OnlyTicker(t) => RateOf(t)

\* Storing a rate makes the new total the last, and keeps them in order.
LEMMA TotalOfAppend ==
  ASSUME NEW r \in Seq(Int), Ascending(r), NEW k \in Nat,
         NEW s, s = Append(r, Total(r) + k)
  PROVE  Total(s) = Total(r) + k /\ Len(s) = Len(r) + 1 /\ Ascending(s)
<1> DEFINE x == Total(r) + k
<1>0. Total(r) \in Int /\ 0 <= Total(r)
  <2>1. Len(r) \in Nat /\ (r # <<>> => Len(r) \in 1 .. Len(r))
    OBVIOUS
  <2> QED
    BY <2>1, TotalType DEF Total, Ascending
<1>1. x \in Int /\ Total(r) <= x /\ 0 <= x
  BY <1>0
<1> HIDE DEF x
<1>2. /\ s \in Seq(Int) /\ Len(s) = Len(r) + 1 /\ s # <<>>
      /\ s[Len(r) + 1] = x /\ \A i \in 1 .. Len(r) : s[i] = r[i]
  <2>1. s = Append(r, x)
    BY DEF x
  <2> QED
    BY <1>1, <2>1
<1>3. \A i \in 1 .. Len(r) : 0 <= r[i] /\ r[i] <= x
  <2> SUFFICES ASSUME NEW i \in 1 .. Len(r) PROVE 0 <= r[i] /\ r[i] <= x
      OBVIOUS
  <2>1. Len(r) \in 1 .. Len(r) /\ r # <<>> /\ Total(r) = r[Len(r)]
    BY DEF Total
  <2>2. 0 <= r[i] /\ r[i] <= r[Len(r)]
    BY <2>1 DEF Ascending
  <2>3. r[i] \in Int /\ r[Len(r)] \in Int
    BY <2>1
  <2> QED
    BY <1>1, <2>1, <2>2, <2>3
<1>4. Ascending(s)
  <2> SUFFICES ASSUME NEW i \in 1 .. Len(s), NEW j \in 1 .. Len(s), i <= j
               PROVE  0 <= s[i] /\ s[i] <= s[j]
      BY DEF Ascending
  <2>1. CASE j \in 1 .. Len(r)
    <3>1. i \in 1 .. Len(r)
      BY <2>1
    <3> QED
      BY <1>2, <2>1, <3>1 DEF Ascending
  <2>2. CASE j = Len(r) + 1 /\ i \in 1 .. Len(r)
    BY <1>2, <1>3, <2>2
  <2>3. CASE j = Len(r) + 1 /\ i = Len(r) + 1
    BY <1>1, <1>2, <2>3
  <2> QED
    BY <1>2, <2>1, <2>2, <2>3
<1> QED
  BY <1>1, <1>2, <1>4 DEF Total, x

\* No goroutine has ticked.
LEMMA RateInvHolds == Init => RateInv
BY DEF Init, RateInv, TicksInv, RateOf, Ascending, Total

\* An Update is between the steps of a tick, and adds no tick.
LEMMA UpdateKeepsRate ==
  ASSUME Inv, RateInv, NEW k \in 1 .. MaxEvents, Update(k)
  PROVE  RateInv'
<1>1. uncounted \in Int /\ \A t \in Tickers : count[t] \in Int
  BY DEF Inv, TypeOK
<1>2. TicksInv'
  BY DEF RateInv, TicksInv, Update, locals
<1>3. ASSUME NEW t \in Tickers, OnlyTicker(t)' PROVE RateOf(t)'
  <2>1. OnlyTicker(t) /\ RateOf(t)
    BY <1>3 DEF RateInv, OnlyTicker, Update, locals
  <2> QED
    BY <1>1, <2>1 DEF RateOf, Update, locals
<1> QED
  BY <1>2, <1>3 DEF RateInv

\* A step of a tick keeps the invariant of the only goroutine that has made one:
\* the tick is its own, or it begins now and is a second one.
LEMMA TickKeepsRate ==
  ASSUME Inv, RateInv, NEW u \in Tickers,
         Tick(u) \/ Lock(u) \/ SetInit(u) \/ FetchLoad(u) \/ FetchSubtract(u)
           \/ LoadRate(u) \/ StoreRate(u)
  PROVE  RateInv'
<1>1. TypeOK /\ InvInit /\ InvFirst /\ TicksInv
  BY DEF Inv, RateInv
<1>2. TicksInv' /\ ticks'[u] # 0 /\ \A t \in Tickers : ticks'[t] = 0 => ticks[t] = 0
  <2>1. CASE Tick(u)
    BY <1>1, <2>1 DEF TicksInv, TypeOK, Tick, Goto
  <2>2. CASE ~Tick(u)
    BY <1>1, <2>2 DEF TicksInv, TypeOK, Goto, Lock, SetInit, FetchLoad, FetchSubtract,
                      LoadRate, StoreRate
  <2> QED
    BY <2>1, <2>2
<1>3. ASSUME OnlyTicker(u)' PROVE RateOf(u)'
  <2>1. RateOf(u)
    BY <1>2, <1>3 DEF RateInv, OnlyTicker
  <2>2. /\ uncounted \in Int /\ fetched \in Int /\ count[u] \in Int /\ ticks[u] \in Nat
        /\ rate \in Seq(Int) /\ Total(rate) \in Int
    BY <1>1, TotalType DEF TypeOK, TicksInv
  <2>3. CASE Tick(u)
    <3>1. rate # <<>> => init
      BY <1>1 DEF TypeOK
    <3> QED
      BY <1>1, <2>1, <2>2, <2>3, <3>1 DEF RateOf, TypeOK, TicksInv, Tick, Goto
  <2>4. CASE Lock(u)
    BY <1>1, <2>1, <2>2, <2>4 DEF RateOf, TypeOK, Lock, Goto
  <2>5. CASE SetInit(u)
    <3>1. rate = <<>>
      BY <1>1, <2>5 DEF TypeOK, InvFirst, SetInit, Goto
    <3> QED
      BY <1>1, <2>1, <2>2, <2>5, <3>1 DEF RateOf, TypeOK, SetInit, Goto
  <2>6. CASE FetchLoad(u)
    BY <1>1, <2>1, <2>2, <2>6 DEF RateOf, TypeOK, FetchLoad, Goto
  <2>7. CASE FetchSubtract(u)
    BY <1>1, <2>1, <2>2, <2>7 DEF RateOf, TypeOK, FetchSubtract, Goto
  <2>8. CASE LoadRate(u)
    BY <1>1, <2>1, <2>2, <2>8 DEF RateOf, TypeOK, LoadRate, Goto
  <2>9. CASE StoreRate(u)
    <3>1. /\ pc[u] = "store" /\ pc'[u] = "idle" /\ count[u] \in Nat
          /\ rate' = Append(rate, Total(rate) + count[u])
          /\ Ascending(rate) /\ Total(rate) = fetched - count[u]
      BY <1>1, <2>1, <2>2, <2>9 DEF RateOf, TypeOK, StoreRate, Goto
    <3>2. /\ Total(rate') = Total(rate) + count[u] /\ Len(rate') = Len(rate) + 1
          /\ Ascending(rate')
      BY <2>2, <3>1, TotalOfAppend
    <3>3. Len(rate') = ticks[u] /\ Total(rate') = fetched
      BY <2>1, <2>2, <3>1, <3>2 DEF RateOf
    <3> QED
      BY <2>1, <2>2, <2>9, <3>1, <3>2, <3>3 DEF RateOf, StoreRate
  <2> QED
    BY <2>3, <2>4, <2>5, <2>6, <2>7, <2>8, <2>9
<1>4. ASSUME NEW t \in Tickers, OnlyTicker(t)' PROVE t = u
  BY <1>2, <1>4 DEF OnlyTicker
<1> QED
  BY <1>2, <1>3, <1>4 DEF RateInv

\* The invariant of a single ticker is inductive, relative to the first one.
LEMMA RateInvStep == Inv /\ RateInv /\ [Next]_vars => RateInv'
<1>1. ASSUME RateInv, UNCHANGED vars PROVE RateInv'
  BY <1>1 DEF vars, locals, RateInv, TicksInv, OnlyTicker, RateOf
<1> QED
  BY <1>1, UpdateKeepsRate, TickKeepsRate DEF Next

\* Both invariants hold in every state.
LEMMA RateInvariance == Spec => [](Inv /\ RateInv)
<1>1. Init => Inv /\ RateInv
  BY InvHolds, RateInvHolds
<1>2. Inv /\ RateInv /\ [Next]_vars => (Inv /\ RateInv)'
  BY InvStep, RateInvStep
<1> QED
  BY <1>1, <1>2, PTL DEF Spec

\* As long as one goroutine is the only ticker, the rate is made of all it has
\* fetched, in as many instants as it made ticks (ewma.go:97-135), whatever the
\* updates in between.
THEOREM OneTickerCountsAll == Spec => []ArbiterTicksCount
<1>1. RateInv => ArbiterTicksCount
  BY DEF RateInv, OnlyTicker, RateOf, ArbiterTicksCount
<1> QED
  BY <1>1, RateInvariance, PTL

-----------------------------------------------------------------------------
(* The meter.                                                              *)

\* Those that mark, tick or stop the meter.
Goroutines == Updaters \cup Stoppers

\* A Mark under way has at least one event and not more than the bound.
MarkInv ==
  /\ DOMAIN step = Goroutines /\ DOMAIN n = Markers
  /\ \A p \in Markers : step[p] \in {"count", "update"} => n[p] \in 1 .. MaxEvents

\* What a stop has done by the time it is at each step, and when the arbiter is
\* inside the meter.
StopInv ==
  /\ DOMAIN step = Goroutines /\ registered \in BOOLEAN
  /\ \A p \in Stoppers : step[p] \in {"delete", "stopped"} => stopped
  /\ \A p \in Stoppers : step[p] = "stopped" => ~registered
  /\ \A t \in Tickers : step[t] # "idle" => reading
  /\ ~registered => ~reading

-----------------------------------------------------------------------------
(* The meter's average is an Ewma.                                         *)

\* The marks keep their arguments until they have used them.
LEMMA MarksHaveEvents == MeterSpec => []MarkInv
<1>1. MeterInit => MarkInv
  BY DEF MeterInit, MarkInv, Goroutines, Updaters
<1>2. MarkInv /\ [MeterNext]_allVars => MarkInv'
  <2> SUFFICES ASSUME MarkInv, [MeterNext]_allVars PROVE MarkInv'
      OBVIOUS
  <2> USE MeterAssumption DEF Goroutines, Updaters, MarkInv
  <2>1. ASSUME NEW p \in Markers, MarkBegin(p) PROVE MarkInv'
    BY <2>1 DEF MarkBegin, Walk
  <2>2. ASSUME NEW p \in Markers, MarkCount(p) \/ MarkUpdate(p) PROVE MarkInv'
    BY <2>2 DEF MarkCount, MarkUpdate, Walk
  <2>3. ASSUME NEW p \in Updaters, SnapshotLoad(p) \/ SnapshotStore(p) PROVE MarkInv'
    BY <2>3 DEF SnapshotLoad, SnapshotStore, Walk
  <2>4. ASSUME NEW t \in Tickers, TickMeter(t) \/ InTick(t) PROVE MarkInv'
    BY <2>4 DEF TickMeter, InTick, Walk
  <2>5. ASSUME NEW p \in Stoppers, StopSwap(p) \/ StopDelete(p) PROVE MarkInv'
    BY <2>5 DEF StopSwap, StopDelete, Walk
  <2>6. CASE LogBegin \/ CopyCount \/ CopyRate \/ LogLine \/ UNCHANGED allVars
    BY <2>6 DEF LogBegin, CopyCount, CopyRate, LogLine, allVars, meterVars
  <2> QED
    BY <2>1, <2>2, <2>3, <2>4, <2>5, <2>6 DEF MeterNext
<1> QED
  BY <1>1, <1>2, PTL DEF MeterSpec

\* Every step of the meter is a step of its average or leaves it alone.
LEMMA StepOfAverage == MarkInv /\ [MeterNext]_allVars => [Next]_vars
<1> SUFFICES ASSUME MarkInv, [MeterNext]_allVars PROVE [Next]_vars
    OBVIOUS
<1>1. ASSUME NEW p \in Markers, MarkBegin(p) \/ MarkCount(p) PROVE [Next]_vars
  BY <1>1 DEF MarkBegin, MarkCount
<1>2. ASSUME NEW p \in Markers, MarkUpdate(p) PROVE [Next]_vars
  <2>1. step[p] = "update" /\ Update(n[p])
    BY <1>2 DEF MarkUpdate, Walk
  <2>2. n[p] \in 1 .. MaxEvents
    BY <2>1 DEF MarkInv
  <2> QED
    BY <2>1, <2>2 DEF Next
<1>3. ASSUME NEW p \in Updaters, SnapshotLoad(p) \/ SnapshotStore(p) PROVE [Next]_vars
  BY <1>3 DEF SnapshotLoad, SnapshotStore
<1>4. ASSUME NEW t \in Tickers, TickMeter(t) \/ InTick(t) PROVE [Next]_vars
  BY <1>4 DEF TickMeter, InTick, Next
<1>5. ASSUME NEW p \in Stoppers, StopSwap(p) \/ StopDelete(p) PROVE [Next]_vars
  BY <1>5 DEF StopSwap, StopDelete
<1>6. CASE LogBegin \/ CopyCount \/ CopyRate \/ LogLine \/ UNCHANGED allVars
  BY <1>6 DEF LogBegin, CopyCount, CopyRate, LogLine, allVars
<1> QED
  BY <1>1, <1>2, <1>3, <1>4, <1>5, <1>6 DEF MeterNext

\* Between its Mark, its arbiter and its Stop, a meter uses its average as
\* StandardEWMA is specified to be used.
THEOREM MeterUsesEwma == MeterSpec => Spec
<1>1. MeterInit => Init
  BY DEF MeterInit
<1> QED
  BY <1>1, StepOfAverage, MarksHaveEvents, PTL DEF MeterSpec, Spec

\* No mark is lost or counted twice by the average, whatever ticks meanwhile.
THEOREM NoMarkIsLost == MeterSpec => []EventsConserved
BY MeterUsesEwma, NoEventIsLost, PTL

\* The one arbiter's rates in a meter are made of all that it has fetched.
THEOREM MeterCountsAll == MeterSpec => []ArbiterTicksCount
BY MeterUsesEwma, OneTickerCountsAll, PTL

-----------------------------------------------------------------------------
(* A stop is final.                                                        *)

\* Nobody is in a tick when a stop has returned.
LEMMA StopInvariance ==
  ASSUME \A t, u \in Tickers : t = u
  PROVE  MeterSpec => []StopInv
<1>1. MeterInit => StopInv
  BY MeterAssumption DEF MeterInit, StopInv, Goroutines, Updaters
<1>2. StopInv /\ [MeterNext]_allVars => StopInv'
  <2> SUFFICES ASSUME StopInv, [MeterNext]_allVars PROVE StopInv'
      OBVIOUS
  <2> USE MeterAssumption DEF Goroutines, Updaters, StopInv
  <2>1. ASSUME NEW p \in Markers, MarkBegin(p) \/ MarkCount(p) \/ MarkUpdate(p)
        PROVE  StopInv'
    BY <2>1 DEF MarkBegin, MarkCount, MarkUpdate, Walk
  <2>2. ASSUME NEW p \in Updaters, SnapshotLoad(p) PROVE StopInv'
    BY <2>2 DEF SnapshotLoad, Walk
  <2>3. ASSUME NEW p \in Updaters, SnapshotStore(p) PROVE StopInv'
    BY <2>3 DEF SnapshotStore, Walk
  <2>4. ASSUME NEW t \in Tickers, TickMeter(t) PROVE StopInv'
    BY <2>4 DEF TickMeter, Walk
  <2>5. ASSUME NEW t \in Tickers, InTick(t) PROVE StopInv'
    BY <2>5 DEF InTick
  <2>6. ASSUME NEW p \in Stoppers, StopSwap(p) PROVE StopInv'
    BY <2>6 DEF StopSwap, Walk
  <2>7. ASSUME NEW p \in Stoppers, StopDelete(p) PROVE StopInv'
    BY <2>7 DEF StopDelete, Walk
  <2>8. CASE LogBegin \/ CopyCount \/ CopyRate \/ LogLine \/ UNCHANGED allVars
    BY <2>8 DEF LogBegin, CopyCount, CopyRate, LogLine, allVars, meterVars
  <2> QED
    BY <2>1, <2>2, <2>3, <2>4, <2>5, <2>6, <2>7, <2>8 DEF MeterNext
<1> QED
  BY <1>1, <1>2, PTL DEF MeterSpec

\* With one arbiter, once the Stop that won has returned and the marks under way
\* have ended, nothing changes the meter.
THEOREM StoppedForGood ==
  ASSUME \A t, u \in Tickers : t = u
  PROVE  MeterSpec => StopIsFinal
<1>1. StopInv /\ [MeterNext]_allVars =>
        [(\E p \in Stoppers : step[p] = "stopped") /\ (\A p \in Markers : step[p] = "idle")
           => UNCHANGED <<vars, total, shown, registered, reading>>]_allVars
  <2> SUFFICES ASSUME StopInv, MeterNext,
                      NEW s \in Stoppers, step[s] = "stopped",
                      \A p \in Markers : step[p] = "idle"
               PROVE  UNCHANGED <<vars, total, shown, registered, reading>>
      OBVIOUS
  <2>1. /\ stopped /\ registered = FALSE /\ ~reading
        /\ \A t \in Tickers : step[t] = "idle"
    BY DEF StopInv
  <2>2. \A p \in Updaters : step[p] = "idle"
    BY <2>1 DEF Updaters
  <2>3. ASSUME NEW p \in Markers, MarkBegin(p) \/ MarkCount(p) \/ MarkUpdate(p)
        PROVE  FALSE
    BY <2>1, <2>3 DEF MarkBegin, MarkCount, MarkUpdate, Walk
  <2>4. ASSUME NEW p \in Updaters, SnapshotLoad(p) \/ SnapshotStore(p) PROVE FALSE
    BY <2>2, <2>4 DEF SnapshotLoad, SnapshotStore, Walk
  <2>5. ASSUME NEW t \in Tickers, TickMeter(t) \/ InTick(t) PROVE FALSE
    BY <2>1, <2>5 DEF TickMeter, InTick
  <2>6. ASSUME NEW p \in Stoppers, StopSwap(p) \/ StopDelete(p)
        PROVE  UNCHANGED <<vars, total, shown, registered, reading>>
    <3>1. CASE StopSwap(p)
      BY <3>1 DEF StopSwap
    <3>2. CASE StopDelete(p)
      BY <2>1, <3>2 DEF StopDelete
    <3> QED
      BY <2>6, <3>1, <3>2
  <2>7. CASE LogBegin \/ CopyCount \/ CopyRate \/ LogLine
    BY <2>7 DEF LogBegin, CopyCount, CopyRate, LogLine, meterVars
  <2> QED
    BY <2>3, <2>4, <2>5, <2>6, <2>7 DEF MeterNext
<1> QED
  BY <1>1, StopInvariance, PTL DEF MeterSpec, StopIsFinal

-----------------------------------------------------------------------------
(* What the meter and its log line show has been counted.                  *)

\* The events that are counted and not yet in the average, as places in a table
\* with a row for each goroutine that marks.
OnTheWay ==
  {x \in Markers \X (1 .. MaxEvents) : step[x[1]] = "update" /\ x[2] <= n[x[1]]}

\* The first k of the places of p.
EventsOf(p, k) == {x \in Markers \X (1 .. MaxEvents) : x[1] = p /\ x[2] <= k}

\* The count is ahead of the average by the events on the way.
CountInv ==
  /\ total \in Int /\ IsFiniteSet(OnTheWay)
  /\ total = added + Cardinality(OnTheWay)

\* r is a beginning of s.
PrefixOf(r, s) == Len(r) <= Len(s) /\ \A i \in 1 .. Len(r) : r[i] = s[i]

\* Every copy of the rate is one that it has had, and the line that is printed
\* shows no more events than the count beside it.
CopyInv ==
  /\ read \in [Updaters -> Seq(Int)] /\ shown \in Seq(Int)
  /\ copied \in [count : Int, rate : Seq(Int)]
  /\ \A p \in Updaters : PrefixOf(read[p], rate)
  /\ PrefixOf(shown, rate) /\ PrefixOf(copied.rate, rate)
  /\ Total(line.rate) <= line.count

\* There are k of them.
LEMMA EventsAreCounted ==
  ASSUME NEW p \in Markers, NEW k \in 1 .. MaxEvents
  PROVE  IsFiniteSet(EventsOf(p, k)) /\ Cardinality(EventsOf(p, k)) = k
<1>0. MaxEvents \in Nat /\ k \in Nat /\ 1 <= k /\ k <= MaxEvents
  BY EwmaAssumption
<1>1. IsFiniteSet({p}) /\ Cardinality({p}) = 1
  BY FS_Singleton
<1>2. IsFiniteSet(1 .. k) /\ Cardinality(1 .. k) = k
  <2>1. IsFiniteSet(1 .. k) /\ Cardinality(1 .. k) = IF 1 > k THEN 0 ELSE k - 1 + 1
    BY <1>0, FS_Interval
  <2> QED
    BY <1>0, <2>1
<1>3. IsFiniteSet({p} \X (1 .. k)) /\ Cardinality({p} \X (1 .. k)) = 1 * k
  <2>1. \A S, T : IsFiniteSet(S) /\ IsFiniteSet(T) =>
          IsFiniteSet(S \X T) /\ Cardinality(S \X T) = Cardinality(S) * Cardinality(T)
    BY FS_Product
  <2> QED
    BY <1>1, <1>2, <2>1, Zenon
<1>4. EventsOf(p, k) = {p} \X (1 .. k)
  <2>1. ASSUME NEW x \in EventsOf(p, k) PROVE x \in {p} \X (1 .. k)
    BY <1>0, <2>1 DEF EventsOf
  <2>2. ASSUME NEW x \in {p} \X (1 .. k) PROVE x \in EventsOf(p, k)
    BY <1>0, <2>2 DEF EventsOf
  <2> QED
    BY <2>1, <2>2
<1> QED
  BY <1>0, <1>3, <1>4

\* MarkCount puts the events of a Mark on the way, MarkUpdate takes them off.
LEMMA CountInvStep ==
  TypeOK /\ MarkInv /\ CountInv /\ [MeterNext]_allVars => CountInv'
<1> SUFFICES ASSUME TypeOK, MarkInv, CountInv, [MeterNext]_allVars PROVE CountInv'
    OBVIOUS
<1> USE MeterAssumption
<1>0. added \in Int /\ IsFiniteSet(OnTheWay) /\ Cardinality(OnTheWay) \in Nat
  BY FS_CardinalityType DEF TypeOK, CountInv
<1>2. ASSUME NEW p \in Markers, MarkBegin(p) PROVE CountInv'
  <2>1. OnTheWay' = OnTheWay
    BY <1>2 DEF MarkBegin, Walk, OnTheWay, MarkInv, Goroutines
  <2> QED
    BY <1>2, <2>1 DEF CountInv, MarkBegin, vars
<1>3. ASSUME NEW p \in Markers, MarkCount(p) PROVE CountInv'
  <2>1. n[p] \in 1 .. MaxEvents /\ total' = total + n[p] /\ added' = added
    BY <1>3 DEF MarkInv, MarkCount, Walk, vars
  <2>2. /\ step[p] = "count" /\ step'[p] = "update" /\ n' = n
        /\ \A q \in Markers \ {p} : step'[q] = step[q]
    BY <1>3 DEF MarkCount, Walk, MarkInv, Goroutines, Updaters
  <2>3. OnTheWay' = OnTheWay \cup EventsOf(p, n[p]) /\ OnTheWay \cap EventsOf(p, n[p]) = {}
    BY <2>2 DEF OnTheWay, EventsOf
  <2>4. IsFiniteSet(EventsOf(p, n[p])) /\ Cardinality(EventsOf(p, n[p])) = n[p]
    BY <2>1, EventsAreCounted
  <2>5. /\ IsFiniteSet(OnTheWay')
        /\ Cardinality(OnTheWay') = Cardinality(OnTheWay) + Cardinality(EventsOf(p, n[p])) - 0
    BY <1>0, <2>3, <2>4, FS_Union, FS_EmptySet
  <2> QED
    BY <1>0, <2>1, <2>4, <2>5 DEF CountInv
<1>4. ASSUME NEW p \in Markers, MarkUpdate(p) PROVE CountInv'
  <2>1. n[p] \in 1 .. MaxEvents /\ total' = total /\ added' = added + n[p]
    BY <1>4 DEF MarkInv, MarkUpdate, Walk, Update
  <2>2. /\ step[p] = "update" /\ step'[p] = "load"
        /\ \A q \in Markers \ {p} : step'[q] = step[q] /\ n'[q] = n[q]
    BY <1>4 DEF MarkUpdate, Walk, MarkInv, Goroutines, Updaters
  <2>3. /\ OnTheWay' = OnTheWay \ EventsOf(p, n[p])
        /\ OnTheWay \cap EventsOf(p, n[p]) = EventsOf(p, n[p])
    BY <2>2 DEF OnTheWay, EventsOf
  <2>4. IsFiniteSet(EventsOf(p, n[p])) /\ Cardinality(EventsOf(p, n[p])) = n[p]
    BY <2>1, EventsAreCounted
  <2>5. /\ IsFiniteSet(OnTheWay \ EventsOf(p, n[p]))
        /\ Cardinality(OnTheWay \ EventsOf(p, n[p]))
             = Cardinality(OnTheWay) - Cardinality(OnTheWay \cap EventsOf(p, n[p]))
    BY <1>0, FS_Difference
  <2>6. /\ IsFiniteSet(OnTheWay')
        /\ Cardinality(OnTheWay') = Cardinality(OnTheWay) - Cardinality(EventsOf(p, n[p]))
    BY <2>3, <2>5
  <2> QED
    BY <1>0, <2>1, <2>4, <2>6 DEF CountInv
<1>5. CASE /\ UNCHANGED <<total, n, added>>
           /\ \A p \in Markers : step'[p] = "update" <=> step[p] = "update"
  BY <1>5 DEF CountInv, OnTheWay
<1>6. ASSUME NEW p \in Updaters, SnapshotLoad(p) \/ SnapshotStore(p) PROVE CountInv'
  BY <1>5, <1>6 DEF SnapshotLoad, SnapshotStore, Walk, vars, MarkInv, Goroutines, Updaters
<1>7. ASSUME NEW t \in Tickers, TickMeter(t) \/ InTick(t) PROVE CountInv'
  BY <1>5, <1>7 DEF TickMeter, InTick, Walk, MarkInv, Goroutines, Updaters, Tick, Lock, SetInit,
     FetchLoad, FetchSubtract, LoadRate, StoreRate
<1>8. ASSUME NEW p \in Stoppers, StopSwap(p) \/ StopDelete(p) PROVE CountInv'
  BY <1>5, <1>8 DEF StopSwap, StopDelete, Walk, vars, MarkInv, Goroutines, Updaters
<1>9. CASE LogBegin \/ CopyCount \/ CopyRate \/ LogLine \/ UNCHANGED allVars
  BY <1>5, <1>9 DEF LogBegin, CopyCount, CopyRate, LogLine, allVars, meterVars, vars
<1> QED
  BY <1>2, <1>3, <1>4, <1>6, <1>7, <1>8, <1>9 DEF MeterNext

\* Nothing is marked yet, and nothing is on the way.
LEMMA CountInvHolds == MeterInit => CountInv
<1> SUFFICES ASSUME MeterInit PROVE CountInv
    OBVIOUS
<1>1. OnTheWay = {}
  BY DEF MeterInit, OnTheWay, Updaters
<1> QED
  BY <1>1, FS_EmptySet DEF MeterInit, Init, CountInv

\* With one ticker, what the ticks store is the old rate and one more total.
LEMMA RateGrows ==
  ASSUME NEW arbiter, Tickers = {arbiter}, Inv, RateInv, [Next]_vars
  PROVE  rate' = rate \/ \E x \in Int : rate' = Append(rate, x)
<1>1. RateOf(arbiter) /\ TypeOK
  BY DEF RateInv, OnlyTicker, Inv
<1>2. CASE StoreRate(arbiter)
  <2>1. loaded[arbiter] = rate /\ Total(rate) \in Int /\ count[arbiter] \in Int
    BY <1>1, <1>2, TotalType DEF RateOf, TypeOK, StoreRate, Goto
  <2> QED
    BY <1>2, <2>1 DEF StoreRate
<1>3. CASE rate' = rate
  BY <1>3
<1> QED
  BY <1>2, <1>3 DEF Next, vars, Update, Tick, Lock, SetInit, FetchLoad, FetchSubtract, LoadRate

\* A beginning of the rate is a beginning of what the rate becomes.
LEMMA PrefixStays ==
  ASSUME NEW r \in Seq(Int), NEW s \in Seq(Int), PrefixOf(r, s),
         NEW next, next = s \/ \E x \in Int : next = Append(s, x)
  PROVE  PrefixOf(r, next)
<1>1. CASE next = s
  BY <1>1
<1>2. ASSUME NEW x \in Int, next = Append(s, x) PROVE PrefixOf(r, next)
  <2>1. Len(next) = Len(s) + 1 /\ \A i \in 1 .. Len(s) : next[i] = s[i]
    BY <1>2
  <2> QED
    BY <2>1 DEF PrefixOf
<1> QED
  BY <1>1, <1>2

\* A beginning of a rate has no more events than the rate.
LEMMA TotalOfPrefix ==
  ASSUME NEW r \in Seq(Int), NEW s \in Seq(Int), PrefixOf(r, s), Ascending(s)
  PROVE  Total(r) <= Total(s)
<1>1. Len(r) \in Nat /\ Len(s) \in Nat /\ Len(r) <= Len(s)
  BY DEF PrefixOf
<1>2. CASE r # <<>>
  <2>1. Len(r) \in 1 .. Len(r) /\ Len(r) \in 1 .. Len(s) /\ Len(s) \in 1 .. Len(s) /\ s # <<>>
    BY <1>1, <1>2
  <2> QED
    BY <1>1, <1>2, <2>1 DEF Total, PrefixOf, Ascending
<1>3. CASE r = <<>> /\ s # <<>>
  <2>1. Len(s) \in 1 .. Len(s)
    BY <1>1, <1>3
  <2> QED
    BY <1>3, <2>1 DEF Total, Ascending
<1>4. CASE r = <<>> /\ s = <<>>
  BY <1>4 DEF Total
<1> QED
  BY <1>2, <1>3, <1>4

\* A beginning is a prefix.
LEMMA PrefixMeans ==
  ASSUME NEW r \in Seq(Int), NEW s \in Seq(Int), PrefixOf(r, s)
  PROVE  IsPrefix(r, s)
<1>1. Len(r) \in Nat /\ Len(s) \in Nat /\ Len(r) <= Len(s)
  BY DEF PrefixOf
<1>2. SubSeq(r, 1, Len(r)) = SubSeq(s, 1, Len(r))
  BY <1>1 DEF PrefixOf
<1> QED
  BY <1>1, <1>2 DEF IsPrefix

\* The rate and the events no tick has fetched are within the count.
LEMMA RateIsCounted ==
  ASSUME NEW arbiter, Tickers = {arbiter}, Inv, RateInv, CountInv
  PROVE  /\ Total(rate) \in Int /\ total \in Int
         /\ Total(rate) + uncounted <= total /\ Total(rate) <= total
         /\ Ascending(rate) /\ rate \in Seq(Int)
<1>1. RateOf(arbiter) /\ TypeOK /\ EventsConserved
  BY DEF RateInv, OnlyTicker, Inv
<1>2. added <= total /\ total \in Int
  BY <1>1, FS_CardinalityType DEF CountInv, TypeOK
<1>3. count[arbiter] \in Int /\ uncounted \in Int /\ fetched \in Int /\ added \in Int
  BY <1>1 DEF TypeOK
<1>4. Total(rate) <= fetched /\ 0 <= uncounted /\ Total(rate) \in Int
  BY <1>1, <1>3 DEF RateOf
<1> QED
  BY <1>1, <1>2, <1>3, <1>4 DEF EventsConserved, RateOf, TypeOK

\* updateSnapshot, the snapshot and the log line copy beginnings of the rate.
LEMMA CopyInvStep ==
  ASSUME NEW arbiter, Tickers = {arbiter}, Inv, RateInv, MarkInv, CountInv, CopyInv,
         [MeterNext]_allVars
  PROVE  CopyInv'
<1> USE DEF CopyInv
<1>0. /\ Total(rate) \in Int /\ total \in Int /\ Total(rate) <= total
      /\ Ascending(rate) /\ rate \in Seq(Int)
  BY RateIsCounted
<1>1. \A r \in Seq(Int) : PrefixOf(r, rate) => PrefixOf(r, rate')
  BY <1>0, RateGrows, StepOfAverage, PrefixStays
<1>2. <<>> \in Seq(Int) /\ PrefixOf(<<>>, rate) /\ PrefixOf(<<>>, rate')
  <2>1. <<>> \in Seq(Int) /\ PrefixOf(<<>>, rate)
    BY <1>0 DEF PrefixOf
  <2> QED
    BY <1>1, <2>1
<1>3. PrefixOf(rate, rate)
  BY <1>0 DEF PrefixOf
<1>4. CASE UNCHANGED <<shown, read, copied, line>>
  BY <1>1, <1>4
<1>5. ASSUME NEW p \in Updaters, SnapshotLoad(p) PROVE CopyInv'
  BY <1>0, <1>1, <1>3, <1>5 DEF SnapshotLoad, logVars, vars
<1>6. ASSUME NEW p \in Updaters, SnapshotStore(p) PROVE CopyInv'
  BY <1>1, <1>2, <1>6 DEF SnapshotStore, logVars, vars
<1>7. CASE LogBegin
  <2>1. Total(line'.rate) <= line'.count
    BY <1>7 DEF LogBegin, Blank, Total
  <2> QED
    BY <1>7, <2>1 DEF LogBegin, vars, meterVars
<1>8. CASE CopyCount
  BY <1>0, <1>8 DEF CopyCount, vars, meterVars
<1>9. CASE CopyRate
  BY <1>9 DEF CopyRate, vars, meterVars
<1>10. CASE LogLine
  <2>1. Total(copied.rate) <= total
    <3>1. Total(copied.rate) <= Total(rate) /\ Total(copied.rate) \in Int
      BY <1>0, TotalOfPrefix, TotalType
    <3> QED
      BY <1>0, <3>1
  <2> QED
    BY <1>2, <1>10, <2>1 DEF LogLine, Blank, vars, meterVars
<1>11. CASE UNCHANGED allVars
  BY <1>4, <1>11 DEF allVars, meterVars, logVars
<1>12. ASSUME NEW p \in Markers, MarkBegin(p) \/ MarkCount(p) \/ MarkUpdate(p) PROVE CopyInv'
  BY <1>4, <1>12 DEF MarkBegin, MarkCount, MarkUpdate, logVars
<1>13. ASSUME NEW t \in Tickers, TickMeter(t) \/ InTick(t) PROVE CopyInv'
  BY <1>4, <1>13 DEF TickMeter, InTick, logVars
<1>14. ASSUME NEW p \in Stoppers, StopSwap(p) \/ StopDelete(p) PROVE CopyInv'
  BY <1>4, <1>14 DEF StopSwap, StopDelete, logVars
<1> QED
  BY <1>5, <1>6, <1>7, <1>8, <1>9, <1>10, <1>11, <1>12, <1>13, <1>14 DEF MeterNext

\* With one arbiter, whatever the marks, the ticks and the log routine do
\* meanwhile: a rate that is shown is one the average has had, and it accounts
\* for no event that the count shown beside it has not counted.
THEOREM ShownIsCounted ==
  ASSUME NEW arbiter, Tickers = {arbiter}
  PROVE  MeterSpec => []RatesAreCounted
<1>1. MeterInit => CountInv /\ CopyInv
  <2> SUFFICES ASSUME MeterInit PROVE CopyInv
      BY CountInvHolds
  <2>1. <<>> \in Seq(Int)
    OBVIOUS
  <2> QED
    BY <2>1 DEF MeterInit, Init, CopyInv, Blank, PrefixOf, Total
<1>2. ASSUME Inv, RateInv, MarkInv, CountInv /\ CopyInv, [MeterNext]_allVars
      PROVE  (CountInv /\ CopyInv)'
  BY <1>2, CountInvStep, CopyInvStep DEF Inv
<1>3. Inv /\ RateInv /\ CountInv /\ CopyInv => RatesAreCounted
  BY RateIsCounted, PrefixMeans DEF CopyInv, RatesAreCounted
<1>4. MeterSpec => [](Inv /\ RateInv)
  BY MeterUsesEwma, RateInvariance, PTL
<1> QED
  BY <1>1, <1>2, <1>3, <1>4, MarksHaveEvents, PTL DEF MeterSpec
=============================================================================
