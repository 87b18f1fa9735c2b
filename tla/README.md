# Verification of vsock-sdk

TLA+ specifications of [`brodyxchen/vsock-sdk`](../src), a small RPC library in
Go: a client that sends a request to a path of a server over a vsock or TCP
connection and waits for the response, a pool that keeps client connections
alive between calls, a server with one goroutine per connection, and a metrics
library that both sides report to.  TLC checks every specification on small
instances; TLAPS proves the most important facts for all instances.

All paths below are relative to `src/`.

## 1. The system

| part | source | state | operations |
|---|---|---|---|
| connection pool | `client/connpool.go` | a list of idle connections per address, under `mutex` | `Get`, `Put`, `Remove`, `Exist` |
| connection | `client/persistconn.go` | `closed`/`closedCh` under `closedMutex`; `sendCh`, `receiveCh`; `idleAt`, `idleTimer`, `reused` | `roundTrip`, `readLoop`, `writeLoop`, `close`, `closeWhenIdleTimeout` |
| transport | `client/transport.go` | none but the pool; the local variables of each `roundTrip` | `getConn`, `roundTrip` (retry loop and deferred function), `putConn`, `removeConn` |
| client facade | `client/client.go`, `config.go`, `connectkey.go` | configuration | `Do`, `send` |
| accept loop | `server/server.go` | `handlers` under `mutex`, `DisableKeepAlives`, `connsHist`, the back-off | `Serve`, `HandleFunc`, `sleep`, `doKeepAlives` |
| server connection | `server/conn.go`, `pools.go` | its socket, a reader and a writer from a shared `sync.Pool` | `serve`, `handleServe`, `responseSuccess`, `responseStatus`, `Close` |
| framing | `socket/socket.go`, `models/model.go` | none: a header of magic, version, code and 16-bit length | `ReadSocket`, `WriteSocket` |
| EWMA | `statistics/metrics/ewma.go` | `uncounted`, `rate`, `init` (atomics), `mutex` | `Update`, `Tick` |
| meters, arbiter | `statistics/metrics/meter.go` | a meter's snapshot and `stopped` (atomics); the arbiter's set of meters under its lock | `NewMeter`, `Mark`, `Snapshot`, `Stop`, `tickMeters` |
| registry | `statistics/metrics/registry.go` | a map of metrics under `mutex`; prefixed views of it, without state | `GetOrRegister`, `Register`, `Unregister`, `UnregisterAll`, `Each` |
| samples | `statistics/metrics/sample.go` | a reservoir (an array, or a heap by priority) | `Update`, `Clear`, `Snapshot`, percentiles |
| log routine | `statistics/metrics/log.go`, `histogram.go`, `statistics/client.go` | a ticker and a close channel | `LogRoutine`, `format`, `CloseClient` |

How they interact.  `Client.Do` computes a deadline and calls
`Transport.roundTrip`.  That takes a connection from the pool or dials one, and
a dialed connection starts two goroutines of its own, `readLoop` and
`writeLoop`.  `PersistConn.roundTrip` hands the request to `writeLoop` over
`sendCh` and a notification to `readLoop` over `receiveCh`, and waits for
either's reply, for `closedCh`, or for the deadline.  A success returns the
connection to the pool, which arms an idle timer; a failure closes it, and is
tried once more if the connection was a pooled one.  The connection is closed
by whoever notices first: the caller, a loop, the pool evicting it, its timer.
At the other end `serve` reads a frame, runs the handler, writes a frame, and
begins again.  Requests carry no identifier: **the next frame is the answer**.

What is hard about it:

- the pool's mutex, `closedMutex`, two loops, a timer goroutine and the caller
  all touch one connection, and most checks (`isClosed`) are stale when used;
- with no identifiers on the wire, one response left over after an abandoned
  trip would shift every answer after it to the wrong caller;
- a pooled connection may be dead already, so failures are retried, and the
  handler may have run;
- channel sends without `select`, a `select` whose ready cases are chosen at
  random, and locks taken inside locks;
- the metrics use atomics and double-checked locking.

`PROJECT.json` lists these hazards line by line with the properties that cover
each, and those that none covers yet with the reason.

What makes each part correct:

- pool: one owner per connection, none lost, every idle one timed, lists ordered
  by age and bounded;
- connection: a caller gets the answer to its own request or an error, always by
  its deadline; what returns to the pool is clean; a close stops the loops;
- transport: every call returns; stale pooled connections are invisible to the
  caller; the handler runs at most twice;
- server: one answer per request, in order; buffers never shared; the counter of
  connections exact; no goroutine stuck when its client has gone;
- framing: frames arrive whole or not at all, and "broken" is said exactly when
  the stream is no longer at a boundary;
- metrics: events are neither lost nor counted twice; one metric per name;
  reservoirs keep what they promise; no deadlock.

## 2. Modules

| module | models | composes |
|---|---|---|
| `ConnLease` | abstract: what a pool promises its users | |
| `ConnPool` | the pool, idle timers, closing | implements `ConnLease` |
| `IdleTimer` | every access of one connection's `idleTimer`, and the two mutexes | |
| `Transport` | `getConn` and the retry loop of several concurrent calls | extends `ConnPool` |
| `RemoteCall` | abstract: what `Client.Do` promises its caller | |
| `Rpc` | calls from end to end, over connections and a server | extends `Transport`; implements `RemoteCall`, and `Exchange` on every connection |
| `Exchange` | abstract: what one connection promises the transport | |
| `PersistConn` | `roundTrip`, `readLoop`, `writeLoop`, `close`, and the server end | implements `Exchange` |
| `Server` | accept loop, `serve`, buffer pool, counter | |
| `Socket` | `ReadSocket`, `WriteSocket` over a stream that is cut up and cut off | |
| `Ewma` | `Update` and `Tick`, one atomic operation per step | |
| `Meter` | `Mark`, the arbiter's tick, `Stop`, a log line of a meter | extends `Ewma` |
| `Registry` | the registry and the meter arbiter | |
| `Prefixed` | `PrefixedRegistry`, chains of views | extends `Registry` |
| `ExpDecay` | `ExpDecaySample` and its heap | |
| `Reporting` | `UniformSample`, its summaries, the log routine, `CloseClient`, a second `InitClient` | |
| `ConnPoolProofs` | theorems about `ConnPool`, section 5 | |
| `RpcProofs` | theorems about `Transport` and `Rpc` | extends `ConnPoolProofs` |
| `IdleTimerProofs`, `ServerProofs` | theorems about the module of the same name | |
| `RegistryProofs` | theorems about `Registry` and `Prefixed` | |
| `ReportingProofs` | theorems about `Reporting` and `ExpDecay` | |
| `PersistConnProofs` | theorems about `PersistConn`, and about `Socket`, the framing under it | |
| `MeterProofs` | theorems about `Ewma` and `Meter` | |
| `MC*` | instances for TLC | |

Every definition that stands for code is named in the `map` of `PROJECT.json`
with its lines.  Definitions whose comment begins with "Fault:" are not part of
any specification: each is a plausible mistake in the code, kept to show that a
property notices it.

**ConnPool.**  `pool[k]` is the Go map and its slices, oldest first.  `Get`,
`Put` and `Remove` hold the mutex throughout, so each is one action: `GetHit`,
`GetMiss`, `Put` (with its evictions and their closes), `IdleRemove`.  `Return`
is the `isClosed` test before `Put`; a connection may break between the two.
`closeWhenIdleTimeout` is three steps: `TimerFire`, `IdleRemove`, `IdleClose`.
`GetMiss` keeps the dead entries, as the code does, since the shortened list is
only stored on a hit.  The clock is `Tick`, which ages idle periods up to one
tick beyond `IdleTimeout`; older ages are not told apart by the code.  What a
round trip may do to its connection between `Get` and `Put` is any sequence of
`Return`, `Put` and `Discard`; `Break` is a close by the connection's own loops.

**Transport.**  `pc` follows the source: `loop` (the select at the top), `get`,
`dial`, `trip`, `defer`, `put`; `crashed` is the panic of line 201.  Every pool
action it takes is `ConnPool`'s, and `UsesPool` says that the composition is a
behaviour of `PoolSpec`.  A trip is one of `TripOk` and `TripError`, and whether
a failed trip reached the handler is open; `Rpc` decides it.

**Rpc.**  A call has a number, and every connection two streams: requests the
server has not read and frames the client has not.  An entry is the number of a
trip of that connection, which the code does not send: it only lets a property
say whose answer was taken.  `Ask` is `Do`, `OffTrip` and `BeginTrip` are
`Transport`'s steps, and its `TripOk` and `TripError` get their reasons:
`TripAnswered` takes *the next frame*, `TripFails` needs a deadline, a close, a
status frame or a request refused before it is written.  `ServerHandles` may
answer, run the handler and answer nothing, run it and send a status frame
because it panicked, or refuse; it may do so long after the call has ended.  `ServerCloses` loses what it had not read, and perhaps what
it had written.  `PersistConn` and `Server` look inside the two ends: what `Rpc`
assumes of a connection is `Exchange`, which `ConnsExchange` states here with no more
trips than there are calls, and which `PersistConn` is proved to keep.

**IdleTimer.**  `ConnPool` treats each pool operation and each close as atomic.
Here one connection is followed at the grain of its accesses of `idleTimer`,
with both mutexes explicit and any number of goroutines: callers, of which one at
a time has the connection and any may evict it by a `Put` of another one; timer
goroutines, one for each time the timer fires, of which an old one may still wait
for the pool's mutex when the next begins; and the connection's loops.  This is
where the lock order is checked, and that `ConnPool` is not too coarse about timers.

**PersistConn.**  A trip's number stands for its request.  `PushSend` and
`PushReceive` are the plain sends, `Await*` the cases of the select, `Defer` the
transport's deferred function.  `writeLoop` and `readLoop` are cut where they
block or where others can see the difference.  `CloseBegin`/`CloseEnd` hold
`closedMutex` from setting `closed` to closing the socket.  The server handles
frames in order and may close at any time; a frame may be cut.

**Server.**  A request is its kind (see the module's head); `serve` is `Start`,
`WaitNext`, `ReadRequest`, `Handle`, `WriteAnswer`, `KeepAlive`, `Recover`,
`Close`, `Decrement`, in which the last three are the deferred functions in
their order.  Deadlines that are configured may expire wherever they are set.
`StopKeepAlives` is the program setting `DisableKeepAlives` at any time; `late`
counts the answers a connection has written since.  The constant `Buffers` is what
the `sync.Pool` has made; it makes one when it has none, so there are as many as
connections (`BuffersAssumption`), and `Start` never waits for one in the code.

**Socket.**  Words stand for the 16-bit fields; a body's length counts words,
`MaxWord` stands for 65535.  A cut loses any suffix in flight.  `Wanted` is what
`io.ReadFull` was asked for: it takes that, or waits, or breaks.  `sent`, `words` and
`ends` are what the program does not keep: the items in order, all their words, and
where each item ends.  The properties compare the stream with them.

**Ewma.**  The floating-point rate is the sequence of the running totals of the
counts folded into it, one more for every tick that is averaged in.  That is all
that tells two interleavings apart, and its last element says how many events a
rate is made of, without a sum to be proved about.

**Meter.**  `Ewma`'s variables are one of the three averages, which go through the
same steps with other weights.  `Mark` is cut into the test of `stopped`, the
count, the average's update and `updateSnapshot`'s load and store; a tick holds
the arbiter's lock from `TickMeter` to the end of its `updateSnapshot`; `Stop`
is the compare-and-swap and the deletion under that lock.  The log routine reads
the count, the rate, and the count again, as `format` does.

**Registry.**  The registry's mutex and the arbiter's lock are explicit; lazily
made metrics, `Unregister`, `UnregisterAll` and `Stop` run against ticks.

**Prefixed.**  A view is the chain of prefixes between it and the registry.
`findPrefix` climbs from the view's side and `Get` goes down through the
underlying views, so the two can disagree; `PrefixesCompose` compares them in
every state of the registry.  `FindPrefix` and `RealName` are recursive functions on
chains, one application for each view they pass.

**ExpDecay.**  A step is one turn of a loop: `Down` and `Up` exchange an entry with
its smaller child or its parent and go on from there.  `StartUpdate` pops the
smallest entry of a full reservoir, `Push` appends the new one.  `StartRescale`
clears the heap and keeps the slice of its entries; each `Rescale` pushes one of
them back, in array order, into the array it is read from, and `Up` follows.
Random priorities are free choices of any number but zero, one of them infinite: a
random divisor may be zero, and `e^(alpha dt)` overflows.  The factor of a rescale is
any function on priorities that keeps their order; it may make different ones equal.
A factor that underflows to zero makes an infinite priority `NaN`, and the newest is
infinite then, since it comes of the same `dt`: that is `StartRescale`'s guard.  `Less`
is the comparison of floats, false of a `NaN` either way.  `DecaySpec` is this
specification; `entries`, every entry made since the last `Clear` and rescaled like
the heap's, is what the program does not keep.

**Reporting.**  Updates are numbered so that a lost or doubled one can be seen.
Random replacement is a free choice.  `Loop` is the loop over the values that
`SampleMax` and its like have in common.  `SampleSum` wraps as an `int64` does
(`Wrap`), between `Lowest` and `Highest`; the mean is its quotient by the size.
The module lets a second client be initialised while the first log routine
runs: the routine keeps the registry and the channel it was started with.
`SortInPlace` may leave the values in any sorted order, since Go's `sort.Sort` is
not stable.

## 3. Runs

| run | question | instance |
|---|---|---|
| `pool` | can any interleaving share, lose or forget a connection, or misorder a list? does the pool implement `ConnLease`? | 2 callers, 3 connections, 1 address, capacity 2, timeout 1 tick, 2 late expirations per connection; symmetry |
| `timer` | can a connection in use be expired, whatever the order of the accesses of its timer? can the two mutexes deadlock? | one connection, 2 callers, 2 timer goroutines, 2 loops |
| `timer_guard` | *violation*: `idleTimer` is not guarded by the pool's mutex | same |
| `rpc` | does every answer reach its call, across timeouts, retries and reuse? at most two handler runs, stale connections hidden, every connection an `Exchange`; does every call return? | 2 callers, 2 calls, 3 connections dialed in one order, capacity 1, timeout 1 tick |
| `expired_call` | *violation*: a call whose context is done at once panics | 1 call |
| `persist` | answers reach their callers; idle connections are clean; sends never block; `Exchange` is implemented; trips end; a close stops the loops | 3 trips on one connection |
| `server` | are requests answered once, in order? are the counter and the buffers right across connections? how many answers follow `DisableKeepAlives`? can a goroutine whose client has gone be stuck? | 2 connections, one with 2 requests of any kind, 2 buffers (symmetric), all timeouts |
| `socket` | are frames whole and both ends aligned? is what was flushed readable? | 2 items, bodies up to one past the limit of 2 words |
| `meter` | are events conserved and rates right between marks and ticks? is a rate ever ahead of the count beside it? is a stop final? | 1 arbiter, 2 markers, 2 stoppers, 3 events, 2 ticks; symmetry |
| `registry` | one metric per name; no meter left behind; do prefixes compose? does every call return? | 2 goroutines, 1 name, 2 meters and a value of no metric type; five chains of two views with prefixes of at most one letter |
| `exp_decay` | is the heap a heap, and does it keep the right entries? | reservoir of 4, 5 priorities (zero and infinity among them) and `NaN`, 6 updates, 2 rescaling factors, one of them zero |
| `reporting` | which updates may a report lose? are the summaries right? does closing end the routine? | reservoir of 3, 4 updates of values of both signs, quartiles; integers wrap beyond -16 and 15, floats are exact up to 12 |

The type invariants are theorems, `TypeCorrect` for `ConnPool`, `PersistConn`,
`Server`, `Registry` and `Ewma`, and `CallTypeCorrect`; in the other modules they
are a part of a property a run checks (`OnlyIdleExpires`, `FramesIntact`,
`HeapOrdered` and `OnlyLateUpdatesAreLost` contain their module's) and proved with it.
`OneFirstTick`, `UsesPool`, `CallTypeOK` and `NearerTheEnd` are proved and in no run.

Why the bounds are enough. *Pool:* a list of two is the smallest with an oldest and
a youngest entry; three connections overflow it while one is leased; two late
expirations of one connection let a stale timer goroutine meet a second idle period.
*Timer:* two timer goroutines are a stale one and that of the new idle period; two
callers are one that has the connection and one that evicts it. *Rpc:*
`maxRetryCount` is the code's 1. Two calls need a stale connection and its
replacement; the third connection is for a retry that ought not to happen. Connections
not dialed yet differ in nothing but their names, so the run lets them be dialed in
one order only (`DialsInOrder`): symmetry, as in `pool`, is not sound for liveness. The
callers are two, so that a late answer of one call can meet the other's trip on the
same connection, and so that the pool's one place is contended; one call is enough
to disturb the other. *PersistConn:* a leftover of trip 1 can disturb trip 2, and
trip 3 shows a disturbance that skips one. *Server:* a second request follows each
kind of first one, answered or passed over; the second connection needs no request
to share the buffers and the counter. Two buffers are one for each.
`AnsweredInOrder` takes no more than two requests to go wrong, since `serve` keeps
nothing from one request to the next but its buffers. *Socket:* a limit of two words
makes one-too-long bodies, and makes the magic number occur inside bodies.
*ExpDecay:* a reservoir of four has a node with two children and one with one, and
six updates evict twice; two updates after a rescaling that made a `NaN` are enough to
put numbers out of order, which is what `Numbers` in the properties is for.
*Reporting:* two or three of the values -4, 3 and 9 make sums that are no integer of
the instance, sums that are but no exact float, and sums that are both; two updates
of 9 have the mean -7. *Meter:* two marks overtake each other's `updateSnapshot`;
two ticks average; two stops race. *Registry:* two goroutines meet at one name in
every pair of calls, a third metric is of no known type; two prefixes are the fewest
that can be put in the wrong order. *Counters* (`MaxCalls`, `MaxEvents`, `MaxTicks`,
`MaxTrips`, `MaxRequests`, `MaxFrames`, `MaxUpdates`) are bounds in guards;
`MaxDelay` bounds the back-off after which `Accept` fails again (1000 ms, so that
`Backoff` starts, doubles and reaches its cap of a second).

`CHECK_DEADLOCK FALSE` is set where a bounded counter, an ended goroutine or a
crash lets the system stop: everywhere but in `pool`, `registry`, `exp_decay` and
`expired_call`.

Fairness.  Weak fairness of a goroutine's next step is the Go scheduler.  Strong
fairness is assumed in three modules: for waiting on a Go mutex, which since Go
1.9 hands itself to a waiter that has starved for a millisecond (`Registry`, and
`IdleTimer`, where each goroutine's next step is strongly fair, which says more than
weak fairness only where it waits for a mutex); and for the log routine's `select`,
which chooses at random among ready cases, so it cannot take the ticker for ever
(`Reporting`).  In
`PersistConn` the context of every trip is eventually done: `Config.GetTimeout`
never returns zero, so a client made by `NewClient` always sets a deadline; in
`Rpc` for the same reason every call's context is.  There the caller's steps are
weakly fair (`Proceed`), and the deadline is what makes a trip return, as
`PersistConn`'s `TripReturns` shows of a single connection.  Nothing is assumed
of the server or the network.

## 4. Disagreements found

- **`expired_call`.**  If the context is done before the first attempt (a very
  short timeout suffices), `roundTrip` returns without having set `err` or
  `conn`; the deferred function takes the "no error" branch and evaluates
  `conn.closed` of nil (`client/transport.go:201`).  `client/client.go:87`
  expects an error.
- **`timer_guard`.**  `client/persistconn.go:30` says that `idleAt`, `idleTimer`
  and `reused` are guarded by the pool's mutex; `closeLocked` (line 235) reads
  `idleTimer` and stops it under `closedMutex` only.  `IdleTimer` lets the field
  be read twice there, so `Get` may clear it between the test and the `Stop`
  (`crashed`).  The `timer` run shows that the race cannot expire a
  connection in use or block anyone.

Not errors, but worth knowing, and shown by how properties had to be stated:
`MayRetry`'s test of `retryCount` never decides anything (`AtMostTwoTrips` holds
because a retry always dials); the `gone` channel is redundant, as the code's own
todo suspects (`SendsNeverBlock`); a reader that has unread bytes and no
notification outlives its connection (`CloseStopsLoops`); an answer longer than
65535 bytes is never sent and the client waits for its deadline
(`AnsweredInOrder`'s exception); updates between a histogram's snapshot and its
clear are reported by nobody (`OnlyLateUpdatesAreLost`); a full decaying
reservoir keeps the largest `reservoirSize - 1`, not `reservoirSize`
(`LargestSurvive`); `Tick` makes `init` visible before the first rate is
stored, although `statistics/metrics/ewma.go:102` calls the two transactional,
which takes a second ticker to notice (`ArbiterTicksCount` is stated for one).

Two more are about numbers the metrics do not expect.  Each is an exception in a
property, `Numbers` and `SumIsExact`, and has no run of its own.

- A rescaling can make priorities `NaN`.  Line 169 of `statistics/metrics/sample.go`
  computes `e^(alpha dt)` over a random number and line 179 multiplies by
  `e^(-alpha dt)` with the same `dt`; beyond `alpha dt` of about 745 the first is
  infinite and the second zero.  With `alpha` 0.99, as in the tests, that is every
  rescaling, an hour after the last; with 0.015 it takes 14 hours without an update.
  Nothing compares with a `NaN`: as a right child it stops `down` from looking at
  the left one, so that even two numbers end up out of order, although the type's
  comment calls it a min-heap (line 541), and what is evicted need not be the
  smallest.  No entry is lost or doubled by it: that part of `HeapOrdered` is
  unconditional.
- Sums wrap.  `SampleSum` adds in `int64`, and `SampleMean` and `SampleVariance` use
  its result: the mean of two `math.MaxInt64` is -1, and the deviation of these
  equal values is not zero.  The extremes are right of any values; the sum is if
  the exact one is an `int64`, even if it wrapped on its way; and floats add an error
  of their own to the others, of which nothing is claimed unless the size times
  every value is at most 2^53.  The histograms here hold milliseconds.

## 5. Proofs

Checked by TLAPS for all values of the constants that satisfy the named
assumptions.

**ConnPoolProofs** (assumes `PoolAssumption`: each connection has an address in
`Keys`, nil is no connection and no caller, the timeout is positive).

- `TypeCorrect`: `PoolSpec => []TypeOK`.  `TypeOK` is inductive.
- `PoolIsExclusive`: `PoolSpec => []Exclusive`.  `Exclusive` with `TypeOK` is
  inductive, one lemma per action.  The heart is `IdleRemove`: a connection moves
  from the pool to the timer's hands in one step, and that no entry occurs twice
  makes "the first match" all of them.
- `NoConnectionLeaks`: `PoolSpec => []NoLeak`.  Inductive with `TypeOK` alone:
  whatever leaves a list or a round trip is closed or handed on in the same
  step.

Three lemmas, `GetEffect`, `PutEffect` and `RemoveEffect`, turn what the operations
do to lists into which connections are pooled afterwards.  On them rest

- `IdleConnectionsAreTimed` (`IdleIsTimed`): inductive with `Exclusive`, since a
  connection that is put in is nowhere else;
- `ListsAreOrdered` (`OldestFirst`): ages only grow together, and what enters has
  age 0 and goes last;
- `PoolIsLease`: every step of the pool is a step of `ConnLease`, or hidden, for
  the owners computed from `lease`.  `OwnerIsLeaser` replaces the refinement
  mapping's `CHOOSE`, which `Exclusive` makes unambiguous.

**RpcProofs** (adds `RetryAssumption`, and for `Rpc` `CallsAssumption`).  First the retry loop, `Transport`:

- `CallsUsePool`: every step of the retry loop is a pool step or leaves the pool
  unchanged, so
- `CallsAreExclusive` carries the pool's invariants over by refinement.
- `CallTypeCorrect`, `CallsMakeTwoTrips`, `StaleConnectionsAreRetried` follow from
  the inductive invariant `CallInv`: `CallTypeOK`, the pool's `TypeOK` and `Exclusive`,
  and `Accounting(u)`, which ties `handled`, `retryCount` and the connection of a
  call together.  `AtMostTwoTrips` alone is not inductive: one must know that a
  call with `retryCount = 1` holds a connection that is not `reused`, that nobody
  else can make it so (`Exclusive`), and that `handled` is at most the number of
  trips ended.  The bound does not depend on `maxRetryCount`.

Then the calls from end to end, `Rpc`:

- `CallsAreTransports`: every step of `Rpc` is a step of `Transport` or leaves its
  variables alone, so `RetriesEndToEnd` and `CallInv` are carried over.
- `CallsAreRemoteCalls` (`ImplementsRemoteCall`): `RpcSpec` implements `RemoteCall`.  A
  success is backed by a run of the handler for that very call, and no call's
  handler runs a third time, for any number of callers, calls and connections.
- `ConnectionsExchange` (`ConnsExchange`): each connection implements `Exchange`, the
  specification that `ConnectionIsExchange` proves of `PersistConn`.

Both refinements need `RpcInv` next to `CallInv`.  `StreamsOK(c)`: whatever is in
either direction of a connection belongs to its last trip, at most one thing in
all, and once the trip is over nothing is left on a connection that can be used
again.  `TripOK(u)`: the last trip of the connection a caller is on is its own
call's.  Together they make *the next frame* the right one (`FrameIsTheAnswer`), though no
frame carries a number.  The limit of two runs is a count: `CallOK(u)` bounds the
set of connections a call has been on by its retries, `RunsOK(n)` keeps that set at
two after the call has ended and bounds the runs by those of its connections on
which the server has read the request.  A request the server is about to read is
on a connection it has not read it on (`OneRunLeft`), so there is room for one more
run, however long after the caller has gone.

**IdleTimerProofs** (assumes `ProcsAssumption`: callers, timer goroutines and loops
are different goroutines; there may be any number of each).  `MutexesExclude`, the
type invariant with who is in which critical section, and `HeldNeverExpires`
(`OnlyIdleExpires`).  `OnlyIdleExpires` speaks of a connection while it is in use, and
is silent about the moments inside `Get` and `Put`, so it is not inductive.  `IInv` adds
that a mutex is held from its lock to its unlock (`MutexInv`), and that a connection is
in the list, or one caller's, or neither, and only in the third case a timer's goroutine
is closing it (`OwnerInv`).  That both reads of `idleTimer` outside the pool's mutex are
harmless to this property is part of the result: `IInv` says nothing of them.

**PersistConnProofs** (assumes `TripsAssumption`).  `TypeCorrect`, `ResponsesMatch`
(`NoCrossTalk`), `IdleIsClean` (`Quiescent`), `ChannelsNeverFull`
(`SendsNeverBlock`) and `ConnectionIsExchange`, the refinement of `Exchange`, for
any number of trips.  All follow from one inductive invariant, `IInv`: the one
request under way is in at most one of `sendCh`, the two directions of the stream
and the reader's buffer (`OnlyLast`), and the places where caller and reader are
say what these can hold (`CallerInv`, `ReaderInv`, `ReplyInv`, `HandledInv`).  It is
needed because nothing on the wire says which trip a frame belongs to: that the
frame `readLoop` reads is the right one follows only from the stream having been
empty when the trip began.  One lemma per action, one step per conjunct.

The module's last part is the framing (`Socket`, assumes `SocketAssumption`):
`FramesArriveWhole` (`FramesIntact`), `EndsStayAligned` (`Aligned`) and
`NoFrameIsHeldBack` (`FlushedIsReadable`), for any `MaxWord`, any codes and bodies, the
magic number among their words too, and any number of items.  `FramesIntact`
only looks back at what was returned; `FramingInv` adds what lies ahead.  `ItemsInv`:
each item stands in `words` between the ends of its predecessor and its own
(`Placed`), with its true length in its header, which is where the refusal of too
long bodies is needed.  `StreamInv`: the stream, and after it `bufWriter`, is a piece
of `words` that begins where the reader is, and ends with `words` unless
something was lost.  `ReadingInv`: a reader waiting for a body has the header of the
item it is in.  `WriterInv`: a writer that failed is not used again.  There is no
induction over the items: positions are compared through `ends`, word by word, and
`Joined` and `Divided` say where a word is after a concatenation or a cut.

**ServerProofs** (assumes `ServerAssumption` and `BuffersAssumption`).

- `TypeCorrect`, with `BufInv`: `serve` holds a buffer from its start to `Close`.
- `CounterIsExact` (`AliveIsExact`): the counter is the number of connections
  between `Accept` and the end of the last deferred function.
- `BuffersStayPrivate` (`BuffersArePrivate`): no action but `Start` and `Close` moves
  a buffer.
- `OneAnswerIsLast` (`OneMoreAnswer`): a late answer is possible only when
  keep-alives are off (`LateInv`), and `KeepAlive` then closes.
- `AnswersInOrder` (`AnsweredInOrder`): `OrderInv` adds to the order that answers
  are for settled requests, that a request chosen to stay silent may, and that
  what is settled has its answer.
- `GoneClientsWaitForNothing` and `GoneClientsComeToAnEnd`: the argument for
  `GoneClientsEnd`.  The first is that `Ready(c)`, the guard without `ENABLED`, holds
  wherever a goroutine is whose client has gone.  A goroutine about to `Start` finds a
  buffer: it has none itself (`Unbuffered`), the others have at most one each and
  none twice, so they cannot have all (`BufferLeft`, a pigeonhole).  One that is
  reading has what it waits for, since `OrderInv` bounds what it has taken by what was
  sent.  The second is that each of its steps makes `StepsLeft(c)` smaller, a natural number
  made of the requests left and the place it is at, and no step of anyone else
  makes it larger.  Together they end every such goroutine that the scheduler runs.

**RegistryProofs** (assumes `RegistryAssumption`).  `TypeCorrect`, `OneMetric`
(`OneMetricPerName`) and `NoOrphans` (`NoMeterIsOrphaned`).  `Shape(p)` says what
each place of a call has found out and relies on, `Locked` that just these places
hold the mutex; `OthersKeepShape` is why one goroutine cannot disturb another.

The module's last part is about the views (`Prefixed`, assumes `PrefixedAssumption`:
names and prefixes are sequences of letters): `ViewsSeeWhatTheyName` (`PrefixesCompose`),
for chains of any length.  `findPrefix` and a name on its way down the views are the
same recursive function of a chain with other beginnings.  `BuiltExists` is that a
function satisfies its equation; `RealNameIsPrefixed` that what `Get` asks the registry
for is the view's prefix and then the name; `PrefixAndRest` that the names which begin
with the prefix, which `Each` looks for, are just those with such a rest; and
`LocalsAreAll` that the property looks at every name by which a view finds anything.

**MeterProofs** (assumes `EwmaAssumption` and `MeterAssumption`).  First the moving
average, `Ewma`:

- `TypeCorrect`, `NoEventIsLost` (`EventsConserved`) and `FirstTickIsUnique` follow from
  `Inv`, which adds to them that a tick past the test of `init` has `init` set
  (`InvInit`) and that a tick about to store `init` holds the mutex and finds it
  unset (`InvFirst`).
- `OneTickerCountsAll` (`ArbiterTicksCount`).  The property speaks of a ticker at
  rest; `RateOf(t)` follows the tick through its steps: what has been fetched and
  not stored is what the rate lacks, and what was loaded is still the rate.

Then the meter:

- `MeterUsesEwma`: every step of a meter is a step of `Ewma` or hidden, so
  `NoMarkIsLost` and `MeterCountsAll` carry the two properties over.
- `StoppedForGood` (`StopIsFinal`), for one arbiter: while it is inside the meter it
  holds its lock, and `Stop` deletes the meter only when nobody does (`StopInv`).
- `ShownIsCounted` (`RatesAreCounted`), for one arbiter.  `CountInv`: the count is
  ahead of the average by the events of the marks that are between their two
  additions.  The sum over the marks is the cardinality of a set of places
  (`OnTheWay`), so that the library's theorems on finite sets do the counting.
  `CopyInv`: every copy of the rate, in a goroutine, in `shown` or in a log line, is a
  beginning of the rate, and totals never fall; so a copy has no more events than
  the rate has now, and no more than a count read later.  This is where it matters
  that `format` reads the count last, and why `updateSnapshot`s may overtake
  each other.

**ReportingProofs** (assumes `ReportingAssumption`).  `NothingReportedTwice`
(`ReportedOnce`) and `OnlyLateAreLost` (`OnlyLateUpdatesAreLost`, with `TypeOK`).
`ReportedOnce` is not inductive: a report moves the snapshot's updates to `reported`,
and nothing in it says that these are no longer in the reservoir.  `RoutineInv` does:
between `Snapshot` and `Clear` the reservoir has only updates that are copied or late,
and after `Clear` none that is copied.  The lemmas `IdsOfEmpty`, `IdsOfAppend`,
`IdsOfReplace` and `IdsOfSorted` say which updates a reservoir has after each change;
the last is why a sort, in whatever order it leaves equal values, loses none.

The second part is the heap (`ExpDecay`, assumes `DecayAssumption`: of the priorities
that are numbers one is the greatest, rescaling keeps the order of those it leaves
numbers, and makes no other than the greatest a `NaN`): `HeapStaysOrdered`
(`HeapOrdered`) and `LargestEntriesSurvive` (`LargestSurvive`), for any capacity,
priorities and factors.

- The invariant is in two halves.  `TInv`, types and genuineness, is kept by every step.
  `OrderInv` and `SurviveInv` are kept by steps after which all priorities are numbers
  (`Numbers`); such a step starts from numbers too, for a `NaN` stays one until the
  `Clear` that empties the heap (`NumbersBefore`).
- `OrderInv`: between the turns of `down` and `up` every entry but the one being moved
  is at least its parent, and the children of that one are at least its parent, which
  is what a further exchange needs.  During a rescaling this holds of the part that
  has been pushed back.
- `RootIsLeast`: in an ordered heap no entry is below the root.  Among the places whose
  entry is below it, a first one has a parent that is one too.
- `SurviveInv`: no more than one entry of the heap is below an entry that was given up,
  and at the moment before a `Push`, none.  What `Pop` gives up is the root, so it
  was below all others; that a new entry may be the one exception is why the
  reservoir keeps its largest `reservoirSize - 1`.

The third part is the summaries: `SummariesAreRight` (`SummaryIsRight`), for reservoirs of
any size, any values, and any bounds of what an integer holds and a float is exact on.

- The loops of `SampleMax`, `SampleMin`, `SampleSum` and `SampleVariance` are the function
  `Loop`.  `Turns` says which functions follow a loop turn by turn; that one exists,
  and that there is only one, is shown for every number of turns, and `MaxRun` to
  `VarianceRun` are the loops' values after each.
- `SumFits`: after every turn the wrapped sum differs from the exact one by a multiple of
  2^64, and two integers between `Lowest` and `Highest` that do are equal
  (`NoMultiple`).  The exact sum lies between the size times the extremes, so
  the sum of a sample that fits a float is an `int64` (`FloatFits`).
- A percentile sorts a copy.  `CanBeSorted` is that some order sorts the values: for one
  more value, the greatest is exchanged with the last and the others are sorted.
  So `CHOOSE` chooses an order that does (`SortedIsSorted`), and no property of it but
  that is used.
- `ScoreHasRank`: a percentile lies between the two values around its place, with the
  share of the values asked for on either side.  `ScoreGrows`: of two percentiles the
  higher one is not smaller.  Both compare products of unknowns, for which
  `ProductGrows`, `ProductTells` and `Squares` are stated apart.

Statements about every number of turns, views or values are proved without the
library's induction theorems, whose operator parameter no installed prover can
instantiate: `AllNumbers` and `LeastNumber` speak of sets of numbers, and follow from
`<` being well-founded (`NatLessThanWellFounded`, `WFMin`).

Only model-checked, and why:

- liveness: `CallReturns`, `TripReturns`, `CloseStopsLoops`, `EverybodyReturns`,
  `EveryCallReturns`, `CloseEndsRoutine`.  Fairness is beyond the prover;
- the `ENABLED` of `GoneClientsEnd`: that a goroutine whose guard holds can step.
  That the guard holds, and that the steps come to an end, are the two theorems named
  above.

## 6. Not modelled

- Generated protobuf code, error values, logging text, addresses and constants.
- `DialTest`, `SendTest`: copies of `getConn` and `send` for tests.
- Counters and gauges: single atomic operations.
- Float arithmetic of rates and of standard deviations (the square root), and the
  rounding of means, variances and percentiles: `Reporting` claims of them only what
  holds where the floats of values and sums are exact.  Sums are `int64`s there, and
  `ExpDecay` keeps of its floats the order, infinity, zero and `NaN`.
- The global functions of `statistics/metrics`: each is an operation of a registry
  applied to `DefaultRegistry`.
- Concurrent `NewClient`s, which race on the globals of `statistics/client.go`: any
  outcome is possible, and nothing in the code relies on one.
- A foreign peer whose bytes are not whole headers: `ReadSocket` does not
  promise anything about it.
- `statistics/server.go`: the same code as `statistics/client.go`, with other names.

## 7. Plan

Done: every component with state of its own, the composition of the client from
`Do` to the server's answers, and the proofs of section 5: of the properties the
runs check, all that are not listed there as only model-checked are theorems.

What could come next:

1. A refinement of `Socket` into an abstract channel of frames, and `PersistConn`'s
   and `Server`'s streams as instances of that channel.
2. A composition of `Server` with the server's end of `Exchange`, as `Rpc` composes
   the client's.
