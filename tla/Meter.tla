-------------------------------- MODULE Meter --------------------------------
(***************************************************************************)
(* StandardMeter (statistics/metrics/meter.go) around its moving averages: *)
(* goroutines that Mark it, the arbiter that ticks it, goroutines that     *)
(* Stop it, and the log routine that reads it, at the grain of the atomic  *)
(* operations.  Nothing orders a Mark against a tick: both end in          *)
(* updateSnapshot, which reads the averages and then stores what it read.  *)
(*                                                                         *)
(* a1, a5 and a15 go through the same steps with other weights; Ewma's     *)
(* variables stand for one of them.  rateMean is the count over the time.  *)
(***************************************************************************)
EXTENDS Ewma, SequencesExt

CONSTANTS
  Markers,   \* goroutines that call Mark
  Stoppers   \* goroutines that call Stop, once each

ASSUME MeterAssumption ==
  Markers \cap Tickers = {} /\ Stoppers \cap (Markers \cup Tickers) = {}

VARIABLES
  total,       \* snapshot.count
  shown,       \* snapshot.rate1
  stopped,     \* the flag Stop sets
  registered,  \* the meter is in the arbiter's map
  reading,     \* the arbiter holds its lock for reading
  step,        \* where each goroutine is in Mark, Stop or the arbiter's tick
  n,           \* Mark's argument
  read,        \* updateSnapshot's local variable
  logStep,     \* where the log routine is
  copied,      \* the snapshot it has made: a count and a rate
  line         \* the last line it printed: a count and a rate

meterVars == <<total, shown, stopped, registered, reading, step, n, read>>
logVars == <<logStep, copied, line>>
allVars == <<vars, meterVars, logVars>>

Updaters == Markers \cup Tickers

Blank == [count |-> 0, rate |-> <<>>]

MeterInit ==
  /\ Init
  /\ total = 0 /\ shown = <<>> /\ stopped = FALSE
  /\ registered = TRUE /\ reading = FALSE
  /\ step = [p \in Updaters \cup Stoppers |-> "idle"]
  /\ n = [p \in Markers |-> 0]
  /\ read = [p \in Updaters |-> <<>>]
  /\ logStep = "idle" /\ copied = Blank /\ line = Blank

Walk(p, from, to) == step[p] = from /\ step' = [step EXCEPT ![p] = to]

-----------------------------------------------------------------------------
(* Mark.                                                                   *)

\* A stopped meter ignores the mark.
MarkBegin(p) ==
  /\ ~stopped /\ Walk(p, "idle", "count")
  /\ \E k \in 1 .. MaxEvents : n' = [n EXCEPT ![p] = k]
  /\ UNCHANGED <<vars, total, shown, stopped, registered, reading, read, logVars>>

\* Bound: no more than MaxEvents events are marked.
MarkCount(p) ==
  /\ Walk(p, "count", "update")
  /\ total + n[p] <= MaxEvents /\ total' = total + n[p]
  /\ UNCHANGED <<vars, shown, stopped, registered, reading, n, read, logVars>>

MarkUpdate(p) ==
  /\ Walk(p, "update", "load") /\ Update(n[p])
  /\ n' = [n EXCEPT ![p] = 0]
  /\ UNCHANGED <<total, shown, stopped, registered, reading, read, logVars>>

\* updateSnapshot, of a Mark or of the arbiter's tick: the rates are read, and
\* then stored; the arbiter unlocks.
SnapshotLoad(p) ==
  /\ Walk(p, "load", "store")
  /\ read' = [read EXCEPT ![p] = rate]
  /\ UNCHANGED <<vars, total, shown, stopped, registered, reading, n, logVars>>

SnapshotStore(p) ==
  /\ Walk(p, "store", "idle")
  /\ shown' = read[p] /\ read' = [read EXCEPT ![p] = <<>>]
  /\ reading' = (p \notin Tickers /\ reading)
  /\ UNCHANGED <<vars, total, stopped, registered, n, logVars>>

-----------------------------------------------------------------------------
(* The arbiter: tickMeters under its lock.                                 *)

TickMeter(t) ==
  /\ registered /\ Walk(t, "idle", "tick") /\ Tick(t)
  /\ reading' = TRUE
  /\ UNCHANGED <<total, shown, stopped, registered, n, read, logVars>>

\* The steps of the EWMA's Tick.
InTick(t) ==
  /\ step[t] = "tick"
  /\ \/ Lock(t) \/ SetInit(t) \/ FetchLoad(t) \/ FetchSubtract(t) \/ LoadRate(t)
     \/ StoreRate(t)
  /\ step' = IF pc'[t] = "idle" THEN [step EXCEPT ![t] = "load"] ELSE step
  /\ UNCHANGED <<total, shown, stopped, registered, reading, n, read, logVars>>

-----------------------------------------------------------------------------
(* Stop.                                                                   *)

\* The compare-and-swap: only the first caller goes on to the arbiter.
StopSwap(p) ==
  /\ Walk(p, "idle", IF stopped THEN "returned" ELSE "delete")
  /\ stopped' = TRUE
  /\ UNCHANGED <<vars, total, shown, registered, reading, n, read, logVars>>

\* Fault: it does not wait for a tick in progress.
StopDeleteUnlocked(p) ==
  /\ Walk(p, "delete", "stopped")
  /\ registered' = FALSE
  /\ UNCHANGED <<vars, total, shown, stopped, reading, n, read, logVars>>

\* The map is changed under the arbiter's lock, which a tick holds too.
StopDelete(p) ==
  /\ ~reading
  /\ Walk(p, "delete", "stopped")
  /\ registered' = FALSE
  /\ UNCHANGED <<vars, total, shown, stopped, reading, n, read, logVars>>

-----------------------------------------------------------------------------
(* The log routine (log.go, format, the case of a Meter).                  *)

LogMeter(from, to) == logStep = from /\ logStep' = to

\* A meter without events is not logged.
LogBegin ==
  /\ total # 0 /\ LogMeter("idle", "count")
  /\ line' = Blank
  /\ UNCHANGED <<vars, meterVars, copied>>

\* Snapshot reads the count, and after it the rates.
CopyCount ==
  /\ LogMeter("count", "rate")
  /\ copied' = [copied EXCEPT !.count = total]
  /\ UNCHANGED <<vars, meterVars, line>>

CopyRate ==
  /\ LogMeter("rate", "line")
  /\ copied' = [copied EXCEPT !.rate = shown]
  /\ UNCHANGED <<vars, meterVars, line>>

\* Fault: the line shows the snapshot's own count.
LogLineOfSnapshot ==
  /\ LogMeter("line", "idle") /\ line' = copied
  /\ copied' = Blank /\ UNCHANGED <<vars, meterVars>>

\* The line shows the meter's count, read once more.
LogLine ==
  /\ LogMeter("line", "idle")
  /\ line' = [count |-> total, rate |-> copied.rate]
  /\ copied' = Blank /\ UNCHANGED <<vars, meterVars>>

-----------------------------------------------------------------------------
MeterNext ==
  \/ \E p \in Markers : MarkBegin(p) \/ MarkCount(p) \/ MarkUpdate(p)
  \/ \E p \in Updaters : SnapshotLoad(p) \/ SnapshotStore(p)
  \/ \E t \in Tickers : TickMeter(t) \/ InTick(t)
  \/ \E p \in Stoppers : StopSwap(p) \/ StopDelete(p)
  \/ LogBegin \/ CopyCount \/ CopyRate \/ LogLine

MeterSpec == MeterInit /\ [][MeterNext]_allVars
-----------------------------------------------------------------------------
\* A rate is never ahead of the count shown beside it: an event is counted
\* before the averages hear of it, and the log line reads the count again:
\* the snapshot's own count was read before its rates and may be behind them
\* (meter.go:157-168 and 191-212, log.go:74-82).  Stores of updateSnapshot may
\* overtake each other, but every rate shown is one that the average has had.
RatesAreCounted ==
  /\ Total(rate) + uncounted <= total
  /\ IsPrefix(shown, rate)
  /\ Total(line.rate) <= line.count

\* When the Stop that won has returned and the marks that were under way have
\* ended, nothing touches the meter any more: no tick is left inside it, and
\* none and no Mark will enter it (meter.go:142-160, 242-248).
StopIsFinal ==
  [][(\E p \in Stoppers : step[p] = "stopped") /\ (\A p \in Markers : step[p] = "idle")
       => UNCHANGED <<vars, total, shown, registered, reading>>]_allVars
=============================================================================
