------------------------------ MODULE Reporting ------------------------------
(***************************************************************************)
(* How the statistics of a client or server reach the log: goroutines      *)
(* Update a histogram over a UniformSample (metrics/sample.go), and the    *)
(* goroutine started by LogRoutine (metrics/log.go) counts, snapshots and  *)
(* clears it at every tick of its ticker until CloseClient or CloseServer  *)
(* (statistics/client.go, server.go) closes its channel.                   *)
(*                                                                         *)
(* Each method of the sample holds its mutex and is one step; the three    *)
(* calls of format are three steps, and updates come between them.  An     *)
(* update is [id, v]: its number and its value.                            *)
(***************************************************************************)
EXTENDS Integers, Sequences, FiniteSets, Functions

CONSTANTS
  reservoirSize,  \* the sample's capacity
  Values,         \* values of updates
  MaxUpdates,     \* bound: updates
  Den,            \* percentiles are the multiples of 1/Den
  Highest,        \* math.MaxInt64
  MaxExact        \* up to which a float64 is exact: 2^53

\* math.MinInt64.
Lowest == -Highest - 1

ASSUME ReportingAssumption ==
  /\ reservoirSize \in Nat \ {0}
  /\ Highest \in Nat /\ Values \subseteq Lowest .. Highest /\ MaxExact \in 0 .. Highest
  /\ MaxUpdates \in Nat /\ Den \in Nat \ {0}

VARIABLES
  values, count,  \* the UniformSample
  updates,        \* updates made so far
  rpc,            \* where the LogRoutine goroutine is
  ticked,         \* its ticker's channel holds a tick
  closeChan,      \* its close channel is closed
  current,        \* the package's variables still name its channel and registry
  registered,     \* the histogram is in the registry
  snapshot,       \* the histogram snapshot it formats: the entries, in order
  reported,       \* numbers of the updates that are in an earlier report
  evicted,        \* numbers of the updates that were replaced in the sample
  late            \* updates made between its Snapshot and its Clear

sampleVars == <<values, count>>
routineVars == <<rpc, ticked, closeChan, current, registered, snapshot>>
ghosts == <<reported, evicted, late>>
vars == <<sampleVars, updates, routineVars, ghosts>>

Ids(s) == {s[i].id : i \in DOMAIN s}

\* What sort.Sort may do to a sample: it is not stable, so equal values end up
\* in any order.
Orders(s) == {order \in Bijection(DOMAIN s, DOMAIN s) :
                \A i, j \in DOMAIN s : i <= j => s[order[i]].v <= s[order[j]].v}

Init ==
  /\ values = <<>> /\ count = 0 /\ updates = 0
  /\ rpc = "select" /\ ticked = FALSE /\ closeChan = FALSE /\ snapshot = <<>>
  /\ current = TRUE /\ registered = TRUE
  /\ reported = {} /\ evicted = {} /\ late = {}

\* Where rand.Int63n(count) may put the n-th update; past the end is nowhere.
Places(n) == 1 .. n

\* UniformSample.Update.
Update(v) ==
  LET entry == [id |-> updates + 1, v |-> v]
  IN /\ updates < MaxUpdates /\ updates' = updates + 1
     /\ count' = count + 1
     /\ \/ /\ Len(values) < reservoirSize
           /\ values' = Append(values, entry) /\ UNCHANGED evicted
        \/ /\ Len(values) >= reservoirSize
           /\ \E r \in Places(count + 1) :
                IF r <= Len(values)
                  THEN /\ values' = [values EXCEPT ![r] = entry]
                       /\ evicted' = evicted \cup {values[r].id}
                  ELSE UNCHANGED values /\ evicted' = evicted \cup {entry.id}
     /\ late' = IF rpc = "clear" THEN late \cup {entry.id} ELSE late
     /\ UNCHANGED <<routineVars, reported>>

-----------------------------------------------------------------------------
(* LogRoutine.                                                             *)

TickerFires ==
  /\ ~ticked /\ ticked' = TRUE
  /\ UNCHANGED <<sampleVars, updates, rpc, closeChan, current, registered, snapshot, ghosts>>

\* A second NewClient replaces the channel and the registry: CloseClient no
\* longer reaches this routine, which goes on with its own.
NewClientAgain ==
  /\ current /\ current' = FALSE
  /\ UNCHANGED <<sampleVars, updates, rpc, ticked, closeChan, registered, snapshot, ghosts>>

\* CloseClient, which nobody may call twice: the second close panics.  It
\* closes the channel and then empties the registry, whichever that is by now.
CloseStatistics ==
  /\ current /\ ~closeChan /\ closeChan' = TRUE
  /\ UNCHANGED <<sampleVars, updates, rpc, ticked, current, registered, snapshot, ghosts>>

UnregisterAll ==
  /\ current /\ closeChan /\ registered /\ registered' = FALSE
  /\ UNCHANGED <<sampleVars, updates, rpc, ticked, closeChan, current, snapshot, ghosts>>

\* Somebody asks the live histogram for percentiles: its values are sorted
\* where they are.
SortInPlace ==
  /\ \E order \in Orders(values) : values' = [i \in DOMAIN values |-> values[order[i]]]
  /\ UNCHANGED <<count, updates, routineVars, ghosts>>

\* Fault: the routine looks at its close channel only when no tick is waiting.
SelectCloseLast ==
  /\ rpc = "select" /\ closeChan /\ ~ticked
  /\ rpc' = "ended"
  /\ UNCHANGED <<sampleVars, updates, ticked, closeChan, current, registered, snapshot, ghosts>>

SelectClose ==
  /\ rpc = "select" /\ closeChan
  /\ rpc' = "ended"
  /\ UNCHANGED <<sampleVars, updates, ticked, closeChan, current, registered, snapshot, ghosts>>

\* Each copies the registry and visits the copy.
SelectTick ==
  /\ rpc = "select" /\ ticked
  /\ rpc' = (IF registered THEN "count" ELSE "select") /\ ticked' = FALSE
  /\ UNCHANGED <<sampleVars, updates, closeChan, current, registered, snapshot, ghosts>>

\* format skips a histogram without samples.
CountSamples ==
  /\ rpc = "count"
  /\ rpc' = IF count = 0 THEN "select" ELSE "snapshot"
  /\ UNCHANGED <<sampleVars, updates, ticked, closeChan, current, registered, snapshot, ghosts>>

\* Fault: the histogram is cleared before the snapshot is taken.
ClearThenSnapshot ==
  /\ rpc = "snapshot" /\ rpc' = "clear"
  /\ values' = <<>> /\ count' = 0 /\ snapshot' = <<>>
  /\ UNCHANGED <<updates, ticked, closeChan, current, registered, ghosts>>

TakeSnapshot ==
  /\ rpc = "snapshot" /\ rpc' = "clear"
  /\ snapshot' = values
  /\ UNCHANGED <<sampleVars, updates, ticked, closeChan, current, registered, ghosts>>

\* Fault: the histogram is not cleared.
ClearNothing ==
  /\ rpc = "clear" /\ rpc' = "print"
  /\ UNCHANGED <<sampleVars, updates, ticked, closeChan, current, registered, snapshot, ghosts>>

\* "Clear it": the updates made since the snapshot go too.
ClearHistogram ==
  /\ rpc = "clear" /\ rpc' = "print"
  /\ values' = <<>> /\ count' = 0
  /\ UNCHANGED <<updates, ticked, closeChan, current, registered, snapshot, ghosts>>

\* The snapshot is formatted and logged.
Report ==
  /\ rpc = "print" /\ rpc' = "select"
  /\ reported' = reported \cup Ids(snapshot)
  /\ snapshot' = <<>>
  /\ UNCHANGED <<sampleVars, updates, ticked, closeChan, current, registered,
                 evicted, late>>

Routine ==
  SelectClose \/ SelectTick \/ CountSamples \/ TakeSnapshot \/ ClearHistogram \/ Report

Next ==
  \/ \E v \in Values : Update(v)
  \/ SortInPlace
  \/ TickerFires \/ NewClientAgain \/ CloseStatistics \/ UnregisterAll \/ Routine

Spec == Init /\ [][Next]_vars

\* The goroutine runs, and a select does not ignore a ready case for ever: Go
\* picks one of the ready cases at random.
FairSpec == Spec /\ WF_vars(Routine) /\ SF_vars(SelectClose)

-----------------------------------------------------------------------------
(* SamplePercentiles, in units of 1/Den: p / Den is the percentile.  Its   *)
(* products and differences are taken without rounding.                    *)

Sorted(s) == LET order == CHOOSE order \in Orders(s) : TRUE
             IN [i \in DOMAIN s |-> s[order[i]].v]

Position(size, p) == p * (size + 1)

Percentile(s, p) ==
  LET size == Len(s)
      pos == Position(size, p)
      floor == pos \div Den
  IN IF size = 0 THEN 0
     ELSE IF pos < Den THEN Den * s[1]
     ELSE IF pos >= Den * size THEN Den * s[size]
     ELSE Den * s[floor] + (pos % Den) * (s[floor + 1] - s[floor])

\* A loop over the values, in the order they have.
Loop(s, start, Step(_, _)) ==
  LET result[i \in 0 .. Len(s)] == IF i = 0 THEN start ELSE Step(result[i - 1], s[i].v)
  IN result[Len(s)]

\* Fault: the maximum starts at zero.
SampleMaxFromZero(s) == Loop(s, 0, LAMBDA max, v : IF max < v THEN v ELSE max)

SampleMax(s) ==
  IF s = <<>> THEN 0 ELSE Loop(s, Lowest, LAMBDA max, v : IF max < v THEN v ELSE max)

SampleMin(s) ==
  IF s = <<>> THEN 0 ELSE Loop(s, Highest, LAMBDA min, v : IF min > v THEN v ELSE min)

\* What an int64 makes of a number.
Wrap(x) == Lowest + ((x - Lowest) % (Highest - Lowest + 1))

SampleSum(s) == Loop(s, 0, LAMBDA sum, v : Wrap(sum + v))

\* The mean is SampleSum(s) / Len(s), 0 of no values; the variance, in units of
\* 1/Len(s)^3, is the sum of the squared distances from it.  Their floats are
\* taken without rounding, which is only right of samples that fit (FitsFloat).
SampleVariance(s) ==
  LET d(v) == Len(s) * v - SampleSum(s)
  IN IF s = <<>> THEN 0 ELSE Loop(s, 0, LAMBDA sum, v : sum + d(v) * d(v))
-----------------------------------------------------------------------------
\* The reservoir holds every sample since the last Clear, or is full.
TypeOK ==
  /\ updates \in 0 .. MaxUpdates /\ count \in 0 .. updates
  /\ values \in Seq([id : 1 .. updates, v : Values])
  /\ Len(values) = IF count < reservoirSize THEN count ELSE reservoirSize
  /\ rpc \in {"select", "count", "snapshot", "clear", "print", "ended"}
  /\ ticked \in BOOLEAN /\ closeChan \in BOOLEAN /\ current \in BOOLEAN
  /\ registered \in BOOLEAN

\* No update is reported twice, and a report is never of an empty sample, as
\* nobody but the routine clears the histogram between its Count and Snapshot.
ReportedOnce ==
  /\ reported \cap Ids(snapshot) = {}
  /\ reported \cap Ids(values) = {}
  /\ rpc \in {"clear", "print"} => snapshot # <<>>

\* Every update is in the sample, in a report, or was replaced at random in the
\* reservoir, except those that came between a Snapshot and its Clear; the
\* reservoir replaces nothing before it is full (TypeOK).
OnlyLateUpdatesAreLost ==
  /\ TypeOK
  /\ 1 .. updates =
       Ids(values) \cup Ids(snapshot) \cup reported \cup evicted \cup late

-----------------------------------------------------------------------------
(* What the summaries of a sample s promise.                               *)

\* Of no values every summary is zero.
EmptyIsZero(s) ==
  s = <<>> => /\ {SampleMax(s), SampleMin(s), SampleSum(s), SampleVariance(s)} = {0}
              /\ \A p \in 0 .. Den : Percentile(s, p) = 0

ExtremesBound(s) ==
  LET all == {s[i].v : i \in DOMAIN s}
  IN s # <<>> => /\ {SampleMax(s), SampleMin(s)} \subseteq all
                 /\ \A v \in all : SampleMin(s) <= v /\ v <= SampleMax(s)

\* The sum of the values, which may be no int64.
ExactSum(s) == Loop(s, 0, LAMBDA sum, v : sum + v)

\* A sum that is an int64 is right, though it may have wrapped on its way: then
\* its quotient by the size lies between the extremes.
SumIsExact(s) ==
  s # <<>> /\ ExactSum(s) \in Lowest .. Highest =>
    /\ SampleSum(s) = ExactSum(s)
    /\ Len(s) * SampleMin(s) <= SampleSum(s) /\ SampleSum(s) <= Len(s) * SampleMax(s)

\* So small that the float64 of every value and of every sum is exact.  Rounding
\* what is computed from them keeps their order, and a mean that is one of the
\* values is exact.  Of larger values two may have one float, and the mean of
\* equal ones another.
FitsFloat(s) == \A i \in DOMAIN s : Len(s) * s[i].v \in -MaxExact .. MaxExact

\* A percentile is within the sample, grows with p, and has its rank: floor(p *
\* (size + 1)) of the values are at most it, and at most that many, rounded up,
\* are below it.
PercentilesHaveRank(s) ==
  s # <<>> /\ FitsFloat(s) =>
    LET t == Sorted(s)
    IN \A p \in 0 .. Den :
         LET score == Percentile(t, p)
             rank == p * (Len(t) + 1)
         IN /\ Den * t[1] <= score /\ score <= Den * t[Len(t)]
            /\ p < Den => score <= Percentile(t, p + 1)
            /\ \A i \in DOMAIN t : i * Den <= rank => Den * t[i] <= score
            /\ \A i \in DOMAIN t : i * Den >= rank => score <= Den * t[i]

\* There is no variance exactly if all values are equal.
VarianceShows(s) ==
  s # <<>> /\ FitsFloat(s) => (SampleVariance(s) = 0 <=> SampleMin(s) = SampleMax(s))

\* What is logged of a snapshot, and what anybody is told who asks the live
\* histogram, is right: the extremes always, samples that are all negative and
\* empty ones too; the sum, and so the mean, whenever the sum is an int64; the
\* percentiles and the variance as far as floats are exact (sample.go:232-392,
\* log.go:68-73).
SummaryIsRight ==
  \A s \in {values, snapshot} :
    /\ EmptyIsZero(s) /\ ExtremesBound(s) /\ SumIsExact(s)
    /\ PercentilesHaveRank(s) /\ VarianceShows(s)

\* Closing the statistics ends the routine whose channel is closed, even if
\* ticks keep coming and a new client has taken its place meanwhile.
CloseEndsRoutine == closeChan ~> (rpc = "ended")
=============================================================================
