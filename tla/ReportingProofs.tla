--------------------------- MODULE ReportingProofs ---------------------------
(***************************************************************************)
(* Proofs about Reporting, for any capacity of the reservoir, any values   *)
(* and any number of updates: the log reports no update twice, and loses   *)
(* only those that come between a Snapshot and its Clear.                  *)
(*                                                                         *)
(* Neither is inductive.  Both rest on what is in the sample while the     *)
(* routine is between its Snapshot and its Clear: the updates it has       *)
(* copied and those made since, so that Clear throws nothing else away,    *)
(* and after Clear nothing that is about to be reported (RoutineInv).      *)
(*                                                                         *)
(* The second part is about the other sample, ExpDecay, whose methods are  *)
(* taken a turn of a loop at a time: TInv says what each turn keeps        *)
(* whatever the priorities, OrderInv and SurviveInv what it keeps as long  *)
(* as all are numbers (DInv).  A priority that is none stays so until the  *)
(* next Clear (NumbersBefore), so that no step has to bring order about.   *)
(* That the heap's root is its least entry follows from the least place    *)
(* that would contradict it.                                               *)
(*                                                                         *)
(* The third is about the line that is logged.  What a loop over the       *)
(* sample has after each turn is shown turn by turn (AllNumbers), that a   *)
(* sample can be sorted by exchanging its greatest value with the last,    *)
(* the rank of a percentile from the two values it lies between, and that  *)
(* a sum is an int64 apart by a multiple of 2^64 from the exact one, hence *)
(* equal to it if that is an int64 too (SumFits).                          *)
(***************************************************************************)
EXTENDS Reporting, ExpDecay, FiniteSetTheorems, WellFoundedInduction, TLAPS

\* The entries of a sample after k updates.
Entries(k) == [id : 1 .. k, v : Values]

\* The updates that are anywhere have been made.
NumbersInv ==
  /\ snapshot \in Seq(Entries(updates))
  /\ reported \subseteq 1 .. updates /\ evicted \subseteq 1 .. updates
  /\ late \subseteq 1 .. updates

\* What the routine knows at each of its steps.
RoutineInv ==
  /\ snapshot = <<>> <=> rpc \notin {"clear", "print"}
  /\ rpc = "snapshot" => count # 0
  /\ rpc = "clear" => Ids(values) \subseteq Ids(snapshot) \cup late
  /\ rpc = "print" => Ids(values) \cap Ids(snapshot) = {}

\* Every update is somewhere.
Accounted == 1 .. updates = Ids(values) \cup Ids(snapshot) \cup reported \cup evicted \cup late

\* The inductive invariant.
IInv == TypeOK /\ NumbersInv /\ RoutineInv /\ ReportedOnce /\ Accounted

-----------------------------------------------------------------------------
(* The numbers of the entries of a sample.                                 *)

\* An empty sample has none.
LEMMA IdsOfEmpty == Ids(<<>>) = {}
BY DEF Ids

\* A list over a set is one over a larger set.
LEMMA WiderSeq ==
  ASSUME NEW S, NEW T, S \subseteq T, NEW s \in Seq(S)
  PROVE  s \in Seq(T)
OBVIOUS

\* The entries after k updates are numbered by them, and are entries after more.
LEMMA EntriesType ==
  ASSUME NEW k \in Nat
  PROVE  /\ \A e \in Entries(k) : e.id \in 1 .. k
         /\ Entries(k) \subseteq Entries(k + 1)
BY DEF Entries

\* The same of the entries of a sample.
LEMMA IdsType ==
  ASSUME NEW k \in Nat, NEW s \in Seq(Entries(k))
  PROVE  Ids(s) \subseteq 1 .. k /\ s \in Seq(Entries(k + 1))
<1>1. ASSUME NEW i \in DOMAIN s PROVE s[i] \in Entries(k)
  BY <1>1
<1> QED
  BY <1>1, EntriesType, WiderSeq DEF Ids

\* Update appends an entry and adds its number.
LEMMA IdsOfAppend ==
  ASSUME NEW S, NEW s \in Seq(S), NEW e \in S
  PROVE  Ids(Append(s, e)) = Ids(s) \cup {e.id}
<1>1. /\ DOMAIN Append(s, e) = 1 .. Len(s) + 1 /\ DOMAIN s = 1 .. Len(s) /\ Len(s) \in Nat
      /\ Append(s, e)[Len(s) + 1] = e
      /\ \A i \in 1 .. Len(s) : Append(s, e)[i] = s[i]
  OBVIOUS
<1> QED
  BY <1>1 DEF Ids

\* Update replaces an entry: its number goes and the new one comes.
LEMMA IdsOfReplace ==
  ASSUME NEW S, NEW s \in Seq(S), NEW r \in 1 .. Len(s),
         NEW t \in Seq(S), Len(t) = Len(s),
         \A i \in 1 .. Len(s) : i # r => t[i] = s[i]
  PROVE  /\ s[r].id \in Ids(s)
         /\ Ids(t) \subseteq Ids(s) \cup {t[r].id}
         /\ Ids(s) \cup {t[r].id} \subseteq Ids(t) \cup {s[r].id}
<1>1. DOMAIN s = 1 .. Len(s) /\ DOMAIN t = 1 .. Len(s)
  OBVIOUS
<1> QED
  BY <1>1 DEF Ids

\* Sorting keeps the entries.
LEMMA IdsOfSorted ==
  ASSUME NEW S, NEW s \in Seq(S), NEW order \in Bijection(DOMAIN s, DOMAIN s),
         NEW t, t = [i \in DOMAIN s |-> s[order[i]]]
  PROVE  t \in Seq(S) /\ Len(t) = Len(s) /\ Ids(t) = Ids(s)
<1>1. DOMAIN s = 1 .. Len(s) /\ Len(s) \in Nat
  OBVIOUS
<1>2. /\ \A i \in DOMAIN s : order[i] \in DOMAIN s
      /\ \A j \in DOMAIN s : \E i \in DOMAIN s : order[i] = j
  BY DEF Bijection, Injection, Surjection
<1>3. t \in [1 .. Len(s) -> S]
  BY <1>1, <1>2
<1>4. t \in Seq(S) /\ Len(t) = Len(s) /\ DOMAIN t = DOMAIN s
  BY <1>1, <1>3
<1>5. Ids(t) \subseteq Ids(s)
  BY <1>2, <1>4 DEF Ids
<1>6. Ids(s) \subseteq Ids(t)
  <2> SUFFICES ASSUME NEW j \in DOMAIN s PROVE s[j].id \in Ids(t)
      BY DEF Ids
  <2>1. PICK i \in DOMAIN s : order[i] = j
    BY <1>2
  <2>2. t[i] = s[j] /\ i \in DOMAIN t
    BY <1>4, <2>1
  <2> QED
    BY <2>2 DEF Ids
<1> QED
  BY <1>4, <1>5, <1>6

-----------------------------------------------------------------------------
(* Each step keeps the invariant.                                          *)

\* Nothing has been updated.
LEMMA InvHolds == Init => IInv
<1> SUFFICES ASSUME Init PROVE IInv
    OBVIOUS
<1>1. Ids(values) = {} /\ Ids(snapshot) = {} /\ \A S : <<>> \in Seq(S)
  BY IdsOfEmpty DEF Init
<1>2. TypeOK
  <2>1. values \in Seq([id : 1 .. updates, v : Values]) /\ Len(values) = 0
    BY <1>1 DEF Init
  <2>2. /\ updates \in 0 .. MaxUpdates /\ count \in 0 .. updates
        /\ Len(values) = IF count < reservoirSize THEN count ELSE reservoirSize
    BY <2>1, ReportingAssumption DEF Init
  <2>3. /\ rpc \in {"select", "count", "snapshot", "clear", "print", "ended"}
        /\ ticked \in BOOLEAN /\ closeChan \in BOOLEAN /\ current \in BOOLEAN
        /\ registered \in BOOLEAN
    BY DEF Init
  <2> QED
    BY <2>1, <2>2, <2>3 DEF TypeOK
<1> QED
  BY <1>1, <1>2 DEF Init, IInv, NumbersInv, Entries, RoutineInv, ReportedOnce, Accounted

\* An update has a number of its own, and is in the sample or evicted at once;
\* what it replaces is evicted.
LEMMA UpdateKeepsInv ==
  ASSUME IInv, NEW v \in Values, Update(v)
  PROVE  IInv'
<1> DEFINE entry == [id |-> updates + 1, v |-> v]
           More == Entries(updates + 1)
           Sampled ==
             /\ values' \in Seq(More)
             /\ Len(values') = IF count' < reservoirSize THEN count' ELSE reservoirSize
             /\ Ids(values') \subseteq Ids(values) \cup {updates + 1}
             /\ evicted \subseteq evicted'
             /\ evicted' \subseteq evicted \cup Ids(values) \cup {updates + 1}
             /\ Ids(values) \cup {updates + 1} \subseteq Ids(values') \cup evicted'
<1>1. /\ updates \in Nat /\ updates + 1 \in 0 .. MaxUpdates /\ updates' = updates + 1
      /\ count \in Nat /\ count' = count + 1 /\ count' \in 0 .. updates'
      /\ Len(values) = IF count < reservoirSize THEN count ELSE reservoirSize
      /\ reservoirSize \in Nat \ {0}
  BY ReportingAssumption DEF IInv, TypeOK, Update
<1>2. /\ values \in Seq(More) /\ snapshot \in Seq(More) /\ entry \in More
      /\ Ids(values) \subseteq 1 .. updates /\ Ids(snapshot) \subseteq 1 .. updates
  <2>1. values \in Seq(Entries(updates)) /\ snapshot \in Seq(Entries(updates))
    BY DEF IInv, TypeOK, NumbersInv, Entries
  <2>2. entry \in More
    BY <1>1 DEF Entries
  <2> QED
    BY <1>1, <2>1, <2>2, IdsType
<1>3. UNCHANGED <<rpc, snapshot, reported>>
  BY DEF Update, routineVars
<1>4. Sampled
  <2>1. CASE Len(values) < reservoirSize /\ values' = Append(values, entry) /\ UNCHANGED evicted
    <3>1. Ids(values') = Ids(values) \cup {updates + 1}
      BY <1>2, <2>1, IdsOfAppend
    <3>2. values' \in Seq(More) /\ Len(values') = Len(values) + 1
      BY <1>2, <2>1
    <3> QED
      BY <1>1, <2>1, <3>1, <3>2
  <2>2. ASSUME NEW r \in Places(count + 1), r <= Len(values), Len(values) >= reservoirSize,
               values' = [values EXCEPT ![r] = entry],
               evicted' = evicted \cup {values[r].id}
        PROVE  Sampled
    <3>1. r \in 1 .. Len(values)
      BY <1>1, <2>2 DEF Places
    <3>2. entry.id = updates + 1
      OBVIOUS
    <3> HIDE DEF entry, More
    <3>3. /\ values' \in Seq(More) /\ Len(values') = Len(values) /\ values'[r] = entry
          /\ \A i \in 1 .. Len(values) : i # r => values'[i] = values[i]
      BY <1>2, <2>2, <3>1
    <3>4. /\ Ids(values') \subseteq Ids(values) \cup {entry.id}
          /\ Ids(values) \cup {entry.id} \subseteq Ids(values') \cup {values[r].id}
          /\ values[r].id \in Ids(values)
      BY <1>2, <3>1, <3>3, IdsOfReplace
    <3>5. Len(values) = IF count' < reservoirSize THEN count' ELSE reservoirSize
      BY <1>1, <2>2
    <3> QED
      BY <2>2, <3>2, <3>3, <3>4, <3>5
  <2>3. CASE /\ Len(values) >= reservoirSize /\ UNCHANGED values
             /\ evicted' = evicted \cup {updates + 1}
    BY <1>1, <1>2, <2>3
  <2> QED
    BY <2>1, <2>2, <2>3 DEF Update
<1>5. 1 .. updates' = (1 .. updates) \cup {updates + 1}
  BY <1>1
<1>6. /\ updates + 1 \notin 1 .. updates /\ late \subseteq late'
      /\ late' \subseteq late \cup {updates + 1}
      /\ rpc = "clear" => updates + 1 \in late'
  BY <1>1 DEF Update
<1> HIDE DEF entry
<1>7. TypeOK'
  BY <1>1, <1>4 DEF IInv, TypeOK, Update, routineVars, Entries
<1> HIDE DEF More
<1>8. NumbersInv'
  <2>1. snapshot' \in Seq(Entries(updates'))
    BY <1>1, <1>2, <1>3 DEF More
  <2> QED
    BY <1>2, <1>3, <1>4, <1>5, <1>6, <2>1 DEF IInv, NumbersInv
<1>9. RoutineInv'
  BY <1>1, <1>2, <1>3, <1>4, <1>6 DEF IInv, RoutineInv
<1>10. ReportedOnce'
  BY <1>2, <1>3, <1>4, <1>6 DEF IInv, NumbersInv, ReportedOnce
<1>11. Accounted'
  BY <1>2, <1>3, <1>4, <1>5, <1>6 DEF IInv, NumbersInv, Accounted
<1> QED
  BY <1>7, <1>8, <1>9, <1>10, <1>11 DEF IInv

\* Sorting the live sample keeps what is in it.
LEMMA SortKeepsInv ==
  ASSUME IInv, SortInPlace
  PROVE  IInv'
<1>1. /\ values' \in Seq([id : 1 .. updates, v : Values]) /\ Len(values') = Len(values)
      /\ Ids(values') = Ids(values)
  <2>1. values \in Seq([id : 1 .. updates, v : Values])
    BY DEF IInv, TypeOK
  <2>2. PICK order \in Bijection(DOMAIN values, DOMAIN values) :
          values' = [i \in DOMAIN values |-> values[order[i]]]
    BY DEF SortInPlace, Orders
  <2> QED
    BY <2>1, <2>2, IdsOfSorted
<1>2. UNCHANGED <<count, updates, routineVars, ghosts>>
  BY DEF SortInPlace
<1>3. TypeOK'
  BY <1>1, <1>2 DEF IInv, TypeOK, routineVars
<1>4. NumbersInv' /\ RoutineInv' /\ ReportedOnce' /\ Accounted'
  BY <1>1, <1>2 DEF IInv, NumbersInv, RoutineInv, ReportedOnce, Accounted, routineVars, ghosts,
                    Entries
<1> QED
  BY <1>3, <1>4 DEF IInv

\* The steps that read no sample.
LEMMA SwitchesKeepInv ==
  ASSUME IInv, TickerFires \/ NewClientAgain \/ CloseStatistics \/ UnregisterAll \/ SelectClose
                 \/ SelectTick \/ CountSamples \/ UNCHANGED vars
  PROVE  IInv'
<1>1. UNCHANGED <<sampleVars, updates, snapshot, ghosts>>
  BY DEF TickerFires, NewClientAgain, CloseStatistics, UnregisterAll, SelectClose, SelectTick,
         CountSamples, vars, routineVars
<1>2. /\ (rpc' = rpc \/ rpc \in {"select", "count"})
      /\ rpc' \in {"select", "count", "snapshot", "clear", "print", "ended"}
      /\ rpc' \in {"clear", "print"} => rpc' = rpc
      /\ rpc' = "snapshot" => count # 0
      /\ ticked' \in BOOLEAN /\ closeChan' \in BOOLEAN /\ current' \in BOOLEAN
      /\ registered' \in BOOLEAN
  BY DEF IInv, TypeOK, RoutineInv, TickerFires, NewClientAgain, CloseStatistics, UnregisterAll,
         SelectClose, SelectTick, CountSamples, vars, routineVars
<1>3. TypeOK'
  BY <1>1, <1>2 DEF IInv, TypeOK, sampleVars
<1>4. NumbersInv' /\ Accounted'
  BY <1>1 DEF IInv, NumbersInv, Accounted, sampleVars, ghosts
<1>5. RoutineInv' /\ ReportedOnce'
  BY <1>1, <1>2 DEF IInv, RoutineInv, ReportedOnce, sampleVars, ghosts
<1> QED
  BY <1>3, <1>4, <1>5 DEF IInv

\* The snapshot holds what the sample holds, and the sample is not empty.
LEMMA SnapshotKeepsInv ==
  ASSUME IInv, TakeSnapshot
  PROVE  IInv'
<1>1. /\ rpc = "snapshot" /\ rpc' = "clear" /\ snapshot' = values /\ snapshot = <<>>
      /\ UNCHANGED <<sampleVars, updates, ticked, closeChan, current, registered, ghosts>>
  BY DEF IInv, RoutineInv, TakeSnapshot
<1>2. values # <<>>
  BY <1>1, ReportingAssumption DEF IInv, RoutineInv, TypeOK
<1>3. TypeOK'
  BY <1>1 DEF IInv, TypeOK, sampleVars
<1>4. NumbersInv' /\ RoutineInv' /\ ReportedOnce'
  BY <1>1, <1>2 DEF IInv, TypeOK, NumbersInv, RoutineInv, ReportedOnce, sampleVars, ghosts, Entries
<1>5. Accounted'
  BY <1>1, IdsOfEmpty DEF IInv, Accounted, sampleVars, ghosts
<1> QED
  BY <1>3, <1>4, <1>5 DEF IInv

\* Clear throws away what is in the snapshot, and the late updates.
LEMMA ClearKeepsInv ==
  ASSUME IInv, ClearHistogram
  PROVE  IInv'
<1>1. /\ rpc = "clear" /\ rpc' = "print" /\ values' = <<>> /\ count' = 0
      /\ UNCHANGED <<updates, ticked, closeChan, current, registered, snapshot, ghosts>>
      /\ Ids(values') = {}
  BY IdsOfEmpty DEF ClearHistogram
<1>2. TypeOK'
  <2>1. values' \in Seq([id : 1 .. updates, v : Values]) /\ Len(values') = 0
    BY <1>1
  <2> QED
    BY <1>1, <2>1, ReportingAssumption DEF IInv, TypeOK
<1>3. NumbersInv' /\ RoutineInv' /\ ReportedOnce'
  BY <1>1 DEF IInv, NumbersInv, RoutineInv, ReportedOnce, ghosts
<1>4. Accounted'
  BY <1>1 DEF IInv, Accounted, RoutineInv, ghosts
<1> QED
  BY <1>2, <1>3, <1>4 DEF IInv

\* What is reported is not in the sample any more.
LEMMA ReportKeepsInv ==
  ASSUME IInv, Report
  PROVE  IInv'
<1>1. /\ rpc = "print" /\ rpc' = "select" /\ snapshot' = <<>>
      /\ reported' = reported \cup Ids(snapshot) /\ Ids(snapshot') = {}
      /\ UNCHANGED <<sampleVars, updates, ticked, closeChan, current, registered, evicted, late>>
  BY IdsOfEmpty DEF Report
<1>2. TypeOK'
  BY <1>1 DEF IInv, TypeOK, sampleVars
<1>3. Ids(snapshot) \subseteq 1 .. updates
  BY IdsType DEF IInv, TypeOK, NumbersInv
<1>4. NumbersInv'
  <2>1. snapshot' \in Seq(Entries(updates'))
    BY <1>1
  <2> QED
    BY <1>1, <1>3, <2>1 DEF IInv, NumbersInv
<1>5. RoutineInv' /\ ReportedOnce' /\ Accounted'
  BY <1>1 DEF IInv, RoutineInv, ReportedOnce, Accounted, sampleVars
<1> QED
  BY <1>2, <1>4, <1>5 DEF IInv

\* The invariant is inductive.
LEMMA InvStep == IInv /\ [Next]_vars => IInv'
BY UpdateKeepsInv, SortKeepsInv, SwitchesKeepInv, SnapshotKeepsInv, ClearKeepsInv, ReportKeepsInv
   DEF Next, Routine

\* Whatever the updates, the percentiles asked for and the statistics closed
\* meanwhile, no update is in two reports, and no report is of an empty sample
\* (log.go:62-71).
THEOREM NothingReportedTwice == Spec => []ReportedOnce
<1>1. IInv => ReportedOnce
  BY DEF IInv
<1> QED
  BY <1>1, InvHolds, InvStep, PTL DEF Spec

\* Only an update between a Snapshot and its Clear is lost without being
\* replaced in a full reservoir (sample.go, UniformSample.Update): any other is
\* in the sample, in the snapshot or in a report.
THEOREM OnlyLateAreLost == Spec => []OnlyLateUpdatesAreLost
<1>1. IInv => OnlyLateUpdatesAreLost
  BY DEF IInv, Accounted, OnlyLateUpdatesAreLost
<1> QED
  BY <1>1, InvHolds, InvStep, PTL DEF Spec

-----------------------------------------------------------------------------
(* The other sample, ExpDecay: its heap.                                   *)

\* A parent is at most its child.
Smaller(c) == heap[c \div 2].k <= heap[c].k

\* down moves an entry of a full heap, away from its end.
ShapeInv == hpc = "down" => size = HeapCapacity /\ (at = 1 \/ at < size)

\* The array is a heap of its first size entries, but for the one that up or down
\* is moving, whose parent is at most its children.
OrderInv ==
  /\ hpc \notin {"up", "down"} => \A c \in 2 .. size : Smaller(c)
  /\ hpc = "up" =>
       /\ \A c \in 2 .. size : c # at => Smaller(c)
       /\ \A c \in 2 .. size : c \div 2 = at /\ at > 1 => heap[at \div 2].k <= heap[c].k
  /\ hpc = "down" =>
       /\ \A c \in 2 .. size - 1 : c \div 2 # at => Smaller(c)
       /\ \A c \in 2 .. size - 1 : c \div 2 = at /\ at > 1 => heap[at \div 2].k <= heap[c].k
       /\ \A i \in 1 .. size : heap[size].k <= heap[i].k

\* The array holds entries that were made, and an update made only one.
EntriesInv ==
  /\ \A i \in 1 .. Len(heap) : Now(i) \in entries
  /\ \A e, f \in entries : e.v = f.v => e = f

\* An entry that was evicted, and one of the array that is below it.
Gone(e) == \A i \in 1 .. Len(heap) : Now(i) # e
Below(i, e) == Now(i).k < e.k

\* At most one entry of the array is below an evicted one: the youngest, and none
\* while its place is free.
SurviveInv ==
  \A e \in entries : Gone(e) =>
       /\ Pushed >= HeapCapacity
       /\ \A i, j \in 1 .. Len(heap) : Below(i, e) /\ Below(j, e) => i = j
       /\ hpc = "push" => \A i \in 1 .. Len(heap) : ~ Below(i, e)

\* What holds whatever the priorities are, NaN included.
TInv == DecayTypeOK /\ EntriesInv /\ ShapeInv

\* The inductive invariant.
DInv == TInv /\ (Numbers => OrderInv /\ SurviveInv)

-----------------------------------------------------------------------------
\* A set of numbers that is not empty has a least one.
LEMMA LeastNumber ==
  ASSUME NEW T, T \subseteq Nat, T # {}
  PROVE  \E x \in T : \A y \in T : x <= y
<1> DEFINE R == OpToRel(<, Nat)
<1>1. IsWellFoundedOn(R, Nat)
  BY NatLessThanWellFounded
<1>2. \A x, y \in Nat : <<y, x>> \in R <=> y < x
  BY DEF OpToRel
<1> HIDE DEF R
<1>3. PICK x \in T : \A y \in T : ~ (<<y, x>> \in R)
  BY <1>1, WFMin
<1>4. ASSUME NEW y \in T PROVE x <= y
  <2>1. x \in Nat /\ y \in Nat
    OBVIOUS
  <2>2. ~ (y < x)
    BY <1>2, <1>3, <2>1
  <2> QED
    BY <2>1, <2>2
<1> QED
  BY <1>4

\* A parent's place.
LEMMA HalfOf ==
  ASSUME NEW c \in Nat
  PROVE  /\ c \div 2 \in Nat /\ 2 * (c \div 2) <= c /\ c <= 2 * (c \div 2) + 1
         /\ c > 0 => c \div 2 < c
         /\ c > 1 => c \div 2 > 0
OBVIOUS

\* A root is the least of its heap: the first place that is below it would have
\* a parent that is too.
LEMMA RootIsLeast ==
  ASSUME NEW n \in Nat, NEW key \in [1 .. n -> Nat],
         \A c \in 2 .. n : key[c \div 2] <= key[c]
  PROVE  \A i \in 1 .. n : key[1] <= key[i]
<1> DEFINE T == {i \in 1 .. n : key[i] < key[1]}
<1> SUFFICES ASSUME T # {} PROVE FALSE
    OBVIOUS
<1>1. PICK c \in T : \A d \in T : c <= d
  <2>1. T \subseteq Nat
    OBVIOUS
  <2> HIDE DEF T
  <2> QED
    BY <2>1, LeastNumber
<1>2. c \in 2 .. n /\ key[c] < key[1]
  BY <1>1
<1>3. c \div 2 \in 1 .. n /\ c \div 2 < c
  BY <1>2, HalfOf
<1>4. key[c \div 2] <= key[c] /\ key[c \div 2] \in Nat /\ key[c] \in Nat /\ key[1] \in Nat
  BY <1>2, <1>3
<1>5. c \div 2 \in T
  BY <1>2, <1>3, <1>4
<1> QED
  BY <1>1, <1>2, <1>3, <1>5

\* An entry of the array.
Entry == [k : Keys, v : 1 .. MaxSamples]

\* Parts of an entry.
LEMMA EntryIs ==
  ASSUME NEW e \in Entry, NEW f \in Factors
  PROVE  /\ e.k \in Keys /\ e.v \in 1 .. MaxSamples
         /\ Scale(f, e) \in Entry /\ Scale(f, e).v = e.v
         /\ Scale(f, e).k = IF e.k = NaN THEN NaN ELSE f[e.k]
<1> DEFINE k == IF e.k = NaN THEN NaN ELSE f[e.k]
<1>1. e.k \in Keys /\ e.v \in 1 .. MaxSamples /\ e = [k |-> e.k, v |-> e.v]
  BY DEF Entry
<1>2. k \in Keys
  <2>1. CASE e.k = NaN
    BY <2>1 DEF Keys
  <2>2. CASE e.k # NaN
    <3>1. e.k \in Priorities /\ f \in [Priorities -> Keys]
      BY <1>1, <2>2, DecayAssumption DEF Keys
    <3> QED
      BY <2>2, <3>1
  <2> QED
    BY <2>1, <2>2
<1>3. Scale(f, e) = [k |-> k, v |-> e.v]
  BY <1>1 DEF Scale
<1> HIDE DEF k
<1>4. [k |-> k, v |-> e.v] \in Entry
  BY <1>1, <1>2 DEF Entry
<1> QED
  BY <1>1, <1>3, <1>4 DEF k

\* The types, place by place.
LEMMA DecayFacts ==
  ASSUME DecayTypeOK
  PROVE  /\ size \in Nat /\ Len(heap) \in Nat /\ size <= Len(heap) /\ at \in Nat /\ at <= size
         /\ HeapCapacity \in Nat \ {0} /\ MaxSamples \in Nat /\ samples \in Nat
         /\ Pushed \in Nat /\ Pushed <= samples /\ heap \in Seq(Entry)
         /\ \A i \in 1 .. Len(heap) : heap[i] \in Entry /\ Now(i) \in Entry /\ Now(i).v = heap[i].v
         /\ entries \subseteq Entry
<1>1. /\ size \in Nat /\ Len(heap) \in Nat /\ size <= Len(heap) /\ at \in Nat /\ at <= size
      /\ HeapCapacity \in Nat \ {0} /\ MaxSamples \in Nat /\ samples \in Nat
      /\ heap \in Seq(Entry)
  BY DecayAssumption DEF DecayTypeOK, Entry
<1>2. Pushed \in Nat /\ Pushed <= samples
  BY <1>1 DEF DecayTypeOK, Pushed
<1>3. ASSUME NEW i \in 1 .. Len(heap)
      PROVE  heap[i] \in Entry /\ Now(i) \in Entry /\ Now(i).v = heap[i].v
  <2>1. heap[i] \in Entry
    BY <1>1
  <2>2. CASE i <= size
    BY <2>1, <2>2 DEF Now
  <2>3. CASE ~(i <= size)
    <3>1. factor \in Factors
      BY <1>1, <2>3 DEF DecayTypeOK
    <3> QED
      BY <2>1, <2>3, <3>1, EntryIs DEF Now
  <2> QED
    BY <2>2, <2>3
<1>4. entries \subseteq Entry
  <2>1. Pushed <= MaxSamples
    BY <1>1, <1>2 DEF DecayTypeOK
  <2>2. 1 .. Pushed \subseteq 1 .. MaxSamples
    BY <1>1, <1>2, <2>1
  <2> QED
    BY <2>2 DEF DecayTypeOK, Entry
<1> QED
  BY <1>1, <1>2, <1>3, <1>4

\* If no entry that was made is NaN, none of the heap is.
LEMMA NumberFacts ==
  ASSUME TInv, Numbers
  PROVE  /\ \A e \in entries : e.k \in Priorities /\ e.k \in Nat
         /\ \A i \in 1 .. size : heap[i].k \in Nat
<1>1. DecayTypeOK /\ EntriesInv /\ size \in Nat /\ Len(heap) \in Nat /\ size <= Len(heap) /\ entries \subseteq Entry
  BY DecayFacts DEF TInv
<1>2. ASSUME NEW e \in entries PROVE e.k \in Priorities /\ e.k \in Nat
  <2>1. e.k \in Keys /\ e.k # NaN
    BY <1>1 DEF Entry, Numbers
  <2> QED
    BY <2>1, DecayAssumption DEF Keys
<1>3. ASSUME NEW i \in 1 .. size PROVE heap[i] \in entries
  <2>1. i \in 1 .. Len(heap) /\ i <= size
    BY <1>1
  <2>2. Now(i) \in entries
    BY <1>1, <2>1 DEF EntriesInv
  <2> QED
    BY <2>1, <2>2 DEF Now
<1> QED
  BY <1>2, <1>3

\* Priorities that are numbers are compared as numbers.
LEMMA LessIs ==
  ASSUME NEW k \in Nat, NEW l \in Nat
  PROVE  Less(k, l) <=> k < l
BY DecayAssumption DEF Less

-----------------------------------------------------------------------------
(* Exchanging two entries of the slice.                                    *)

\* An exchange, as it is used below.
LEMMA SwapEffect ==
  ASSUME heap \in Seq(Entry), NEW i \in 1 .. Len(heap), NEW j \in 1 .. Len(heap),
         heap' = Swap(heap, i, j)
  PROVE  /\ heap' \in Seq(Entry) /\ Len(heap') = Len(heap) /\ heap'[i] = heap[j] /\ heap'[j] = heap[i]
         /\ \A c \in 1 .. Len(heap) : c # i /\ c # j => heap'[c] = heap[c]
<1> DEFINE s == heap
<1> DEFINE t == heap'
<1>1. s \in Seq(Entry) /\ i \in 1 .. Len(s) /\ j \in 1 .. Len(s) /\ t = Swap(s, i, j)
  OBVIOUS
<1> HIDE DEF s, t
<1>2. /\ t \in Seq(Entry) /\ Len(t) = Len(s) /\ t[i] = s[j] /\ t[j] = s[i]
      /\ \A c \in 1 .. Len(s) : c # i /\ c # j => t[c] = s[c]
  BY <1>1 DEF Swap
<1> QED
  BY <1>2 DEF s, t

\* The heap has the same entries after, and so as many below another one.
LEMMA SwapKeeps ==
  ASSUME DecayTypeOK, EntriesInv, hpc # "push",
         NEW i \in 1 .. size, NEW j \in 1 .. size,
         heap' = Swap(heap, i, j), UNCHANGED <<size, entries, factor>>,
         Pushed' = Pushed, hpc' # "push"
  PROVE  /\ heap' \in Seq(Entry) /\ Len(heap') = Len(heap)
         /\ \A c, d \in 1 .. Len(heap) : heap'[c].v = heap'[d].v => c = d
         /\ EntriesInv' /\ (SurviveInv => SurviveInv')
<1> DEFINE other(c) == IF c = i THEN j ELSE IF c = j THEN i ELSE c
<1>1. /\ size \in Nat /\ Len(heap) \in Nat /\ size <= Len(heap) /\ heap \in Seq(Entry)
      /\ i \in 1 .. Len(heap) /\ j \in 1 .. Len(heap)
  BY DecayFacts
<1>2. /\ heap' \in Seq(Entry) /\ Len(heap') = Len(heap) /\ heap'[i] = heap[j] /\ heap'[j] = heap[i]
      /\ \A c \in 1 .. Len(heap) : c # i /\ c # j => heap'[c] = heap[c]
  BY <1>1, SwapEffect
<1>3. \A c \in 1 .. Len(heap) : /\ other(c) \in 1 .. Len(heap) /\ other(other(c)) = c
                                /\ heap'[c] = heap[other(c)] /\ Now(c)' = Now(other(c))
  <2> SUFFICES ASSUME NEW c \in 1 .. Len(heap)
               PROVE  /\ other(c) \in 1 .. Len(heap) /\ other(other(c)) = c
                      /\ heap'[c] = heap[other(c)] /\ Now(c)' = Now(other(c))
      OBVIOUS
  <2>1. other(c) \in 1 .. Len(heap) /\ other(other(c)) = c /\ heap'[c] = heap[other(c)]
    BY <1>1, <1>2
  <2>2. c <= size <=> other(c) <= size
    BY <1>1
  <2>3. Now(c)' = Now(other(c))
    BY <2>1, <2>2 DEF Now
  <2> QED
    BY <2>1, <2>3
<1> HIDE DEF other
<1>4. ASSUME NEW c \in 1 .. Len(heap), NEW d \in 1 .. Len(heap), heap'[c].v = heap'[d].v PROVE c = d
  <2>1. heap[other(c)].v = heap[other(d)].v
    BY <1>3, <1>4
  <2>2. other(c) = other(d)
    BY <1>3, <2>1 DEF DecayTypeOK
  <2> QED
    BY <1>3, <2>2
<1>5. EntriesInv'
  BY <1>2, <1>3 DEF EntriesInv
<1>6. \A e : Gone(e)' => Gone(e)
  <2> SUFFICES ASSUME NEW e, Gone(e)', NEW c \in 1 .. Len(heap) PROVE Now(c) # e
      BY DEF Gone
  <2>1. other(c) \in 1 .. Len(heap) /\ Now(other(c))' = Now(c)
    BY <1>3
  <2> QED
    BY <1>2, <2>1 DEF Gone
<1>7. SurviveInv => SurviveInv'
  <2> SUFFICES ASSUME SurviveInv, NEW e \in entries, Gone(e)'
               PROVE  /\ Pushed >= HeapCapacity
                      /\ \A c, d \in 1 .. Len(heap) : Below(c, e)' /\ Below(d, e)' => c = d
      BY <1>2 DEF SurviveInv
  <2>1. Gone(e)
    BY <1>6
  <2>2. ASSUME NEW c \in 1 .. Len(heap), NEW d \in 1 .. Len(heap), Below(c, e)', Below(d, e)'
        PROVE  c = d
    <3>1. Below(other(c), e) /\ Below(other(d), e)
      BY <1>3, <2>2 DEF Below
    <3>2. other(c) = other(d)
      BY <1>3, <2>1, <3>1 DEF SurviveInv
    <3> QED
      BY <1>3, <3>2
  <2> QED
    BY <2>1, <2>2 DEF SurviveInv
<1> QED
  BY <1>2, <1>4, <1>5, <1>7

-----------------------------------------------------------------------------
(* update.                                                                 *)

\* Pop keeps the array's size and its entries.
LEMMA StartUpdateTypes ==
  ASSUME TInv, StartUpdate
  PROVE  TInv'
<1>1. /\ hpc = "idle" /\ samples < MaxSamples /\ samples' = samples + 1
      /\ UNCHANGED <<entries, factor, size>>
  BY DEF StartUpdate, Pop
<1>2. /\ size \in Nat /\ Len(heap) \in Nat /\ HeapCapacity \in Nat \ {0} /\ samples \in Nat
      /\ MaxSamples \in Nat /\ heap \in Seq(Entry) /\ size = Len(heap) /\ factor = <<>>
      /\ Pushed = samples /\ at = 0
  BY <1>1, DecayFacts DEF TInv, DecayTypeOK, Pushed
<1>4. CASE size # HeapCapacity
  <2>1. hpc' = "push" /\ UNCHANGED <<heap, at>>
    BY <1>4 DEF StartUpdate
  <2>2. Pushed' = Pushed /\ Pushed < HeapCapacity
    BY <1>1, <1>2, <1>4, <2>1 DEF Pushed, TInv, DecayTypeOK
  <2>3. DecayTypeOK'
    BY <1>1, <1>2, <2>1, <2>2 DEF TInv, DecayTypeOK
  <2>4. EntriesInv' /\ ShapeInv'
    BY <1>1, <2>1 DEF TInv, EntriesInv, ShapeInv, Now
  <2> QED
    BY <2>3, <2>4 DEF TInv
<1>5. CASE size = HeapCapacity
  <2>1. heap' = Swap(heap, 1, size) /\ hpc' = "down" /\ at' = 1
    BY <1>5 DEF StartUpdate, Pop
  <2>2. Pushed' = Pushed /\ Pushed >= HeapCapacity /\ 1 \in 1 .. size /\ size \in 1 .. size
    BY <1>1, <1>2, <1>5, <2>1 DEF Pushed, TInv, DecayTypeOK
  <2>3. /\ heap' \in Seq(Entry) /\ Len(heap') = Len(heap)
        /\ \A c, d \in 1 .. Len(heap) : heap'[c].v = heap'[d].v => c = d
        /\ EntriesInv'
    BY <1>1, <2>1, <2>2, SwapKeeps DEF TInv
  <2>4. DecayTypeOK'
    BY <1>1, <1>2, <1>5, <2>1, <2>2, <2>3 DEF TInv, DecayTypeOK, Entry
  <2>5. ShapeInv'
    BY <1>1, <1>5, <2>1 DEF ShapeInv
  <2> QED
    BY <2>3, <2>4, <2>5 DEF TInv
<1> QED
  BY <1>4, <1>5

\* The root that Pop puts last is the least entry of all.
LEMMA StartUpdateKeeps ==
  ASSUME TInv, Numbers, OrderInv, SurviveInv, StartUpdate
  PROVE  OrderInv' /\ SurviveInv'
<1>1. /\ hpc = "idle" /\ samples < MaxSamples /\ samples' = samples + 1
      /\ UNCHANGED <<entries, factor, size>>
  BY DEF StartUpdate, Pop
<1>2. /\ size \in Nat /\ Len(heap) \in Nat /\ HeapCapacity \in Nat \ {0} /\ samples \in Nat
      /\ heap \in Seq(Entry) /\ size = Len(heap) /\ factor = <<>>
      /\ \A i \in 1 .. Len(heap) : heap[i].k \in Nat
      /\ Pushed = samples
  BY <1>1, DecayFacts, NumberFacts DEF TInv, DecayTypeOK, Pushed
<1>3. \A c \in 2 .. size : Smaller(c)
  BY <1>1 DEF OrderInv
<1>4. CASE size # HeapCapacity
  <2>1. hpc' = "push" /\ UNCHANGED <<heap, at>>
    BY <1>4 DEF StartUpdate
  <2>2. Pushed' = Pushed /\ Pushed < HeapCapacity
    BY <1>1, <1>2, <1>4, <2>1 DEF Pushed, TInv, DecayTypeOK
  <2>3. OrderInv'
    BY <1>1, <1>3, <2>1 DEF OrderInv, Smaller
  <2>4. SurviveInv'
    <3> SUFFICES ASSUME NEW e \in entries, Gone(e)' PROVE FALSE
        BY <1>1 DEF SurviveInv
    <3>1. Gone(e)
      BY <1>1, <2>1 DEF Gone, Now
    <3> QED
      BY <1>2, <2>2, <3>1 DEF SurviveInv
  <2> QED
    BY <2>3, <2>4
<1>5. CASE size = HeapCapacity
  <2>1. heap' = Swap(heap, 1, size) /\ hpc' = "down" /\ at' = 1
    BY <1>5 DEF StartUpdate, Pop
  <2>2. Pushed' = Pushed /\ 1 \in 1 .. size /\ size \in 1 .. size
    BY <1>1, <1>2, <1>5, <2>1 DEF Pushed
  <2>3. SurviveInv'
    BY <1>1, <2>1, <2>2, SwapKeeps DEF TInv
  <2>5. /\ heap'[1] = heap[size] /\ heap'[size] = heap[1]
        /\ \A c \in 1 .. Len(heap) : c # 1 /\ c # size => heap'[c] = heap[c]
    BY <1>2, <2>1, <2>2, SwapEffect
  <2>6. \A i \in 1 .. size : heap[1].k <= heap[i].k
    <3> DEFINE key == [i \in 1 .. size |-> heap[i].k]
    <3>1. key \in [1 .. size -> Nat] /\ \A i \in 1 .. size : key[i] = heap[i].k
      BY <1>2
    <3>2. \A c \in 2 .. size : c \in 1 .. size /\ c \div 2 \in 1 .. size
      BY <1>2, HalfOf
    <3>3. \A c \in 2 .. size : key[c \div 2] <= key[c]
      BY <1>3, <3>1, <3>2 DEF Smaller
    <3> HIDE DEF key
    <3>4. \A i \in 1 .. size : key[1] <= key[i]
      BY <1>2, <3>1, <3>3, RootIsLeast
    <3> QED
      BY <2>2, <3>1, <3>4
  <2>7. \A i \in 1 .. size : heap'[size].k <= heap'[i].k
    <3> SUFFICES ASSUME NEW i \in 1 .. size PROVE heap[1].k <= heap'[i].k
        BY <2>5
    <3> QED
      BY <1>2, <2>2, <2>5, <2>6
  <2>8. ASSUME NEW c \in 2 .. size - 1, c \div 2 # 1 PROVE heap'[c \div 2].k <= heap'[c].k
    <3>1. c \in 2 .. size /\ c # 1 /\ c # size /\ c \in 1 .. Len(heap)
      BY <1>2, <2>8
    <3>2. c \div 2 \in 1 .. Len(heap) /\ c \div 2 # size
      BY <1>2, <3>1, HalfOf
    <3> QED
      BY <1>3, <2>5, <2>8, <3>1, <3>2 DEF Smaller
  <2>9. OrderInv'
    BY <1>1, <2>1, <2>7, <2>8 DEF OrderInv, Smaller
  <2> QED
    BY <2>3, <2>9
<1> QED
  BY <1>4, <1>5

\* A turn of down exchanges an entry with a child, or drops the last one.
LEMMA DownTypes ==
  ASSUME TInv, Down
  PROVE  TInv'
<1> DEFINE n == size - 1
<1> DEFINE j == SmallerChild(at, n)
<1>1. hpc = "down" /\ UNCHANGED <<samples, entries, factor>>
  BY DEF Down
<1>2. /\ size \in Nat /\ Len(heap) \in Nat /\ HeapCapacity \in Nat \ {0} /\ samples \in Nat
      /\ MaxSamples \in Nat /\ heap \in Seq(Entry) /\ factor = <<>> /\ size = Len(heap)
      /\ Pushed = samples - 1 /\ at \in 1 .. size
  BY <1>1, DecayFacts DEF TInv, DecayTypeOK, Pushed
<1>3. size = HeapCapacity /\ (at = 1 \/ at < size)
  BY <1>1 DEF TInv, ShapeInv
<1>4. CASE 2 * at <= n /\ Less(heap[j].k, heap[at].k)
  <2>1. heap' = Swap(heap, at, j) /\ at' = j /\ UNCHANGED <<size, hpc>>
    BY <1>4 DEF Down
  <2>2. j \in 2 .. n /\ j \in 1 .. size /\ j < size
    BY <1>2, <1>4 DEF SmallerChild
  <2> HIDE DEF j
  <2>3. Pushed' = Pushed
    BY <1>1, <2>1 DEF Pushed
  <2>4. /\ heap' \in Seq(Entry) /\ Len(heap') = Len(heap)
        /\ \A c, d \in 1 .. Len(heap) : heap'[c].v = heap'[d].v => c = d
        /\ EntriesInv'
    BY <1>1, <1>2, <2>1, <2>2, <2>3, SwapKeeps DEF TInv
  <2>5. DecayTypeOK'
    <3>1. at' \in 0 .. size' /\ at' # 0 /\ hpc' = "down" /\ factor' = <<>> /\ size' = Len(heap')
      BY <1>1, <1>2, <2>1, <2>2, <2>4
    <3> QED
      BY <1>1, <1>2, <1>3, <2>1, <2>3, <2>4, <3>1 DEF TInv, DecayTypeOK, Entry
  <2>6. ShapeInv'
    BY <1>3, <2>1, <2>2 DEF ShapeInv
  <2> QED
    BY <2>4, <2>5, <2>6 DEF TInv
<1>5. CASE ~(2 * at <= n /\ Less(heap[j].k, heap[at].k))
  <2>1. heap' = SubSeq(heap, 1, n) /\ size' = n /\ hpc' = "push" /\ at' = 0
    BY <1>5 DEF Down
  <2>2. n \in Nat /\ n <= Len(heap) /\ \A c \in 1 .. n : c \in 1 .. Len(heap)
    BY <1>2, <1>3
  <2>3. heap' \in Seq(Entry) /\ Len(heap') = n /\ \A c \in 1 .. n : heap'[c] = heap[c]
    BY <1>2, <2>1, <2>2
  <2>4. Pushed' = Pushed /\ Pushed >= HeapCapacity
    BY <1>1, <1>2, <1>3, <2>1 DEF TInv, DecayTypeOK, Pushed
  <2>5. DecayTypeOK'
    BY <1>1, <1>2, <1>3, <2>1, <2>2, <2>3, <2>4 DEF TInv, DecayTypeOK, Entry
  <2>6. \A c \in 1 .. n : Now(c) = heap[c] /\ Now(c)' = heap[c]
    BY <1>2, <2>1, <2>2, <2>3 DEF Now
  <2>7. EntriesInv' /\ ShapeInv'
    BY <1>1, <2>1, <2>2, <2>3, <2>6 DEF TInv, EntriesInv, ShapeInv
  <2> QED
    BY <2>5, <2>7 DEF TInv
<1> QED
  BY <1>4, <1>5

\* down: an entry that is larger than a child is exchanged with the smaller one.
LEMMA DownKeeps ==
  ASSUME TInv, Numbers, OrderInv, SurviveInv, Down
  PROVE  OrderInv' /\ SurviveInv'
<1> DEFINE n == size - 1
<1> DEFINE j == SmallerChild(at, n)
<1>1. hpc = "down" /\ UNCHANGED <<samples, entries, factor>>
  BY DEF Down
<1>2. /\ size \in Nat /\ Len(heap) \in Nat /\ HeapCapacity \in Nat \ {0} /\ samples \in Nat
      /\ MaxSamples \in Nat /\ heap \in Seq(Entry) /\ factor = <<>> /\ size = Len(heap)
      /\ \A i \in 1 .. Len(heap) : heap[i] \in Entry /\ heap[i].k \in Nat
      /\ Pushed = samples - 1 /\ at \in 1 .. size
  BY <1>1, DecayFacts, NumberFacts DEF TInv, DecayTypeOK, Pushed
<1>3. /\ size = HeapCapacity /\ (at = 1 \/ at < size)
      /\ \A c \in 2 .. size - 1 : c \div 2 # at => Smaller(c)
      /\ \A c \in 2 .. size - 1 : c \div 2 = at /\ at > 1 => heap[at \div 2].k <= heap[c].k
      /\ \A i \in 1 .. size : heap[size].k <= heap[i].k
  BY <1>1 DEF TInv, ShapeInv, OrderInv
<1>4. CASE 2 * at <= n /\ Less(heap[j].k, heap[at].k)
  <2>1. heap' = Swap(heap, at, j) /\ at' = j /\ UNCHANGED <<size, hpc>>
    BY <1>4 DEF Down
  <2>2. /\ j \in 2 .. n /\ j \div 2 = at /\ j \in 1 .. size /\ at # j /\ at < size
        /\ \A c \in 2 .. n : c \div 2 = at => heap[j].k <= heap[c].k
    <3>1. \A c \in 2 .. n : c \div 2 = at => c = 2 * at \/ c = 2 * at + 1
      BY <1>2
    <3>2. (2 * at) \div 2 = at /\ (2 * at + 1) \div 2 = at
      BY <1>2
    <3>3. 2 * at \in 2 .. n /\ n \in Nat
      BY <1>2, <1>4
    <3>4. CASE 2 * at + 1 <= n /\ ~Less(heap[2 * at].k, heap[2 * at + 1].k)
      <4>1. j = 2 * at + 1
        BY <3>4 DEF SmallerChild
      <4>2. 2 * at \in 1 .. Len(heap) /\ 2 * at + 1 \in 1 .. Len(heap)
        BY <1>2, <3>3, <3>4
      <4>3. heap[2 * at + 1].k <= heap[2 * at].k /\ heap[2 * at + 1].k <= heap[2 * at + 1].k
        <5>1. heap[2 * at].k \in Nat /\ heap[2 * at + 1].k \in Nat
          BY <1>2, <4>2
        <5>2. Less(heap[2 * at].k, heap[2 * at + 1].k)
                <=> heap[2 * at].k < heap[2 * at + 1].k
          BY <5>1, LessIs, Zenon
        <5>3. ~(heap[2 * at].k < heap[2 * at + 1].k)
          BY <3>4, <5>2
        <5> QED
          BY <5>1, <5>3
      <4> HIDE DEF j
      <4>4. j \in 2 .. n /\ j \div 2 = at /\ j \in 1 .. size /\ at # j /\ at < size
        <5>1. j \div 2 = at
          BY <3>2, <4>1, Zenon
        <5>2. size \in Nat /\ at \in 1 .. size /\ 2 * at + 1 <= size - 1 /\ j = 2 * at + 1
          BY <1>2, <3>4, <4>1
        <5> QED
          BY <5>1, <5>2
      <4>5. ASSUME NEW c \in 2 .. n, c \div 2 = at PROVE heap[j].k <= heap[c].k
        <5>1. c = 2 * at \/ c = 2 * at + 1
          BY <3>1, <4>5
        <5> QED
          BY <4>1, <4>3, <5>1
      <4> QED
        BY <4>4, <4>5
    <3>5. CASE ~(2 * at + 1 <= n /\ ~Less(heap[2 * at].k, heap[2 * at + 1].k))
      <4>1. j = 2 * at
        BY <3>5 DEF SmallerChild
      <4>2. ASSUME NEW c \in 2 .. n, c \div 2 = at PROVE heap[2 * at].k <= heap[c].k
        <5>1. c \in 1 .. Len(heap) /\ 2 * at \in 1 .. Len(heap)
          BY <1>2, <3>3
        <5>2. CASE c = 2 * at
          BY <1>2, <5>1, <5>2
        <5>3. CASE c = 2 * at + 1
          BY <1>2, <3>5, <5>1, <5>3, LessIs
        <5> QED
          BY <3>1, <4>2, <5>2, <5>3
      <4> HIDE DEF j
      <4>3. j \in 2 .. n /\ j \div 2 = at /\ j \in 1 .. size /\ at # j /\ at < size
        BY <1>2, <3>2, <3>3, <4>1
      <4> QED
        BY <4>1, <4>2, <4>3
    <3> QED
      BY <3>4, <3>5
  <2> HIDE DEF j
  <2>3. Pushed' = Pushed
    BY <1>1, <2>1 DEF Pushed
  <2>4. SurviveInv'
    BY <1>1, <1>2, <2>1, <2>2, <2>3, SwapKeeps DEF TInv
  <2>5. heap[j].k < heap[at].k
    BY <1>2, <1>4, <2>2, LessIs
  <2>6. /\ heap'[at] = heap[j] /\ heap'[j] = heap[at]
        /\ \A c \in 1 .. Len(heap) : c # at /\ c # j => heap'[c] = heap[c]
    BY <1>2, <2>1, <2>2, SwapEffect
  <2>7. ASSUME NEW c \in 2 .. n, c \div 2 # j PROVE heap'[c \div 2].k <= heap'[c].k
    <3>1. c \in 1 .. Len(heap) /\ c \div 2 \in 1 .. Len(heap)
      BY <1>2, HalfOf
    <3>2. CASE c = j
      BY <1>2, <2>2, <2>5, <2>6, <3>2
    <3>3. CASE c # j /\ c \div 2 = at
      <4>1. c # at
        BY <1>2, <3>3, HalfOf
      <4> QED
        BY <2>2, <2>6, <3>1, <3>3, <4>1
    <3>4. CASE c = at
      <4>1. at > 1 /\ j \in 2 .. size - 1 /\ c \div 2 # at
        BY <1>2, <2>2, <3>4, HalfOf
      <4>2. heap[at \div 2].k <= heap[j].k
        BY <1>3, <2>2, <4>1
      <4> QED
        BY <2>6, <2>7, <3>1, <3>4, <4>1, <4>2
    <3>5. CASE c # at /\ c # j /\ c \div 2 # at
      BY <1>3, <2>6, <2>7, <3>1, <3>5 DEF Smaller
    <3> QED
      BY <3>2, <3>3, <3>4, <3>5
  <2>8. ASSUME NEW c \in 2 .. n, c \div 2 = j PROVE heap'[j \div 2].k <= heap'[c].k
    <3>1. c \in 1 .. Len(heap) /\ c # j /\ c # at
      BY <1>2, <2>2, <2>8, HalfOf
    <3>2. Smaller(c)
      BY <1>3, <2>2, <2>8
    <3> QED
      BY <2>2, <2>6, <2>8, <3>1, <3>2 DEF Smaller
  <2>9. \A i \in 1 .. size : heap'[size].k <= heap'[i].k
    <3>1. size # at /\ size # j /\ size \in 1 .. Len(heap)
      BY <1>2, <2>2
    <3> QED
      BY <1>2, <1>3, <2>2, <2>6, <3>1
  <2>10. OrderInv'
    BY <1>1, <1>2, <1>3, <2>1, <2>2, <2>7, <2>8, <2>9 DEF OrderInv, Smaller
  <2> QED
    BY <2>4, <2>10
<1>5. CASE ~(2 * at <= n /\ Less(heap[j].k, heap[at].k))
  <2>1. heap' = SubSeq(heap, 1, n) /\ size' = n /\ hpc' = "push" /\ at' = 0
    BY <1>5 DEF Down
  <2>2. n \in Nat /\ n <= Len(heap) /\ \A c \in 1 .. n : c \in 1 .. Len(heap)
    BY <1>2, <1>3
  <2>3. heap' \in Seq(Entry) /\ Len(heap') = n /\ \A c \in 1 .. n : heap'[c] = heap[c]
    BY <1>2, <2>1, <2>2
  <2>4. Pushed' = Pushed /\ Pushed >= HeapCapacity
    BY <1>1, <1>2, <1>3, <2>1 DEF TInv, DecayTypeOK, Pushed
  <2>6. ASSUME NEW c \in 2 .. n PROVE heap'[c \div 2].k <= heap'[c].k
    <3>1. c \in 1 .. n /\ c \div 2 \in 1 .. n
      BY <2>2, HalfOf
    <3>2. CASE c \div 2 # at
      BY <1>3, <2>3, <3>1, <3>2 DEF Smaller
    <3>3. CASE c \div 2 = at
      <4>1. c = 2 * at \/ c = 2 * at + 1
        BY <1>2, <3>1, <3>3
      <4>2. 2 * at <= n /\ 2 * at \in 1 .. Len(heap)
        BY <1>2, <2>2, <3>1, <4>1
      <4>3. j \in 1 .. Len(heap) /\ heap[at].k <= heap[j].k
        <5>1. j \in 1 .. Len(heap)
          BY <1>2, <2>2, <4>2 DEF SmallerChild
        <5> HIDE DEF j
        <5> QED
          BY <1>2, <1>5, <4>2, <5>1, LessIs
      <4>4. heap[j].k <= heap[c].k
        <5>1. c \in 1 .. Len(heap)
          BY <2>2, <3>1
        <5>2. CASE c = 2 * at
          <6>1. 2 * at + 1 <= n => 2 * at + 1 \in 1 .. Len(heap)
            BY <1>2, <2>2
          <6> QED
            BY <1>2, <4>2, <5>2, <6>1, LessIs DEF SmallerChild
        <5>3. CASE c = 2 * at + 1
          <6>1. 2 * at + 1 <= n /\ heap[c].k \in Nat /\ heap[2 * at].k \in Nat
            <7>1. heap[c].k \in Nat /\ heap[2 * at].k \in Nat
              BY <1>2, <4>2, <5>1
            <7> QED
              BY <3>1, <5>3, <7>1
          <6>2. CASE Less(heap[2 * at].k, heap[2 * at + 1].k)
            <7>1. j = 2 * at
              BY <6>2 DEF SmallerChild
            <7> HIDE DEF j
            <7> QED
              BY <5>3, <6>1, <6>2, <7>1, LessIs
          <6>3. CASE ~Less(heap[2 * at].k, heap[2 * at + 1].k)
            <7>1. j = c
              BY <5>3, <6>1, <6>3 DEF SmallerChild
            <7> HIDE DEF j
            <7> QED
              BY <6>1, <7>1
          <6> QED
            BY <6>2, <6>3
        <5> QED
          BY <4>1, <5>2, <5>3
      <4>5. at \in 1 .. n /\ c \in 1 .. Len(heap) /\ at \in 1 .. Len(heap)
        BY <1>2, <2>2, <3>1, <3>3
      <4> HIDE DEF j
      <4>6. heap[at].k <= heap[c].k
        BY <1>2, <4>3, <4>4, <4>5
      <4> QED
        BY <2>3, <3>1, <3>3, <4>5, <4>6
    <3> QED
      BY <3>2, <3>3
  <2>7. OrderInv'
    BY <2>1, <2>6 DEF OrderInv, Smaller
  <2>8. \A c \in 1 .. n : Now(c) = heap[c] /\ Now(c)' = heap[c]
    BY <1>2, <2>1, <2>2, <2>3 DEF Now
  <2>10. SurviveInv'
    <3> SUFFICES ASSUME NEW e \in entries, Gone(e)', NEW c \in 1 .. n, Below(c, e)'
                 PROVE  FALSE
        BY <1>1, <2>3, <2>4 DEF SurviveInv
    <3>1. heap[c].k < e.k /\ c \in 1 .. Len(heap) /\ size \in 1 .. Len(heap) /\ c # size
      BY <1>2, <1>3, <2>2, <2>8 DEF Below
    <3>2. e \in Entry /\ e.k \in Nat
      BY NumberFacts, DecayFacts DEF TInv
    <3>3. heap[size].k <= heap[c].k
      BY <1>2, <1>3, <3>1
    <3>4. heap[size].k < e.k
      BY <1>2, <3>1, <3>2, <3>3
    <3>5. Now(size) = heap[size] /\ Now(c) = heap[c]
      BY <1>2, <3>1 DEF Now
    <3>6. Gone(e)
      <4> SUFFICES ASSUME NEW d \in 1 .. Len(heap) PROVE Now(d) # e
          BY DEF Gone
      <4>1. CASE d = size
        BY <1>2, <3>2, <3>4, <3>5, <4>1
      <4>2. CASE d # size
        <5>1. d \in 1 .. n
          BY <1>2, <4>2
        <5> QED
          BY <2>3, <2>8, <5>1 DEF Gone
      <4> QED
        BY <4>1, <4>2
    <3> QED
      BY <3>1, <3>4, <3>5, <3>6 DEF SurviveInv, Below
  <2> QED
    BY <2>7, <2>10
<1> QED
  BY <1>4, <1>5

\* A new entry: there is room, and its number is new.
LEMMA PushTypes ==
  ASSUME TInv, NEW k \in Priorities, Push(k)
  PROVE  TInv'
<1> DEFINE entry == [k |-> k, v |-> samples]
<1> DEFINE n == Len(heap)
<1>1. /\ hpc = "push" /\ hpc' = "up" /\ heap' = Append(heap, entry)
      /\ size' = size + 1 /\ at' = size + 1 /\ entries' = entries \cup {entry}
      /\ UNCHANGED <<samples, factor>>
  BY DEF Push
<1>2. /\ size \in Nat /\ n \in Nat /\ HeapCapacity \in Nat \ {0} /\ samples \in 0 .. MaxSamples
      /\ MaxSamples \in Nat /\ heap \in Seq(Entry) /\ factor = <<>> /\ size = n
      /\ \A i \in 1 .. n : heap[i] \in Entry /\ Now(i) = heap[i]
      /\ Pushed = samples - 1 /\ Pushed \in Nat /\ Pushed' = samples /\ entries \subseteq Entry
  BY <1>1, DecayFacts DEF TInv, DecayTypeOK, Pushed, Now
<1>3. n = IF Pushed >= HeapCapacity THEN HeapCapacity - 1 ELSE Pushed
  BY <1>1, <1>2 DEF TInv, DecayTypeOK
<1>4. /\ entry \in Entry /\ entry.k = k /\ entry.v = samples
      /\ \A e \in entries : e.v \in 1 .. samples - 1
  <2>1. samples \in 1 .. MaxSamples /\ k \in Keys
    BY <1>2 DEF Keys
  <2>2. \A e \in entries : e.v \in 1 .. samples - 1
    BY <1>2 DEF TInv, DecayTypeOK
  <2> QED
    BY <2>1, <2>2 DEF Entry
<1>5. \A e \in entries : e.v # samples /\ e # entry
  BY <1>2, <1>4
<1> HIDE DEF entry
<1>6. /\ heap' \in Seq(Entry) /\ Len(heap') = n + 1 /\ heap'[n + 1] = entry
      /\ \A i \in 1 .. n : heap'[i] = heap[i]
  BY <1>1, <1>2, <1>4
<1> HIDE DEF n
<1>7. \A i \in 1 .. n + 1 : Now(i)' = heap'[i]
  <2> SUFFICES ASSUME NEW i \in 1 .. n + 1 PROVE Now(i)' = heap'[i]
      OBVIOUS
  <2>1. i <= size'
    BY <1>1, <1>2
  <2> QED
    BY <2>1 DEF Now
<1>8. \A i \in 1 .. n : heap[i] \in entries /\ heap[i].v # samples
  BY <1>2, <1>5 DEF TInv, EntriesInv, n
<1>9. DecayTypeOK'
  <2>1. \A i, j \in 1 .. n + 1 : heap'[i].v = heap'[j].v => i = j
    <3> SUFFICES ASSUME NEW i \in 1 .. n + 1, NEW j \in 1 .. n + 1, heap'[i].v = heap'[j].v
                 PROVE  i = j
        OBVIOUS
    <3>1. CASE i \in 1 .. n /\ j \in 1 .. n
      BY <1>6, <3>1 DEF TInv, DecayTypeOK, n
    <3>2. CASE i = n + 1 /\ j \in 1 .. n
      BY <1>4, <1>6, <1>8, <3>2
    <3>3. CASE j = n + 1 /\ i \in 1 .. n
      BY <1>4, <1>6, <1>8, <3>3
    <3> QED
      BY <1>2, <3>1, <3>2, <3>3
  <2>2. Len(heap') = IF samples < HeapCapacity THEN samples ELSE HeapCapacity
    BY <1>2, <1>3, <1>6
  <2>3. entries' \subseteq [k : Keys, v : 1 .. samples]
    <3>1. \A e \in entries : e \in [k : Keys, v : 1 .. samples - 1]
      BY <1>2 DEF TInv, DecayTypeOK
    <3>2. 1 .. samples - 1 \subseteq 1 .. samples /\ samples \in 1 .. samples
      BY <1>2
    <3>3. entry \in [k : Keys, v : 1 .. samples]
      BY <3>2 DEF entry, Keys
    <3>4. \A e \in entries : e \in [k : Keys, v : 1 .. samples]
      BY <3>1, <3>2
    <3> QED
      BY <1>1, <3>3, <3>4
  <2>4. at' \in 0 .. size' /\ at' # 0 /\ size' = Len(heap')
    BY <1>1, <1>2, <1>6
  <2> QED
    BY <1>1, <1>2, <1>6, <2>1, <2>2, <2>3, <2>4 DEF DecayTypeOK, Entry
<1>10. EntriesInv'
  <2>1. \A i \in 1 .. n + 1 : Now(i)' \in entries'
    BY <1>1, <1>2, <1>6, <1>7, <1>8
  <2>2. \A e, f \in entries' : e.v = f.v => e = f
    BY <1>1, <1>4, <1>5 DEF TInv, EntriesInv
  <2> QED
    BY <1>6, <2>1, <2>2 DEF EntriesInv
<1>11. ShapeInv'
  BY <1>1 DEF ShapeInv
<1> QED
  BY <1>9, <1>10, <1>11 DEF TInv

\* At most the new entry is below what was evicted.
LEMMA PushKeeps ==
  ASSUME TInv, Numbers, OrderInv, SurviveInv, NEW k \in Priorities, Push(k)
  PROVE  OrderInv' /\ SurviveInv'
<1> DEFINE entry == [k |-> k, v |-> samples]
<1> DEFINE n == Len(heap)
<1>1. /\ hpc = "push" /\ hpc' = "up" /\ heap' = Append(heap, entry)
      /\ size' = size + 1 /\ at' = size + 1 /\ entries' = entries \cup {entry}
      /\ UNCHANGED <<samples, factor>>
  BY DEF Push
<1>2. /\ size \in Nat /\ n \in Nat /\ HeapCapacity \in Nat \ {0} /\ samples \in 0 .. MaxSamples
      /\ MaxSamples \in Nat /\ heap \in Seq(Entry) /\ factor = <<>> /\ size = n
      /\ \A i \in 1 .. n : heap[i] \in Entry /\ Now(i) = heap[i]
      /\ Pushed = samples - 1 /\ Pushed \in Nat /\ Pushed' = samples /\ entries \subseteq Entry
  BY <1>1, DecayFacts DEF TInv, DecayTypeOK, Pushed, Now
<1>3. n = IF Pushed >= HeapCapacity THEN HeapCapacity - 1 ELSE Pushed
  BY <1>1, <1>2 DEF TInv, DecayTypeOK
<1>4. /\ entry \in Entry /\ entry.k = k /\ entry.v = samples
      /\ \A e \in entries : e.v \in 1 .. samples - 1
  <2>1. samples \in 1 .. MaxSamples /\ k \in Keys
    BY <1>2 DEF Keys
  <2>2. \A e \in entries : e.v \in 1 .. samples - 1
    BY <1>2 DEF TInv, DecayTypeOK
  <2> QED
    BY <2>1, <2>2 DEF Entry
<1>5. \A e \in entries : e.v # samples /\ e # entry
  BY <1>2, <1>4
<1> HIDE DEF entry
<1>6. /\ heap' \in Seq(Entry) /\ Len(heap') = n + 1 /\ heap'[n + 1] = entry
      /\ \A i \in 1 .. n : heap'[i] = heap[i]
  BY <1>1, <1>2, <1>4
<1> HIDE DEF n
<1>7. \A i \in 1 .. n + 1 : Now(i)' = heap'[i]
  <2> SUFFICES ASSUME NEW i \in 1 .. n + 1 PROVE Now(i)' = heap'[i]
      OBVIOUS
  <2>1. i <= size'
    BY <1>1, <1>2
  <2> QED
    BY <2>1 DEF Now
<1>8. \A i \in 1 .. n : heap[i] \in entries /\ heap[i].v # samples
  BY <1>2, <1>5 DEF TInv, EntriesInv, n
<1>9. OrderInv'
  <2>1. \A c \in 2 .. size : Smaller(c)
    BY <1>1 DEF OrderInv
  <2>2. ASSUME NEW c \in 2 .. size + 1, c # size + 1 PROVE heap'[c \div 2].k <= heap'[c].k
    <3>1. c \in 2 .. size /\ c \in 1 .. n /\ c \div 2 \in 1 .. n
      BY <1>2, <2>2, HalfOf
    <3> QED
      BY <1>6, <2>1, <3>1 DEF Smaller
  <2>3. \A c \in 2 .. size + 1 : c \div 2 # size + 1
    BY <1>2, HalfOf
  <2> QED
    BY <1>1, <2>2, <2>3 DEF OrderInv, Smaller
<1>10. SurviveInv'
  <2> SUFFICES ASSUME NEW e \in entries', Gone(e)'
               PROVE  /\ Pushed' >= HeapCapacity
                      /\ \A i, j \in 1 .. n + 1 : Below(i, e)' /\ Below(j, e)' => i = j
      BY <1>1, <1>6 DEF SurviveInv
  <2>1. \A i \in 1 .. n + 1 : heap'[i] # e
    BY <1>6, <1>7 DEF Gone
  <2>2. e \in entries /\ n + 1 \in 1 .. n + 1
    BY <1>1, <1>2, <1>6, <2>1
  <2>3. Gone(e)
    <3> SUFFICES ASSUME NEW i \in 1 .. n PROVE heap[i] # e
        BY <1>2 DEF Gone, n
    <3> QED
      BY <1>2, <1>6, <2>1
  <2>4. Pushed >= HeapCapacity /\ \A i \in 1 .. n : ~ (heap[i].k < e.k)
    BY <1>1, <1>2, <2>2, <2>3 DEF SurviveInv, Below, n
  <2>5. \A i \in 1 .. n + 1 : Below(i, e)' => i = n + 1
    <3> SUFFICES ASSUME NEW i \in 1 .. n, Below(i, e)' PROVE FALSE
        BY <1>2
    <3>1. heap'[i].k < e.k
      BY <1>2, <1>7 DEF Below
    <3> QED
      BY <1>6, <2>4, <3>1
  <2>6. Pushed' >= HeapCapacity
    BY <1>2, <2>4
  <2> QED
    BY <2>5, <2>6
<1> QED
  BY <1>9, <1>10

\* A turn of up exchanges an entry with its parent.
LEMMA UpTypes ==
  ASSUME TInv, Up
  PROVE  TInv'
<1> DEFINE i == at \div 2
<1>1. hpc = "up" /\ UNCHANGED <<size, samples, entries, factor>>
  BY DEF Up
<1>2. /\ size \in Nat /\ Len(heap) \in Nat /\ heap \in Seq(Entry) /\ size <= Len(heap)
      /\ at \in 1 .. size /\ i \in Nat /\ i < at /\ at \in Nat
  <2>1. DecayTypeOK /\ at # 0
    BY <1>1 DEF TInv, DecayTypeOK
  <2>2. /\ size \in Nat /\ Len(heap) \in Nat /\ heap \in Seq(Entry) /\ size <= Len(heap)
        /\ at \in Nat /\ at <= size
    BY <2>1, DecayFacts
  <2>3. i \in Nat /\ i < at
    BY <2>1, <2>2, HalfOf
  <2> QED
    BY <2>1, <2>2, <2>3
<1>4. CASE i # 0 /\ Less(heap[at].k, heap[i].k)
  <2>1. heap' = Swap(heap, i, at) /\ at' = i /\ UNCHANGED hpc
    BY <1>4 DEF Up
  <2>2. i \in 1 .. size
    BY <1>2, <1>4
  <2>3. Pushed' = Pushed
    BY <1>1, <2>1 DEF Pushed
  <2>4. /\ heap' \in Seq(Entry) /\ Len(heap') = Len(heap)
        /\ \A c, d \in 1 .. Len(heap) : heap'[c].v = heap'[d].v => c = d
        /\ EntriesInv'
    BY <1>1, <1>2, <2>1, <2>2, <2>3, SwapKeeps DEF TInv
  <2>5. DecayTypeOK'
    <3>1. at' \in 0 .. size' /\ at' # 0
      BY <1>1, <1>2, <2>1, <2>2
    <3> QED
      BY <1>1, <1>2, <2>1, <2>3, <2>4, <3>1 DEF TInv, DecayTypeOK, Entry
  <2> QED
    BY <1>1, <2>1, <2>4, <2>5 DEF TInv, ShapeInv
<1>5. CASE ~(i # 0 /\ Less(heap[at].k, heap[i].k))
  <2>1. /\ hpc' = (IF factor = <<>> THEN "pushed" ELSE "rescale") /\ at' = 0 /\ UNCHANGED heap
    BY <1>5 DEF Up
  <2>2. Pushed' = Pushed /\ hpc' \in {"pushed", "rescale"} /\ at' \in 0 .. size'
    BY <1>1, <1>2, <2>1 DEF Pushed
  <2>3. DecayTypeOK'
    BY <1>1, <2>1, <2>2 DEF TInv, DecayTypeOK
  <2>4. EntriesInv' /\ ShapeInv'
    BY <1>1, <2>1, <2>2 DEF TInv, EntriesInv, ShapeInv, Now
  <2> QED
    BY <2>3, <2>4 DEF TInv
<1> QED
  BY <1>4, <1>5

\* up: an entry that is smaller than its parent is exchanged with it.
LEMMA UpKeeps ==
  ASSUME TInv, Numbers, OrderInv, SurviveInv, Up
  PROVE  OrderInv' /\ SurviveInv'
<1> DEFINE i == at \div 2
<1>1. hpc = "up" /\ UNCHANGED <<size, samples, entries, factor>>
  BY DEF Up
<1>2. /\ size \in Nat /\ Len(heap) \in Nat /\ heap \in Seq(Entry) /\ size <= Len(heap)
      /\ \A c \in 1 .. size : heap[c].k \in Nat
      /\ at \in 1 .. size /\ i \in Nat /\ i < at /\ (at > 1 => i > 0) /\ at \in Nat
  <2>1. DecayTypeOK /\ at # 0
    BY <1>1 DEF TInv, DecayTypeOK
  <2>2. /\ size \in Nat /\ Len(heap) \in Nat /\ heap \in Seq(Entry) /\ size <= Len(heap)
        /\ at \in Nat /\ at <= size
    BY <2>1, DecayFacts
  <2>3. at \in 1 .. size
    BY <2>1, <2>2
  <2>4. i \in Nat /\ i < at /\ (at > 1 => i > 0)
    BY <2>1, <2>2, HalfOf
  <2> QED
    BY <2>2, <2>3, <2>4, NumberFacts
<1>3. /\ \A c \in 2 .. size : c # at => Smaller(c)
      /\ \A c \in 2 .. size : c \div 2 = at /\ at > 1 => heap[i].k <= heap[c].k
  BY <1>1 DEF OrderInv
<1>4. CASE i # 0 /\ Less(heap[at].k, heap[i].k)
  <2>1. heap' = Swap(heap, i, at) /\ at' = i /\ UNCHANGED hpc
    BY <1>4 DEF Up
  <2>2. i \in 1 .. size /\ i \in 1 .. Len(heap) /\ at \in 1 .. Len(heap) /\ at \in 2 .. size
    BY <1>2, <1>4
  <2>3. Pushed' = Pushed
    BY <1>1, <2>1 DEF Pushed
  <2>4. SurviveInv'
    BY <1>1, <1>2, <2>1, <2>2, <2>3, SwapKeeps DEF TInv
  <2>5. heap[at].k < heap[i].k
    BY <1>2, <1>4, <2>2, LessIs
  <2>6. /\ heap'[i] = heap[at] /\ heap'[at] = heap[i]
        /\ \A c \in 1 .. Len(heap) : c # i /\ c # at => heap'[c] = heap[c]
    BY <1>2, <2>1, <2>2, SwapEffect
  <2>7. ASSUME NEW c \in 2 .. size, c # i PROVE heap'[c \div 2].k <= heap'[c].k
    <3>1. c \in 1 .. size /\ c \in 1 .. Len(heap) /\ c \div 2 \in 1 .. Len(heap) /\ c \div 2 < c
      BY <1>2, HalfOf
    <3>2. CASE c = at
      BY <1>2, <2>2, <2>5, <2>6, <3>2
    <3>3. CASE c # at /\ c \div 2 = i
      <4>1. heap[i].k <= heap[c].k
        BY <1>3, <3>3 DEF Smaller
      <4>2. heap[at].k <= heap[c].k
        BY <1>2, <2>2, <2>5, <3>1, <4>1
      <4> QED
        BY <2>6, <2>7, <3>1, <3>3, <4>2
    <3>4. CASE c # at /\ c \div 2 = at
      <4>1. heap[i].k <= heap[c].k
        BY <1>2, <1>3, <2>2, <3>4
      <4> QED
        BY <2>6, <2>7, <3>1, <3>4, <4>1
    <3>5. CASE c # at /\ c \div 2 # at /\ c \div 2 # i
      BY <1>3, <2>6, <2>7, <3>1, <3>5 DEF Smaller
    <3> QED
      BY <3>2, <3>3, <3>4, <3>5
  <2>8. ASSUME NEW c \in 2 .. size, c \div 2 = i, i > 1 PROVE heap'[i \div 2].k <= heap'[c].k
    <3>1. i \div 2 \in 1 .. size /\ i \div 2 \in 1 .. Len(heap) /\ i \div 2 # i /\ i \div 2 # at /\ i \in 2 .. size /\ i # at
      BY <1>2, <2>2, <2>8, HalfOf
    <3>2. heap[i \div 2].k <= heap[i].k
      BY <1>3, <3>1 DEF Smaller
    <3>3. c \in 1 .. size /\ c \in 1 .. Len(heap) /\ c # i
      BY <1>2, <2>8, HalfOf
    <3>4. CASE c = at
      BY <2>6, <3>1, <3>2, <3>4
    <3>5. CASE c # at
      <4>1. heap[i].k <= heap[c].k
        BY <1>3, <2>8, <3>5 DEF Smaller
      <4>2. heap[i \div 2].k <= heap[c].k
        BY <1>2, <2>2, <3>1, <3>2, <3>3, <4>1
      <4> QED
        BY <2>6, <3>1, <3>3, <3>5, <4>2
    <3> QED
      BY <3>4, <3>5
  <2>9. OrderInv'
    BY <1>1, <2>1, <2>7, <2>8 DEF OrderInv, Smaller
  <2> QED
    BY <2>4, <2>9
<1>5. CASE ~(i # 0 /\ Less(heap[at].k, heap[i].k))
  <2>1. /\ hpc' = (IF factor = <<>> THEN "pushed" ELSE "rescale") /\ at' = 0 /\ UNCHANGED heap
    BY <1>5 DEF Up
  <2>2. Pushed' = Pushed /\ hpc' \notin {"up", "down", "push"}
    BY <1>1, <2>1 DEF Pushed
  <2>3. ASSUME NEW c \in 2 .. size PROVE Smaller(c)
    <3>1. CASE c = at
      <4>1. i \in 1 .. size /\ heap[i].k \in Nat /\ heap[at].k \in Nat
        BY <1>2, <3>1
      <4> QED
        BY <1>5, <3>1, <4>1, LessIs DEF Smaller
    <3> QED
      BY <1>3, <3>1
  <2>4. OrderInv'
    BY <1>1, <2>1, <2>2, <2>3 DEF OrderInv, Smaller
  <2>5. SurviveInv'
    BY <1>1, <2>1, <2>2 DEF SurviveInv, Gone, Below, Now
  <2> QED
    BY <2>4, <2>5
<1> QED
  BY <1>4, <1>5

\* What is in order may be seen.
LEMMA EndUpdateKeeps ==
  ASSUME TInv, EndUpdate
  PROVE  TInv' /\ (OrderInv /\ SurviveInv => OrderInv' /\ SurviveInv')
<1>1. /\ hpc = "pushed" /\ hpc' = "idle"
      /\ UNCHANGED <<heap, size, samples, entries, at, factor>>
  BY DEF EndUpdate
<1>2. Pushed' = Pushed
  BY <1>1 DEF Pushed
<1>3. TInv'
  BY <1>1, <1>2 DEF TInv, DecayTypeOK, EntriesInv, ShapeInv, Now
<1>4. OrderInv /\ SurviveInv => OrderInv' /\ SurviveInv'
  BY <1>1, <1>2 DEF OrderInv, Smaller, SurviveInv, Gone, Below, Now
<1> QED
  BY <1>3, <1>4

-----------------------------------------------------------------------------
(* Rescaling.                                                              *)

\* All entries are scaled at once, and those in the array wait for it.
LEMMA StartRescaleTypes ==
  ASSUME TInv, StartRescale
  PROVE  TInv'
<1>1. PICK f \in Factors : factor' = f /\ entries' = {Scale(f, e) : e \in entries}
  BY DEF StartRescale
<1>2. /\ hpc = "pushed" /\ hpc' = "rescale" /\ size' = 0
      /\ UNCHANGED <<heap, samples, at>>
  BY DEF StartRescale
<1>3. /\ Len(heap) \in Nat /\ heap \in Seq(Entry) /\ size = Len(heap) /\ entries \subseteq Entry
      /\ \A i \in 1 .. Len(heap) : heap[i] \in Entry /\ Now(i) = heap[i]
      /\ Pushed' = Pushed /\ Pushed \in Nat /\ at = 0
  BY <1>2, DecayFacts DEF TInv, DecayTypeOK, Pushed, Now
<1>4. \A e \in entries : Scale(f, e) \in Entry /\ Scale(f, e).v = e.v
  BY <1>3, EntryIs
<1>5. \A i \in 1 .. Len(heap) : Now(i)' = Scale(f, heap[i]) /\ heap[i] \in entries
  BY <1>1, <1>2, <1>3 DEF Now, TInv, EntriesInv
<1>6. DecayTypeOK'
  <2>1. entries' \subseteq [k : Keys, v : 1 .. Pushed]
    <3> SUFFICES ASSUME NEW e \in entries PROVE Scale(f, e) \in [k : Keys, v : 1 .. Pushed]
        BY <1>1
    <3>1. e.v \in 1 .. Pushed
      BY DEF TInv, DecayTypeOK
    <3> DEFINE d == Scale(f, e)
    <3>2. d \in Entry /\ d.v \in 1 .. Pushed
      BY <1>4, <3>1
    <3> HIDE DEF d
    <3>3. d \in [k : Keys, v : 1 .. Pushed]
      BY <3>2 DEF Entry
    <3> QED
      BY <3>3 DEF d
  <2>2. f # <<>>
    <3>1. f \in [Priorities -> Keys] /\ Priorities # {}
      BY DecayAssumption DEF Keys
    <3>2. DOMAIN f # {} /\ DOMAIN <<>> = {}
      BY <3>1
    <3> QED
      BY <3>2
  <2> QED
    BY <1>1, <1>2, <1>3, <2>1, <2>2 DEF TInv, DecayTypeOK
<1>7. EntriesInv'
  <2>1. \A i \in 1 .. Len(heap) : Now(i)' \in entries'
    BY <1>1, <1>5
  <2>2. ASSUME NEW e \in entries, NEW d \in entries, Scale(f, e).v = Scale(f, d).v
        PROVE  Scale(f, e) = Scale(f, d)
    BY <1>4, <2>2 DEF TInv, EntriesInv
  <2> QED
    BY <1>1, <1>2, <2>1, <2>2 DEF EntriesInv
<1>8. ShapeInv'
  BY <1>2 DEF ShapeInv
<1> QED
  BY <1>6, <1>7, <1>8 DEF TInv

\* A NaN stays one, so that a rescaling without any starts without any.
LEMMA NumbersBefore ==
  ASSUME TInv, StartRescale, Numbers'
  PROVE  Numbers
<1>1. PICK f \in Factors : entries' = {Scale(f, e) : e \in entries}
  BY DEF StartRescale
<1>2. ASSUME NEW e \in entries PROVE e.k # NaN
  <2>1. e \in Entry /\ Scale(f, e) \in entries'
    BY <1>1, DecayFacts DEF TInv
  <2>2. Scale(f, e).k # NaN /\ Scale(f, e).k = IF e.k = NaN THEN NaN ELSE f[e.k]
    BY <2>1, EntryIs DEF Numbers
  <2> QED
    BY <2>2
<1> QED
  BY <1>2 DEF Numbers

\* Scaling keeps the order of numbers, so no more entries are below an evicted one.
LEMMA StartRescaleKeeps ==
  ASSUME TInv, Numbers, Numbers', OrderInv, SurviveInv, StartRescale
  PROVE  OrderInv' /\ SurviveInv'
<1>1. PICK f \in Factors : factor' = f /\ entries' = {Scale(f, e) : e \in entries}
  BY DEF StartRescale
<1>2. /\ hpc = "pushed" /\ hpc' = "rescale" /\ size' = 0
      /\ UNCHANGED <<heap, samples, at>>
  BY DEF StartRescale
<1>3. /\ Len(heap) \in Nat /\ size = Len(heap) /\ entries \subseteq Entry
      /\ \A i \in 1 .. Len(heap) : heap[i] \in Entry /\ Now(i) = heap[i] /\ heap[i] \in entries
      /\ Pushed' = Pushed
  BY <1>2, DecayFacts DEF TInv, DecayTypeOK, Pushed, Now, EntriesInv
<1>4. ASSUME NEW e \in entries
      PROVE  /\ e.k \in Priorities /\ e.k \in Nat
             /\ Scale(f, e).k = f[e.k] /\ f[e.k] \in Nat /\ f[e.k] # NaN
  <2>1. e \in Entry /\ e.k \in Priorities /\ e.k \in Nat /\ e.k # NaN
    BY <1>3, NumberFacts DEF Numbers
  <2>2. Scale(f, e).k = f[e.k]
    BY <2>1, EntryIs
  <2>3. f[e.k] # NaN
    BY <1>1, <2>2 DEF Numbers
  <2>4. f[e.k] \in Priorities \cup {NaN}
    BY <2>1, DecayAssumption
  <2> QED
    BY <2>1, <2>2, <2>3, <2>4, DecayAssumption
<1>5. \A i \in 1 .. Len(heap) : Now(i)' = Scale(f, heap[i])
  BY <1>1, <1>2, <1>3 DEF Now
<1>6. OrderInv'
  BY <1>2 DEF OrderInv
<1>7. SurviveInv'
  <2> SUFFICES ASSUME NEW e \in entries, Gone(Scale(f, e))'
               PROVE  /\ Pushed >= HeapCapacity
                      /\ \A i, j \in 1 .. Len(heap) :
                           Below(i, Scale(f, e))' /\ Below(j, Scale(f, e))' => i = j
      <3>1. hpc' # "push"
        BY <1>2
      <3>2. ASSUME NEW d \in entries', Gone(d)'
            PROVE  /\ Pushed' >= HeapCapacity
                   /\ \A i, j \in 1 .. Len(heap') : Below(i, d)' /\ Below(j, d)' => i = j
        <4>1. PICK e \in entries : d = Scale(f, e)
          BY <1>1
        <4>2. Gone(Scale(f, e))'
          BY <3>2, <4>1
        <4> QED
          BY <1>1, <1>2, <1>3, <4>1, <4>2
      <3> QED
        BY <3>1, <3>2 DEF SurviveInv
  <2>1. Gone(e)
    BY <1>2, <1>3, <1>5 DEF Gone
  <2>2. ASSUME NEW i \in 1 .. Len(heap), Below(i, Scale(f, e))' PROVE Below(i, e)
    <3>1. Scale(f, heap[i]).k < Scale(f, e).k
      BY <1>5, <2>2 DEF Below
    <3>2. f[heap[i].k] < f[e.k]
      BY <1>3, <1>4, <3>1
    <3>3. ~(e.k <= heap[i].k)
      <4>1. NaN \notin {f[e.k], f[heap[i].k]} /\ heap[i].k \in Priorities /\ e.k \in Priorities
        BY <1>3, <1>4
      <4>2. e.k <= heap[i].k => f[e.k] <= f[heap[i].k]
        BY <4>1, DecayAssumption
      <4> QED
        BY <1>3, <1>4, <3>2, <4>2
    <3> QED
      BY <1>3, <1>4, <3>3 DEF Below
  <2> QED
    BY <2>1, <2>2 DEF SurviveInv
<1> QED
  BY <1>6, <1>7

\* An entry is pushed back over itself: nothing that waits is overwritten.
LEMMA RescaleKeeps ==
  ASSUME TInv, Rescale
  PROVE  TInv' /\ (OrderInv /\ SurviveInv => OrderInv' /\ SurviveInv')
<1>1. hpc = "rescale" /\ UNCHANGED <<samples, entries>> /\ factor \in Factors /\ factor # <<>>
  BY DEF Rescale, TInv, DecayTypeOK
<1>2. /\ size \in Nat /\ Len(heap) \in Nat /\ heap \in Seq(Entry) /\ size <= Len(heap)
      /\ \A i \in 1 .. Len(heap) : heap[i] \in Entry
      /\ Pushed = samples /\ at = 0
  BY <1>1, DecayFacts DEF TInv, DecayTypeOK, Pushed
<1>3. OrderInv => \A c \in 2 .. size : Smaller(c)
  BY <1>1 DEF OrderInv
<1>4. CASE size < Len(heap)
  <2>1. /\ heap' = [heap EXCEPT ![size + 1] = Scale(factor, @)]
        /\ size' = size + 1 /\ at' = size + 1 /\ hpc' = "up" /\ UNCHANGED factor
    BY <1>4 DEF Rescale
  <2>2. size + 1 \in 1 .. Len(heap) /\ Scale(factor, heap[size + 1]) \in Entry
        /\ Scale(factor, heap[size + 1]).v = heap[size + 1].v
    BY <1>1, <1>2, <1>4, EntryIs
  <2>3. /\ heap' \in Seq(Entry) /\ Len(heap') = Len(heap)
        /\ heap'[size + 1] = Scale(factor, heap[size + 1])
        /\ \A i \in 1 .. Len(heap) : i # size + 1 => heap'[i] = heap[i]
    <3> DEFINE e == Scale(factor, heap[size + 1])
    <3>1. e \in Entry /\ heap' = [heap EXCEPT ![size + 1] = e]
      BY <2>1, <2>2
    <3> HIDE DEF e
    <3>2. /\ heap' \in Seq(Entry) /\ Len(heap') = Len(heap) /\ heap'[size + 1] = e
          /\ \A i \in 1 .. Len(heap) : i # size + 1 => heap'[i] = heap[i]
      BY <1>2, <2>2, <3>1
    <3> QED
      BY <3>2 DEF e
  <2>4. \A i \in 1 .. Len(heap) : heap'[i].v = heap[i].v
    BY <2>2, <2>3
  <2>5. \A i \in 1 .. Len(heap) : Now(i)' = Now(i)
    <3> SUFFICES ASSUME NEW i \in 1 .. Len(heap) PROVE Now(i)' = Now(i)
        OBVIOUS
    <3>1. CASE i = size + 1
      BY <1>2, <2>1, <2>3, <3>1 DEF Now
    <3>2. CASE i # size + 1
      <4>1. i <= size' <=> i <= size
        BY <1>2, <2>1, <3>2
      <4> QED
        BY <2>1, <2>3, <3>2, <4>1 DEF Now
    <3> QED
      BY <3>1, <3>2
  <2>6. Pushed' = Pushed
    BY <1>1, <1>2, <2>1 DEF Pushed
  <2>7. DecayTypeOK'
    <3>1. size' \in 0 .. Len(heap') /\ at' \in 0 .. size' /\ at' # 0
      BY <1>2, <2>1, <2>2, <2>3
    <3>2. \A i, j \in 1 .. Len(heap') : heap'[i].v = heap'[j].v => i = j
      BY <2>3, <2>4 DEF TInv, DecayTypeOK
    <3> QED
      BY <1>1, <2>1, <2>3, <2>6, <3>1, <3>2 DEF TInv, DecayTypeOK, Entry
  <2>8. ASSUME OrderInv PROVE OrderInv'
    <3>1. ASSUME NEW c \in 2 .. size + 1, c # size + 1 PROVE heap'[c \div 2].k <= heap'[c].k
      <4>1. c \in 2 .. size /\ c \in 1 .. Len(heap) /\ c \div 2 \in 1 .. Len(heap) /\ c \div 2 # size + 1
        BY <1>2, <2>2, <3>1, HalfOf
      <4> QED
        BY <1>3, <2>3, <2>8, <3>1, <4>1 DEF Smaller
    <3>2. \A c \in 2 .. size + 1 : c \div 2 # size + 1
      BY <1>2, HalfOf
    <3> QED
      BY <2>1, <3>1, <3>2 DEF OrderInv, Smaller
  <2>9. EntriesInv' /\ ShapeInv'
    BY <1>1, <2>1, <2>3, <2>5 DEF TInv, EntriesInv, ShapeInv
  <2>10. SurviveInv => SurviveInv'
    BY <1>1, <2>1, <2>3, <2>5, <2>6 DEF SurviveInv, Gone, Below
  <2> QED
    BY <2>7, <2>8, <2>9, <2>10 DEF TInv
<1>5. CASE ~(size < Len(heap))
  <2>1. hpc' = "idle" /\ factor' = <<>> /\ UNCHANGED <<heap, size, at>> /\ size = Len(heap)
    BY <1>2, <1>5 DEF Rescale
  <2>2. Pushed' = Pushed
    BY <1>1, <1>2, <2>1 DEF Pushed
  <2>3. \A i \in 1 .. Len(heap) : Now(i)' = Now(i)
    BY <1>2, <2>1 DEF Now
  <2>4. DecayTypeOK' /\ (OrderInv => OrderInv')
    BY <1>1, <1>2, <1>3, <2>1, <2>2 DEF TInv, DecayTypeOK, OrderInv, Smaller
  <2>5. EntriesInv' /\ ShapeInv' /\ (SurviveInv => SurviveInv')
    BY <1>1, <2>1, <2>2, <2>3 DEF TInv, EntriesInv, ShapeInv, SurviveInv, Gone, Below
  <2> QED
    BY <2>4, <2>5 DEF TInv
<1> QED
  BY <1>4, <1>5

-----------------------------------------------------------------------------
(* The theorems.                                                           *)

\* An empty sample has nothing to keep in order.
LEMMA EmptyDecay ==
  ASSUME heap = <<>>, size = 0, samples = 0, entries = {}, hpc = "idle", at = 0, factor = <<>>
  PROVE  DInv
<1>1. heap \in Seq([k : Keys, v : 1 .. MaxSamples]) /\ Len(heap) = 0
  OBVIOUS
<1>2. Pushed = 0 /\ HeapCapacity \in Nat \ {0} /\ MaxSamples \in Nat
  BY DecayAssumption DEF Pushed
<1> QED
  BY <1>1, <1>2 DEF DInv, TInv, ShapeInv, DecayTypeOK, OrderInv, EntriesInv, SurviveInv

\* All of them keep it, and so does Clear.
LEMMA DecayInvariance == DecaySpec => []DInv
<1>1. DecayInit => DInv
  BY EmptyDecay DEF DecayInit
<1>2. ASSUME DInv, ClearDecay PROVE DInv'
  <2>1. /\ heap' = <<>> /\ size' = 0 /\ samples' = 0 /\ entries' = {}
        /\ hpc' = "idle" /\ at' = 0 /\ factor' = <<>>
    BY <1>2 DEF ClearDecay, DInv, TInv, DecayTypeOK
  <2>2. heap' \in Seq([k : Keys, v : 1 .. MaxSamples]) /\ Len(heap') = 0
    BY <2>1
  <2>3. Pushed' = 0 /\ HeapCapacity \in Nat \ {0} /\ MaxSamples \in Nat
    BY <2>1, DecayAssumption DEF Pushed
  <2> QED
    BY <2>1, <2>2, <2>3 DEF DInv, TInv, ShapeInv, DecayTypeOK, OrderInv, EntriesInv, SurviveInv
<1>3. ASSUME DInv, UNCHANGED decayVars PROVE DInv'
  BY <1>3 DEF decayVars, DInv, TInv, ShapeInv, DecayTypeOK, Numbers, OrderInv, Smaller, EntriesInv,
              SurviveInv, Gone, Below, Now, Pushed
<1>4. ASSUME DInv, StartUpdate \/ Down \/ Up \/ EndUpdate \/ Rescale PROVE DInv'
  <2>1. TInv
    BY <1>4 DEF DInv
  <2>2. entries' = entries
    BY <1>4 DEF StartUpdate, Down, Up, EndUpdate, Rescale
  <2>3. Numbers' <=> Numbers
    BY <2>2 DEF Numbers
  <2>4. TInv'
    BY <1>4, <2>1, StartUpdateTypes, DownTypes, UpTypes, EndUpdateKeeps, RescaleKeeps
  <2>5. ASSUME Numbers PROVE OrderInv' /\ SurviveInv'
    <3>1. OrderInv /\ SurviveInv
      BY <1>4, <2>5 DEF DInv
    <3> QED
      BY <1>4, <2>1, <2>5, <3>1, StartUpdateKeeps, DownKeeps, UpKeeps, EndUpdateKeeps, RescaleKeeps
  <2> QED
    BY <2>3, <2>4, <2>5 DEF DInv
<1>5. ASSUME DInv, NEW k \in Priorities, Push(k) PROVE DInv'
  <2>1. TInv
    BY <1>5 DEF DInv
  <2>2. Numbers' => Numbers
    BY <1>5 DEF Push, Numbers
  <2>3. TInv'
    BY <1>5, <2>1, PushTypes
  <2>4. ASSUME Numbers PROVE OrderInv' /\ SurviveInv'
    <3>1. OrderInv /\ SurviveInv
      BY <1>5, <2>4 DEF DInv
    <3> QED
      BY <1>5, <2>1, <2>4, <3>1, PushKeeps
  <2> QED
    BY <2>2, <2>3, <2>4 DEF DInv
<1>6. ASSUME DInv, StartRescale PROVE DInv'
  <2>1. TInv
    BY <1>6 DEF DInv
  <2>2. TInv'
    BY <1>6, <2>1, StartRescaleTypes
  <2>3. ASSUME Numbers' PROVE OrderInv' /\ SurviveInv'
    <3>1. Numbers
      BY <1>6, <2>1, <2>3, NumbersBefore
    <3>2. OrderInv /\ SurviveInv
      BY <1>6, <3>1 DEF DInv
    <3> QED
      BY <1>6, <2>1, <2>3, <3>1, <3>2, StartRescaleKeeps
  <2> QED
    BY <2>2, <2>3 DEF DInv
<1>7. DInv /\ [DecayNext]_decayVars => DInv'
  BY <1>2, <1>3, <1>4, <1>5, <1>6 DEF DecayNext
<1> QED
  BY <1>1, <1>7, PTL DEF DecaySpec

\* Whenever the mutex is free the slice holds different entries, all made by
\* updates, and is a heap as long as no rescaling has made a NaN: the loops of up
\* and down end in order, and the rescaling rebuilds the heap in the array it
\* reads (sample.go, ExpDecaySample.update and expDecaySampleHeap).
THEOREM HeapStaysOrdered == DecaySpec => []HeapOrdered
<1>1. DInv => HeapOrdered
  BY DEF DInv, TInv, OrderInv, EntriesInv, HeapOrdered, Smaller
<1> QED
  BY <1>1, DecayInvariance, PTL

\* All but one of the entries are a capacity less one.
LEMMA SurviveByInv == DInv => LargestSurvive
<1> SUFFICES ASSUME DInv, hpc = "idle", Numbers, NEW e \in entries, \A i \in 1 .. size : heap[i] # e
             PROVE  Cardinality({i \in 1 .. size : heap[i].k >= e.k}) >= HeapCapacity - 1
    BY DEF LargestSurvive
<1> DEFINE L == {i \in 1 .. size : heap[i].k >= e.k}
<1>1. /\ size \in Nat /\ HeapCapacity \in Nat \ {0} /\ size = Len(heap) /\ Pushed = samples
      /\ \A i \in 1 .. size : heap[i].k \in Nat /\ Now(i) = heap[i]
      /\ e \in Entry /\ e.k \in Nat
  <2>1. /\ DecayTypeOK /\ size \in Nat /\ HeapCapacity \in Nat \ {0} /\ e \in Entry
        /\ \A i \in 1 .. size : heap[i].k \in Nat
        /\ e.k \in Nat
    BY DecayFacts, NumberFacts DEF DInv, TInv
  <2>2. size = Len(heap) /\ Pushed = samples
    BY <2>1 DEF DecayTypeOK, Pushed
  <2>3. \A i \in 1 .. size : Now(i) = heap[i]
    BY <2>1 DEF Now
  <2> QED
    BY <2>1, <2>2, <2>3
<1>2. Gone(e)
  BY <1>1 DEF Gone
<1>3. /\ Pushed >= HeapCapacity
      /\ \A i, j \in 1 .. size : heap[i].k < e.k /\ heap[j].k < e.k => i = j
  BY <1>1, <1>2 DEF DInv, SurviveInv, Below
<1>4. size = HeapCapacity
  BY <1>1, <1>3 DEF DInv, TInv, DecayTypeOK
<1>5. IsFiniteSet(1 .. size) /\ Cardinality(1 .. size) = size
  <2>1. 1 \in Int /\ size \in Int /\ size - 1 + 1 = size /\ ~ (1 > size)
    BY <1>1, <1>4
  <2> QED
    BY <2>1, FS_Interval
<1>6. CASE \A i \in 1 .. size : heap[i].k >= e.k
  <2>1. L = 1 .. size
    BY <1>6
  <2> HIDE DEF L
  <2>2. Cardinality(L) >= HeapCapacity - 1
    BY <1>1, <1>4, <1>5, <2>1
  <2> QED
    BY <2>2 DEF L
<1>7. ASSUME NEW b \in 1 .. size, ~(heap[b].k >= e.k)
      PROVE  Cardinality(L) >= HeapCapacity - 1
  <2>1. heap[b].k < e.k
    BY <1>1, <1>7
  <2>2. L = (1 .. size) \ {b}
    BY <1>1, <1>3, <1>7, <2>1
  <2> HIDE DEF L
  <2>3. Cardinality((1 .. size) \ {b}) = size - 1
    BY <1>5, FS_RemoveElement
  <2> QED
    BY <1>1, <1>4, <2>2, <2>3
<1> QED
  BY <1>6, <1>7

\* An evicted entry is no larger than all but one of those that are kept, however
\* updates, evictions and rescalings follow each other, as long as no rescaling
\* has made a NaN (sample.go, ExpDecaySample.update).
THEOREM LargestEntriesSurvive == DecaySpec => []LargestSurvive
BY SurviveByInv, DecayInvariance, PTL

-----------------------------------------------------------------------------
(* The line that is logged: numbers, one after the other.                  *)

\* A set that holds zero and with every number the next holds them all.
LEMMA AllNumbers ==
  ASSUME NEW T, 0 \in T, \A k \in Nat : k \in T => k + 1 \in T
  PROVE  Nat \subseteq T
<1> SUFFICES ASSUME Nat \ T # {} PROVE FALSE
    OBVIOUS
<1>1. PICK k \in Nat \ T : \A l \in Nat \ T : k <= l
  BY LeastNumber
<1>2. k - 1 \in Nat /\ ~(k <= k - 1)
  BY <1>1
<1>3. k - 1 \in T
  BY <1>1, <1>2
<1>4. k - 1 + 1 = k
  BY <1>1
<1> QED
  BY <1>1, <1>2, <1>3, <1>4

\* The int64s, and the sums whose float64 is exact among them.
LEMMA Int64 ==
  /\ Lowest \in Int /\ Highest \in Int /\ MaxExact \in Int
  /\ Lowest + Highest = 0 - 1 /\ 0 <= MaxExact /\ MaxExact <= Highest
BY ReportingAssumption DEF Lowest

-----------------------------------------------------------------------------
(* Loops over the values of a sample.                                      *)

\* What a loop has after each turn, its turns being a function of the turn's
\* number and of what it had.
Turns(n, start, step, f) ==
  /\ f \in [0 .. n -> Int] /\ f[0] = start
  /\ \A k \in 1 .. n : f[k] = step[<<k, f[k - 1]>>]

\* One turn more.
LEMMA TurnMore ==
  ASSUME NEW n \in Nat, NEW m \in Nat, m + 1 <= n, NEW start \in Int,
         NEW step \in [(1 .. n) \X Int -> Int], NEW f, Turns(m, start, step, f)
  PROVE  \E g : Turns(m + 1, start, step, g)
<1> DEFINE last == step[<<m + 1, f[m]>>]
<1> DEFINE g == [k \in 0 .. m + 1 |-> IF k = m + 1 THEN last ELSE f[k]]
<1>1. f \in [0 .. m -> Int] /\ f[0] = start
  BY DEF Turns
<1>2. last \in Int
  <2>1. f[m] \in Int /\ m + 1 \in 1 .. n
    BY <1>1
  <2> QED
    BY <2>1
<1> HIDE DEF last
<1>3. g \in [0 .. m + 1 -> Int] /\ g[m + 1] = last /\ \A k \in 0 .. m : g[k] = f[k]
  <2>1. \A k \in 0 .. m + 1 : k = m + 1 \/ k \in 0 .. m
    OBVIOUS
  <2> QED
    BY <1>1, <1>2, <2>1
<1> HIDE DEF g
<1>4. g[0] = start
  BY <1>1, <1>3
<1>5. ASSUME NEW k \in 1 .. m + 1 PROVE g[k] = step[<<k, g[k - 1]>>]
  <2>1. CASE k = m + 1
    <3>1. k - 1 = m /\ g[m] = f[m]
      BY <1>3, <2>1
    <3> QED
      BY <1>3, <2>1, <3>1 DEF last
  <2>2. CASE k \in 1 .. m
    <3>1. f[k] = step[<<k, f[k - 1]>>]
      BY <2>2 DEF Turns
    <3>2. k \in 0 .. m /\ k - 1 \in 0 .. m
      BY <2>2
    <3> QED
      BY <1>3, <3>1, <3>2
  <2> QED
    BY <2>1, <2>2
<1>6. Turns(m + 1, start, step, g)
  BY <1>3, <1>4, <1>5 DEF Turns
<1> QED
  BY <1>6

\* However many turns a loop takes, it has something after each.
LEMMA TurnsExist ==
  ASSUME NEW n \in Nat, NEW start \in Int, NEW step \in [(1 .. n) \X Int -> Int]
  PROVE  \E f : Turns(n, start, step, f)
<1> DEFINE T == {m \in Nat : m <= n => \E f : Turns(m, start, step, f)}
<1>1. 0 \in T
  <2> DEFINE f == [k \in 0 .. 0 |-> start]
  <2>1. f \in [0 .. 0 -> Int] /\ f[0] = start
    OBVIOUS
  <2> HIDE DEF f
  <2>2. \A k \in 1 .. 0 : f[k] = step[<<k, f[k - 1]>>]
    OBVIOUS
  <2>3. Turns(0, start, step, f)
    BY <2>1, <2>2 DEF Turns
  <2> QED
    BY <2>3
<1>2. ASSUME NEW m \in Nat, m \in T PROVE m + 1 \in T
  <2> SUFFICES ASSUME m + 1 <= n PROVE \E g : Turns(m + 1, start, step, g)
      OBVIOUS
  <2>1. PICK f : Turns(m, start, step, f)
    <3>1. m <= n
      OBVIOUS
    <3> QED
      BY <1>2, <3>1
  <2> QED
    BY <2>1, TurnMore
<1>3. n \in T
  <2> HIDE DEF T
  <2>1. Nat \subseteq T
    BY <1>1, <1>2, AllNumbers
  <2> QED
    BY <2>1
<1> QED
  BY <1>3

\* A function whose places follow from each other is the turns of the loop.
LEMMA TurnsOnly ==
  ASSUME NEW n \in Nat, NEW start \in Int, NEW step \in [(1 .. n) \X Int -> Int],
         NEW f, f = [k \in 0 .. n |-> f[k]], f[0] = start,
         \A k \in 1 .. n : f[k - 1] \in Int => f[k] = step[<<k, f[k - 1]>>]
  PROVE  Turns(n, start, step, f)
<1> DEFINE T == {k \in Nat : k <= n => f[k] \in Int}
<1>1. 0 \in T
  OBVIOUS
<1>2. ASSUME NEW k \in Nat, k \in T PROVE k + 1 \in T
  <2> SUFFICES ASSUME k + 1 <= n PROVE f[k + 1] \in Int
      OBVIOUS
  <2> DEFINE j == k + 1
  <2>1. j \in 1 .. n /\ j - 1 = k
    OBVIOUS
  <2> HIDE DEF j
  <2>2. f[j - 1] \in Int
    BY <1>2, <2>1
  <2>3. f[j] = step[<<j, f[j - 1]>>]
    BY <2>1, <2>2
  <2>4. f[j] \in Int
    BY <2>1, <2>2, <2>3
  <2> QED
    BY <2>4 DEF j
<1>3. \A k \in 0 .. n : f[k] \in Int
  <2> HIDE DEF T
  <2>1. Nat \subseteq T
    BY <1>1, <1>2, AllNumbers
  <2> QED
    BY <2>1 DEF T
<1>4. f \in [0 .. n -> Int]
  BY <1>3
<1>5. \A k \in 1 .. n : f[k] = step[<<k, f[k - 1]>>]
  <2>1. \A k \in 1 .. n : k - 1 \in 0 .. n
    OBVIOUS
  <2> QED
    BY <1>3, <2>1
<1> QED
  BY <1>4, <1>5 DEF Turns

\* A turn of SampleMax's loop.
MaxStep(s) == [x \in (1 .. Len(s)) \X Int |-> IF x[2] < s[x[1]].v THEN s[x[1]].v ELSE x[2]]

\* What SampleMax returns is what that loop has at its end.
LEMMA MaxRun ==
  ASSUME NEW s, s # <<>>, Len(s) \in Nat, \A i \in 1 .. Len(s) : s[i].v \in Int
  PROVE  \E f : /\ Turns(Len(s), Lowest, MaxStep(s), f) /\ SampleMax(s) = f[Len(s)]
                /\ \A k \in 1 .. Len(s) : f[k] = IF f[k - 1] < s[k].v THEN s[k].v ELSE f[k - 1]
<1> DEFINE n == Len(s)
<1> DEFINE turn(f, k) == IF f[k - 1] < s[k].v THEN s[k].v ELSE f[k - 1]
<1> DEFINE Is(f) == f = [k \in 0 .. n |-> IF k = 0 THEN Lowest ELSE turn(f, k)]
<1> DEFINE step == MaxStep(s)
<1>1. n \in Nat /\ Lowest \in Int
  BY Int64
<1>2. step \in [(1 .. n) \X Int -> Int]
  BY DEF MaxStep
<1>3. ASSUME NEW k \in 1 .. n, NEW f, f[k - 1] \in Int PROVE step[<<k, f[k - 1]>>] = turn(f, k)
  <2> DEFINE y == f[k - 1]
  <2>1. y \in Int /\ <<k, y>> \in (1 .. n) \X Int /\ <<k, y>>[1] = k /\ <<k, y>>[2] = y
    BY <1>3
  <2> HIDE DEF y
  <2>2. step[<<k, y>>] = IF y < s[k].v THEN s[k].v ELSE y
    BY <2>1 DEF MaxStep
  <2> QED
    BY <2>2 DEF y
<1> HIDE DEF step, turn
<1>4. ASSUME NEW f, Turns(n, Lowest, step, f) PROVE Is(f)
  <2>1. f \in [0 .. n -> Int] /\ f[0] = Lowest
    BY <1>4 DEF Turns
  <2>2. ASSUME NEW k \in 1 .. n PROVE f[k] = turn(f, k)
    <3>1. k - 1 \in 0 .. n /\ f[k - 1] \in Int
      BY <1>1, <2>1
    <3> QED
      BY <1>3, <1>4, <3>1 DEF Turns
  <2>3. \A k \in 0 .. n : k = 0 \/ k \in 1 .. n
    BY <1>1
  <2>4. \A k \in 0 .. n : f[k] = IF k = 0 THEN Lowest ELSE turn(f, k)
    BY <2>1, <2>2, <2>3
  <2> QED
    BY <2>1, <2>4
<1>5. ASSUME NEW f, Is(f) PROVE Turns(n, Lowest, step, f) /\ \A k \in 1 .. n : f[k] = turn(f, k)
  <2>1. 0 \in 0 .. n /\ \A k \in 1 .. n : k \in 0 .. n /\ k # 0
    BY <1>1
  <2>2. f = [k \in 0 .. n |-> f[k]] /\ f[0] = Lowest /\ \A k \in 1 .. n : f[k] = turn(f, k)
    BY <1>5, <2>1
  <2>3. \A k \in 1 .. n : f[k - 1] \in Int => f[k] = step[<<k, f[k - 1]>>]
    BY <1>3, <2>2
  <2> QED
    BY <1>1, <1>2, <2>2, <2>3, TurnsOnly
<1> DEFINE f == CHOOSE f : Is(f)
<1>6. Is(f)
  <2> HIDE DEF Is
  <2>1. \E g : Is(g)
    BY <1>1, <1>2, <1>4, TurnsExist
  <2> QED
    BY <2>1, Zenon
<1>7. SampleMax(s) = f[n]
  BY Zenon DEF SampleMax, Loop, turn
<1> QED
  <2> HIDE DEF f, Is
  <2>1. Turns(n, Lowest, step, f) /\ \A k \in 1 .. n : f[k] = turn(f, k)
    BY <1>5, <1>6
  <2> QED
    BY <1>7, <2>1 DEF step, turn

\* A turn of SampleMin's loop.
MinStep(s) == [x \in (1 .. Len(s)) \X Int |-> IF x[2] > s[x[1]].v THEN s[x[1]].v ELSE x[2]]

\* What SampleMin returns is what that loop has at its end.
LEMMA MinRun ==
  ASSUME NEW s, s # <<>>, Len(s) \in Nat, \A i \in 1 .. Len(s) : s[i].v \in Int
  PROVE  \E f : /\ Turns(Len(s), Highest, MinStep(s), f) /\ SampleMin(s) = f[Len(s)]
                /\ \A k \in 1 .. Len(s) : f[k] = IF f[k - 1] > s[k].v THEN s[k].v ELSE f[k - 1]
<1> DEFINE n == Len(s)
<1> DEFINE turn(f, k) == IF f[k - 1] > s[k].v THEN s[k].v ELSE f[k - 1]
<1> DEFINE Is(f) == f = [k \in 0 .. n |-> IF k = 0 THEN Highest ELSE turn(f, k)]
<1> DEFINE step == MinStep(s)
<1>1. n \in Nat /\ Highest \in Int
  BY Int64
<1>2. step \in [(1 .. n) \X Int -> Int]
  BY DEF MinStep
<1>3. ASSUME NEW k \in 1 .. n, NEW f, f[k - 1] \in Int PROVE step[<<k, f[k - 1]>>] = turn(f, k)
  <2> DEFINE y == f[k - 1]
  <2>1. y \in Int /\ <<k, y>> \in (1 .. n) \X Int /\ <<k, y>>[1] = k /\ <<k, y>>[2] = y
    BY <1>3
  <2> HIDE DEF y
  <2>2. step[<<k, y>>] = IF y > s[k].v THEN s[k].v ELSE y
    BY <2>1 DEF MinStep
  <2> QED
    BY <2>2 DEF y
<1> HIDE DEF step, turn
<1>4. ASSUME NEW f, Turns(n, Highest, step, f) PROVE Is(f)
  <2>1. f \in [0 .. n -> Int] /\ f[0] = Highest
    BY <1>4 DEF Turns
  <2>2. ASSUME NEW k \in 1 .. n PROVE f[k] = turn(f, k)
    <3>1. k - 1 \in 0 .. n /\ f[k - 1] \in Int
      BY <1>1, <2>1
    <3> QED
      BY <1>3, <1>4, <3>1 DEF Turns
  <2>3. \A k \in 0 .. n : k = 0 \/ k \in 1 .. n
    BY <1>1
  <2>4. \A k \in 0 .. n : f[k] = IF k = 0 THEN Highest ELSE turn(f, k)
    BY <2>1, <2>2, <2>3
  <2> QED
    BY <2>1, <2>4
<1>5. ASSUME NEW f, Is(f) PROVE Turns(n, Highest, step, f) /\ \A k \in 1 .. n : f[k] = turn(f, k)
  <2>1. 0 \in 0 .. n /\ \A k \in 1 .. n : k \in 0 .. n /\ k # 0
    BY <1>1
  <2>2. f = [k \in 0 .. n |-> f[k]] /\ f[0] = Highest /\ \A k \in 1 .. n : f[k] = turn(f, k)
    BY <1>5, <2>1
  <2>3. \A k \in 1 .. n : f[k - 1] \in Int => f[k] = step[<<k, f[k - 1]>>]
    BY <1>3, <2>2
  <2> QED
    BY <1>1, <1>2, <2>2, <2>3, TurnsOnly
<1> DEFINE f == CHOOSE f : Is(f)
<1>6. Is(f)
  <2> HIDE DEF Is
  <2>1. \E g : Is(g)
    BY <1>1, <1>2, <1>4, TurnsExist
  <2> QED
    BY <2>1, Zenon
<1>7. SampleMin(s) = f[n]
  BY Zenon DEF SampleMin, Loop, turn
<1> QED
  <2> HIDE DEF f, Is
  <2>1. Turns(n, Highest, step, f) /\ \A k \in 1 .. n : f[k] = turn(f, k)
    BY <1>5, <1>6
  <2> QED
    BY <1>7, <2>1 DEF step, turn

\* A turn of the exact sum's loop.
ExactStep(s) == [x \in (1 .. Len(s)) \X Int |-> x[2] + s[x[1]].v]

\* What ExactSum returns is what that loop has at its end.
LEMMA ExactRun ==
  ASSUME NEW s, Len(s) \in Nat, \A i \in 1 .. Len(s) : s[i].v \in Int
  PROVE  \E f : /\ Turns(Len(s), 0, ExactStep(s), f) /\ ExactSum(s) = f[Len(s)]
                /\ \A k \in 1 .. Len(s) : f[k] = f[k - 1] + s[k].v
<1> DEFINE n == Len(s)
<1> DEFINE turn(f, k) == f[k - 1] + s[k].v
<1> DEFINE Is(f) == f = [k \in 0 .. n |-> IF k = 0 THEN 0 ELSE turn(f, k)]
<1> DEFINE step == ExactStep(s)
<1>1. n \in Nat /\ 0 \in Int
  OBVIOUS
<1>2. step \in [(1 .. n) \X Int -> Int]
  BY DEF ExactStep
<1>3. ASSUME NEW k \in 1 .. n, NEW f, f[k - 1] \in Int PROVE step[<<k, f[k - 1]>>] = turn(f, k)
  <2> DEFINE y == f[k - 1]
  <2>1. y \in Int /\ <<k, y>> \in (1 .. n) \X Int /\ <<k, y>>[1] = k /\ <<k, y>>[2] = y
    BY <1>3
  <2> HIDE DEF y
  <2>2. step[<<k, y>>] = y + s[k].v
    BY <2>1 DEF ExactStep
  <2> QED
    BY <2>2 DEF y
<1> HIDE DEF step, turn
<1>4. ASSUME NEW f, Turns(n, 0, step, f) PROVE Is(f)
  <2>1. f \in [0 .. n -> Int] /\ f[0] = 0
    BY <1>4 DEF Turns
  <2>2. ASSUME NEW k \in 1 .. n PROVE f[k] = turn(f, k)
    <3>1. k - 1 \in 0 .. n /\ f[k - 1] \in Int
      BY <1>1, <2>1
    <3> QED
      BY <1>3, <1>4, <3>1 DEF Turns
  <2>3. \A k \in 0 .. n : k = 0 \/ k \in 1 .. n
    BY <1>1
  <2>4. \A k \in 0 .. n : f[k] = IF k = 0 THEN 0 ELSE turn(f, k)
    BY <2>1, <2>2, <2>3
  <2> QED
    BY <2>1, <2>4
<1>5. ASSUME NEW f, Is(f) PROVE Turns(n, 0, step, f) /\ \A k \in 1 .. n : f[k] = turn(f, k)
  <2>1. 0 \in 0 .. n /\ \A k \in 1 .. n : k \in 0 .. n /\ k # 0
    BY <1>1
  <2>2. f = [k \in 0 .. n |-> f[k]] /\ f[0] = 0 /\ \A k \in 1 .. n : f[k] = turn(f, k)
    BY <1>5, <2>1
  <2>3. \A k \in 1 .. n : f[k - 1] \in Int => f[k] = step[<<k, f[k - 1]>>]
    BY <1>3, <2>2
  <2> QED
    BY <1>1, <1>2, <2>2, <2>3, TurnsOnly
<1> DEFINE f == CHOOSE f : Is(f)
<1>6. Is(f)
  <2> HIDE DEF Is
  <2>1. \E g : Is(g)
    BY <1>1, <1>2, <1>4, TurnsExist
  <2> QED
    BY <2>1, Zenon
<1>7. ExactSum(s) = f[n]
  BY Zenon DEF ExactSum, Loop, turn
<1> QED
  <2> HIDE DEF f, Is
  <2>1. Turns(n, 0, step, f) /\ \A k \in 1 .. n : f[k] = turn(f, k)
    BY <1>5, <1>6
  <2> QED
    BY <1>7, <2>1 DEF step, turn

\* What an int64 makes of a number is an int64, and differs from it by a multiple
\* of how many there are.
LEMMA WrapIs ==
  ASSUME NEW x \in Int
  PROVE  /\ Wrap(x) \in Int /\ Lowest <= Wrap(x) /\ Wrap(x) <= Highest
         /\ \E q \in Int : Wrap(x) = x + q * (Highest - Lowest + 1)
<1> DEFINE W == Highest - Lowest + 1
<1> DEFINE y == x - Lowest
<1>1. W \in Nat \ {0} /\ y \in Int /\ Lowest \in Int /\ Highest \in Int
  BY Int64
<1>2. Wrap(x) = Lowest + (y % W) /\ Highest = Lowest + W - 1 /\ x = Lowest + y
  BY <1>1 DEF Wrap
<1> HIDE DEF W, y
<1>3. y % W \in 0 .. W - 1 /\ y \div W \in Int /\ y = W * (y \div W) + (y % W)
  BY <1>1
<1> DEFINE q == 0 - (y \div W)
<1>4. q \in Int /\ q * W = 0 - W * (y \div W)
  BY <1>1, <1>3
<1>5. Wrap(x) = x + q * W
  BY <1>1, <1>2, <1>3, <1>4
<1>6. Wrap(x) \in Int /\ Lowest <= Wrap(x) /\ Wrap(x) <= Highest
  BY <1>1, <1>2, <1>3
<1> QED
  BY <1>4, <1>5, <1>6 DEF W

\* A turn of SampleSum's loop.
SumStep(s) == [x \in (1 .. Len(s)) \X Int |-> Wrap(x[2] + s[x[1]].v)]

\* What SampleSum returns is what that loop has at its end.
LEMMA SumRun ==
  ASSUME NEW s, Len(s) \in Nat, \A i \in 1 .. Len(s) : s[i].v \in Int
  PROVE  \E f : /\ Turns(Len(s), 0, SumStep(s), f) /\ SampleSum(s) = f[Len(s)]
                /\ \A k \in 1 .. Len(s) : f[k] = Wrap(f[k - 1] + s[k].v)
<1> DEFINE n == Len(s)
<1> DEFINE turn(f, k) == Wrap(f[k - 1] + s[k].v)
<1> DEFINE Is(f) == f = [k \in 0 .. n |-> IF k = 0 THEN 0 ELSE turn(f, k)]
<1> DEFINE step == SumStep(s)
<1>1. n \in Nat /\ 0 \in Int
  OBVIOUS
<1>2. step \in [(1 .. n) \X Int -> Int]
  <2>1. ASSUME NEW x \in (1 .. n) \X Int PROVE Wrap(x[2] + s[x[1]].v) \in Int
    <3>1. x[2] + s[x[1]].v \in Int
      OBVIOUS
    <3> QED
      BY <3>1, WrapIs
  <2> QED
    BY <2>1 DEF SumStep
<1>3. ASSUME NEW k \in 1 .. n, NEW f, f[k - 1] \in Int PROVE step[<<k, f[k - 1]>>] = turn(f, k)
  <2> DEFINE y == f[k - 1]
  <2>1. y \in Int /\ <<k, y>> \in (1 .. n) \X Int /\ <<k, y>>[1] = k /\ <<k, y>>[2] = y
    BY <1>3
  <2> HIDE DEF y
  <2>2. step[<<k, y>>] = Wrap(y + s[k].v)
    BY <2>1 DEF SumStep
  <2> QED
    BY <2>2 DEF y
<1> HIDE DEF step, turn
<1>4. ASSUME NEW f, Turns(n, 0, step, f) PROVE Is(f)
  <2>1. f \in [0 .. n -> Int] /\ f[0] = 0
    BY <1>4 DEF Turns
  <2>2. ASSUME NEW k \in 1 .. n PROVE f[k] = turn(f, k)
    <3>1. k - 1 \in 0 .. n /\ f[k - 1] \in Int
      BY <1>1, <2>1
    <3> QED
      BY <1>3, <1>4, <3>1 DEF Turns
  <2>3. \A k \in 0 .. n : k = 0 \/ k \in 1 .. n
    BY <1>1
  <2>4. \A k \in 0 .. n : f[k] = IF k = 0 THEN 0 ELSE turn(f, k)
    BY <2>1, <2>2, <2>3
  <2> QED
    BY <2>1, <2>4
<1>5. ASSUME NEW f, Is(f) PROVE Turns(n, 0, step, f) /\ \A k \in 1 .. n : f[k] = turn(f, k)
  <2>1. 0 \in 0 .. n /\ \A k \in 1 .. n : k \in 0 .. n /\ k # 0
    BY <1>1
  <2>2. f = [k \in 0 .. n |-> f[k]] /\ f[0] = 0 /\ \A k \in 1 .. n : f[k] = turn(f, k)
    BY <1>5, <2>1
  <2>3. \A k \in 1 .. n : f[k - 1] \in Int => f[k] = step[<<k, f[k - 1]>>]
    BY <1>3, <2>2
  <2> QED
    BY <1>1, <1>2, <2>2, <2>3, TurnsOnly
<1> DEFINE f == CHOOSE f : Is(f)
<1>6. Is(f)
  <2> HIDE DEF Is
  <2>1. \E g : Is(g)
    BY <1>1, <1>2, <1>4, TurnsExist
  <2> QED
    BY <2>1, Zenon
<1>7. SampleSum(s) = f[n]
  BY Zenon DEF SampleSum, Loop, turn
<1> QED
  <2> HIDE DEF f, Is
  <2>1. Turns(n, 0, step, f) /\ \A k \in 1 .. n : f[k] = turn(f, k)
    BY <1>5, <1>6
  <2> QED
    BY <1>7, <2>1 DEF step, turn

\* A turn of SampleVariance's loop.
VarianceStep(s) == [x \in (1 .. Len(s)) \X Int |-> x[2] + (Len(s) * s[x[1]].v - SampleSum(s)) * (Len(s) * s[x[1]].v - SampleSum(s))]

\* What SampleVariance returns is what that loop has at its end.
LEMMA VarianceRun ==
  ASSUME NEW s, s # <<>>, Len(s) \in Nat, \A i \in 1 .. Len(s) : s[i].v \in Int, SampleSum(s) \in Int
  PROVE  \E f : /\ Turns(Len(s), 0, VarianceStep(s), f) /\ SampleVariance(s) = f[Len(s)]
                /\ \A k \in 1 .. Len(s) : f[k] = f[k - 1] + (Len(s) * s[k].v - SampleSum(s)) * (Len(s) * s[k].v - SampleSum(s))
<1> DEFINE n == Len(s)
<1> DEFINE turn(f, k) == f[k - 1] + (Len(s) * s[k].v - SampleSum(s)) * (Len(s) * s[k].v - SampleSum(s))
<1> DEFINE Is(f) == f = [k \in 0 .. n |-> IF k = 0 THEN 0 ELSE turn(f, k)]
<1> DEFINE step == VarianceStep(s)
<1>1. n \in Nat /\ 0 \in Int
  OBVIOUS
<1>2. step \in [(1 .. n) \X Int -> Int]
  BY DEF VarianceStep
<1>3. ASSUME NEW k \in 1 .. n, NEW f, f[k - 1] \in Int PROVE step[<<k, f[k - 1]>>] = turn(f, k)
  <2> DEFINE y == f[k - 1]
  <2>1. y \in Int /\ <<k, y>> \in (1 .. n) \X Int /\ <<k, y>>[1] = k /\ <<k, y>>[2] = y
    BY <1>3
  <2> HIDE DEF y
  <2>2. step[<<k, y>>] = y + (Len(s) * s[k].v - SampleSum(s)) * (Len(s) * s[k].v - SampleSum(s))
    BY <2>1 DEF VarianceStep
  <2> QED
    BY <2>2 DEF y
<1> HIDE DEF step, turn
<1>4. ASSUME NEW f, Turns(n, 0, step, f) PROVE Is(f)
  <2>1. f \in [0 .. n -> Int] /\ f[0] = 0
    BY <1>4 DEF Turns
  <2>2. ASSUME NEW k \in 1 .. n PROVE f[k] = turn(f, k)
    <3>1. k - 1 \in 0 .. n /\ f[k - 1] \in Int
      BY <1>1, <2>1
    <3> QED
      BY <1>3, <1>4, <3>1 DEF Turns
  <2>3. \A k \in 0 .. n : k = 0 \/ k \in 1 .. n
    BY <1>1
  <2>4. \A k \in 0 .. n : f[k] = IF k = 0 THEN 0 ELSE turn(f, k)
    BY <2>1, <2>2, <2>3
  <2> QED
    BY <2>1, <2>4
<1>5. ASSUME NEW f, Is(f) PROVE Turns(n, 0, step, f) /\ \A k \in 1 .. n : f[k] = turn(f, k)
  <2>1. 0 \in 0 .. n /\ \A k \in 1 .. n : k \in 0 .. n /\ k # 0
    BY <1>1
  <2>2. f = [k \in 0 .. n |-> f[k]] /\ f[0] = 0 /\ \A k \in 1 .. n : f[k] = turn(f, k)
    BY <1>5, <2>1
  <2>3. \A k \in 1 .. n : f[k - 1] \in Int => f[k] = step[<<k, f[k - 1]>>]
    BY <1>3, <2>2
  <2> QED
    BY <1>1, <1>2, <2>2, <2>3, TurnsOnly
<1> DEFINE f == CHOOSE f : Is(f)
<1>6. Is(f)
  <2> HIDE DEF Is
  <2>1. \E g : Is(g)
    BY <1>1, <1>2, <1>4, TurnsExist
  <2> QED
    BY <2>1, Zenon
<1>7. SampleVariance(s) = f[n]
  BY Zenon DEF SampleVariance, Loop, turn
<1> QED
  <2> HIDE DEF f, Is
  <2>1. Turns(n, 0, step, f) /\ \A k \in 1 .. n : f[k] = turn(f, k)
    BY <1>5, <1>6
  <2> QED
    BY <1>7, <2>1 DEF step, turn

-----------------------------------------------------------------------------
(* What those loops leave.                                                 *)

\* A sample that is not empty, of numbers a run of the program can hold.
Sample(s) ==
  /\ Len(s) \in Nat \ {0} /\ DOMAIN s = 1 .. Len(s)
  /\ \A i \in 1 .. Len(s) : s[i].v \in Int /\ Lowest <= s[i].v /\ s[i].v <= Highest

\* What holds after the first turn, and with every turn after the next, holds
\* at the end.
LEMMA AfterEveryTurn ==
  ASSUME NEW n \in Nat \ {0}, NEW T, 1 \in T, \A k \in 1 .. n : k < n /\ k \in T => k + 1 \in T
  PROVE  n \in T
<1> DEFINE U == {k \in Nat : k \in 1 .. n => k \in T}
<1>1. 0 \in U
  OBVIOUS
<1>2. ASSUME NEW k \in Nat, k \in U PROVE k + 1 \in U
  <2>1. CASE k = 0
    BY <2>1
  <2>2. CASE k # 0 /\ k + 1 <= n
    <3>1. k \in 1 .. n /\ k < n /\ k \in T
      BY <1>2, <2>2
    <3> QED
      BY <3>1
  <2>3. CASE ~ (k + 1 <= n)
    BY <2>3
  <2> QED
    BY <2>1, <2>2, <2>3
<1> HIDE DEF U
<1>3. Nat \subseteq U
  BY <1>1, <1>2, AllNumbers
<1> QED
  BY <1>3 DEF U

\* The maximum is one of the values and bounds them, however low they are.
LEMMA MaxIsRight ==
  ASSUME NEW s, Sample(s)
  PROVE  /\ SampleMax(s) \in Int /\ \E i \in 1 .. Len(s) : SampleMax(s) = s[i].v
         /\ \A i \in 1 .. Len(s) : s[i].v <= SampleMax(s)
<1> DEFINE n == Len(s)
<1>1. n \in Nat \ {0} /\ Lowest \in Int /\ \A i \in 1 .. n : s[i].v \in Int /\ Lowest <= s[i].v
  BY Int64 DEF Sample
<1>a. s # <<>>
  BY DEF Sample
<1>2. PICK f : /\ f[0] = Lowest /\ SampleMax(s) = f[n]
               /\ \A k \in 1 .. n : f[k] = IF f[k - 1] < s[k].v THEN s[k].v ELSE f[k - 1]
  BY <1>1, <1>a, MaxRun DEF Turns
<1> DEFINE Right(k) == /\ \E i \in 1 .. k : f[k] = s[i].v
                       /\ \A i \in 1 .. k : s[i].v <= f[k]
<1> DEFINE T == {k \in 1 .. n : Right(k)}
<1>3. 1 \in T
  <2>1. 1 \in 1 .. n /\ f[1 - 1] = Lowest
    BY <1>1, <1>2
  <2>2. f[1] = s[1].v
    BY <1>1, <1>2, <2>1
  <2> QED
    BY <1>1, <2>1, <2>2
<1>4. ASSUME NEW k \in 1 .. n, k < n, k \in T PROVE k + 1 \in T
  <2> DEFINE j == k + 1
  <2>1. j \in 1 .. n /\ j - 1 = k /\ k \in 1 .. j /\ \A i \in 1 .. j : i = j \/ i \in 1 .. k
    BY <1>1, <1>4
  <2>2. PICK i \in 1 .. k : f[k] = s[i].v
    BY <1>4
  <2>3. f[k] \in Int /\ i \in 1 .. j
    BY <1>1, <2>1, <2>2
  <2>4. \A l \in 1 .. k : s[l].v <= f[k] /\ s[l].v \in Int
    BY <1>1, <1>4
  <2> HIDE DEF j
  <2>5. f[j] = IF f[k] < s[j].v THEN s[j].v ELSE f[k]
    BY <1>2, <2>1
  <2>6. s[j].v \in Int /\ f[k] <= f[j] /\ s[j].v <= f[j] /\ f[j] \in Int
    BY <1>1, <2>1, <2>3, <2>5
  <2>7. \A l \in 1 .. j : s[l].v <= f[j]
    BY <2>1, <2>3, <2>4, <2>6
  <2>8. \E l \in 1 .. j : f[j] = s[l].v
    BY <2>1, <2>2, <2>3, <2>5
  <2>9. j \in T
    BY <2>1, <2>7, <2>8
  <2> QED
    BY <2>9 DEF j
<1>5. n \in T
  <2> HIDE DEF T
  <2> QED
    BY <1>1, <1>3, <1>4, AfterEveryTurn
<1> QED
  BY <1>1, <1>2, <1>5

\* The minimum is one of the values and bounds them, however high they are.
LEMMA MinIsRight ==
  ASSUME NEW s, Sample(s)
  PROVE  /\ SampleMin(s) \in Int /\ \E i \in 1 .. Len(s) : SampleMin(s) = s[i].v
         /\ \A i \in 1 .. Len(s) : SampleMin(s) <= s[i].v
<1> DEFINE n == Len(s)
<1>1. n \in Nat \ {0} /\ Highest \in Int /\ \A i \in 1 .. n : s[i].v \in Int /\ s[i].v <= Highest
  BY Int64 DEF Sample
<1>a. s # <<>>
  BY DEF Sample
<1>2. PICK f : /\ f[0] = Highest /\ SampleMin(s) = f[n]
               /\ \A k \in 1 .. n : f[k] = IF f[k - 1] > s[k].v THEN s[k].v ELSE f[k - 1]
  BY <1>1, <1>a, MinRun DEF Turns
<1> DEFINE Right(k) == /\ \E i \in 1 .. k : f[k] = s[i].v
                       /\ \A i \in 1 .. k : f[k] <= s[i].v
<1> DEFINE T == {k \in 1 .. n : Right(k)}
<1>3. 1 \in T
  <2>1. 1 \in 1 .. n /\ f[1 - 1] = Highest
    BY <1>1, <1>2
  <2>2. f[1] = s[1].v
    BY <1>1, <1>2, <2>1
  <2> QED
    BY <1>1, <2>1, <2>2
<1>4. ASSUME NEW k \in 1 .. n, k < n, k \in T PROVE k + 1 \in T
  <2> DEFINE j == k + 1
  <2>1. j \in 1 .. n /\ j - 1 = k /\ k \in 1 .. j /\ \A i \in 1 .. j : i = j \/ i \in 1 .. k
    BY <1>1, <1>4
  <2>2. PICK i \in 1 .. k : f[k] = s[i].v
    BY <1>4
  <2>3. f[k] \in Int /\ i \in 1 .. j
    BY <1>1, <2>1, <2>2
  <2>4. \A l \in 1 .. k : f[k] <= s[l].v /\ s[l].v \in Int
    BY <1>1, <1>4
  <2> HIDE DEF j
  <2>5. f[j] = IF f[k] > s[j].v THEN s[j].v ELSE f[k]
    BY <1>2, <2>1
  <2>6. s[j].v \in Int /\ f[j] <= f[k] /\ f[j] <= s[j].v /\ f[j] \in Int
    BY <1>1, <2>1, <2>3, <2>5
  <2>7. \A l \in 1 .. j : f[j] <= s[l].v
    BY <2>1, <2>3, <2>4, <2>6
  <2>8. \E l \in 1 .. j : f[j] = s[l].v
    BY <2>1, <2>2, <2>3, <2>5
  <2>9. j \in T
    BY <2>1, <2>7, <2>8
  <2> QED
    BY <2>9 DEF j
<1>5. n \in T
  <2> HIDE DEF T
  <2> QED
    BY <1>1, <1>3, <1>4, AfterEveryTurn
<1> QED
  BY <1>1, <1>2, <1>5

-----------------------------------------------------------------------------
(* Products.                                                               *)

\* A product grows with a factor if the other is not negative.
LEMMA ProductGrows ==
  ASSUME NEW a \in Nat, NEW x \in Int, NEW y \in Int, x <= y
  PROVE  a * x <= a * y /\ a * x \in Int /\ a * y \in Int
<1>1. y - x \in Nat /\ a * (y - x) \in Nat
  OBVIOUS
<1>2. a * y = a * x + a * (y - x)
  OBVIOUS
<1> QED
  BY <1>1, <1>2

\* A factor that is not zero can be taken away.
LEMMA ProductTells ==
  ASSUME NEW a \in Nat \ {0}, NEW x \in Int, NEW y \in Int, a * x <= a * y
  PROVE  x <= y
<1> SUFFICES ASSUME y < x PROVE FALSE
    OBVIOUS
<1>1. a * (y + 1) <= a * x
  BY ProductGrows
<1>2. a * (y + 1) = a * y + a
  OBVIOUS
<1> QED
  BY <1>1, <1>2

\* A square is not negative, and zero only for zero.
LEMMA Squares ==
  ASSUME NEW x \in Int
  PROVE  x * x \in Nat /\ (x * x = 0 <=> x = 0)
<1>1. CASE x >= 0
  BY <1>1
<1>2. CASE x < 0
  <2>1. (0 - x) * (0 - x) = x * x
    OBVIOUS
  <2> QED
    BY <1>2, <2>1
<1> QED
  BY <1>1, <1>2

\* The exact sum lies between as many times the minimum and as many times the maximum.
LEMMA ExactIsRight ==
  ASSUME NEW s, Sample(s), NEW min \in Int, NEW max \in Int,
         \A i \in 1 .. Len(s) : min <= s[i].v /\ s[i].v <= max
  PROVE  ExactSum(s) \in Int /\ Len(s) * min <= ExactSum(s) /\ ExactSum(s) <= Len(s) * max
<1> DEFINE n == Len(s)
<1>1. n \in Nat \ {0} /\ \A i \in 1 .. n : s[i].v \in Int
  BY DEF Sample
<1>2. PICK f : /\ f \in [0 .. n -> Int] /\ f[0] = 0 /\ ExactSum(s) = f[n]
               /\ \A k \in 1 .. n : f[k] = f[k - 1] + s[k].v
  BY <1>1, ExactRun DEF Turns
<1> DEFINE T == {k \in 1 .. n : k * min <= f[k] /\ f[k] <= k * max}
<1>3. 1 \in T
  <2>1. 1 \in 1 .. n /\ f[1 - 1] = 0
    BY <1>1, <1>2
  <2>2. f[1] = 0 + s[1].v
    BY <1>2, <2>1
  <2> QED
    BY <1>1, <2>1, <2>2
<1>4. ASSUME NEW k \in 1 .. n, k < n, k \in T PROVE k + 1 \in T
  <2> DEFINE j == k + 1
  <2>1. j \in 1 .. n /\ j - 1 = k /\ k \in 0 .. n
    BY <1>1, <1>4
  <2>2. j * min = k * min + min /\ j * max = k * max + max
    OBVIOUS
  <2> HIDE DEF j
  <2>3. f[j] = f[k] + s[j].v
    BY <1>2, <2>1
  <2>4. min <= s[j].v /\ s[j].v <= max /\ s[j].v \in Int /\ f[k] \in Int
    BY <1>1, <1>2, <2>1
  <2>5. k * min <= f[k] /\ f[k] <= k * max /\ k * min \in Int /\ k * max \in Int
    BY <1>4
  <2>6. j \in T
    BY <2>1, <2>2, <2>3, <2>4, <2>5
  <2> QED
    BY <2>6 DEF j
<1>5. n \in T
  <2> HIDE DEF T
  <2> QED
    BY <1>1, <1>3, <1>4, AfterEveryTurn
<1>6. f[n] \in Int
  BY <1>1, <1>2
<1> QED
  BY <1>2, <1>5, <1>6

\* A multiple of a positive number that lies strictly between it and its negative
\* is zero.
LEMMA NoMultiple ==
  ASSUME NEW q \in Int, NEW w \in Nat \ {0}, q * w < w, 0 - w < q * w
  PROVE  q * w = 0
<1>1. CASE q >= 1
  <2>1. w * 1 <= w * q
    BY <1>1, ProductGrows
  <2> QED
    BY <2>1
<1>2. CASE q <= 0 - 1
  <2>1. w * q <= w * (0 - 1)
    BY <1>2, ProductGrows
  <2>2. w * (0 - 1) = 0 - w
    OBVIOUS
  <2> QED
    BY <2>1, <2>2
<1>3. CASE q = 0
  BY <1>3
<1> QED
  BY <1>1, <1>2, <1>3

\* Whatever wraps on the way, the sum differs from the exact one by a multiple of
\* the number of int64s, so that it is the exact one if that is an int64.
LEMMA SumFits ==
  ASSUME NEW s, Sample(s)
  PROVE  /\ SampleSum(s) \in Int
         /\ ExactSum(s) \in Lowest .. Highest => SampleSum(s) = ExactSum(s)
<1> DEFINE n == Len(s)
<1> DEFINE W == Highest - Lowest + 1
<1>1. n \in Nat \ {0} /\ \A i \in 1 .. n : s[i].v \in Int
  BY DEF Sample
<1>2. PICK f : /\ f \in [0 .. n -> Int] /\ f[0] = 0 /\ ExactSum(s) = f[n]
               /\ \A k \in 1 .. n : f[k] = f[k - 1] + s[k].v
  BY <1>1, ExactRun DEF Turns
<1>3. PICK g : /\ g \in [0 .. n -> Int] /\ g[0] = 0 /\ SampleSum(s) = g[n]
               /\ \A k \in 1 .. n : g[k] = Wrap(g[k - 1] + s[k].v)
  BY <1>1, SumRun DEF Turns
<1> DEFINE Off(k) == \E q \in Int : g[k] = f[k] + q * W
<1> DEFINE T == {k \in 1 .. n : Off(k) /\ Lowest <= g[k] /\ g[k] <= Highest}
<1>4. W \in Nat \ {0} /\ Lowest \in Int /\ Highest \in Int
  BY Int64
<1>5. ASSUME NEW k \in 0 .. n, k < n, Off(k) PROVE k + 1 \in T
  <2> DEFINE j == k + 1
  <2>1. j \in 1 .. n /\ j - 1 = k
    BY <1>1, <1>5
  <2> HIDE DEF j
  <2>2. f[j] = f[k] + s[j].v /\ g[j] = Wrap(g[k] + s[j].v)
    BY <1>2, <1>3, <2>1
  <2>3. f[k] \in Int /\ g[k] \in Int /\ s[j].v \in Int
    BY <1>1, <1>2, <1>3, <2>1
  <2>4. PICK q \in Int : g[k] = f[k] + q * W
    BY <1>5
  <2>5. /\ Lowest <= g[j] /\ g[j] <= Highest
        /\ \E r \in Int : g[j] = g[k] + s[j].v + r * W
    <3> DEFINE x == g[k] + s[j].v
    <3>1. x \in Int
      BY <2>3
    <3> HIDE DEF x
    <3>2. Lowest <= Wrap(x) /\ Wrap(x) <= Highest /\ \E r \in Int : Wrap(x) = x + r * W
      BY <3>1, WrapIs
    <3> QED
      BY <2>2, <3>2 DEF x
  <2>6. PICK r \in Int : g[j] = g[k] + s[j].v + r * W
    BY <2>5
  <2> HIDE DEF W
  <2>7. (q + r) * W = q * W + r * W /\ q + r \in Int /\ q * W \in Int /\ r * W \in Int
    BY <1>4
  <2>8. g[j] = f[j] + (q + r) * W
    BY <2>2, <2>3, <2>4, <2>6, <2>7
  <2>9. j \in T
    BY <2>1, <2>5, <2>7, <2>8
  <2> QED
    BY <2>9 DEF j
<1>6. 1 \in T
  <2>1. 0 \in 0 .. n /\ 0 < n /\ g[0] = f[0] + 0 * W
    BY <1>1, <1>2, <1>3, <1>4
  <2> HIDE DEF T
  <2>2. 0 + 1 \in T
    BY <1>5, <2>1
  <2> QED
    BY <2>2
<1>7. n \in T
  <2>1. ASSUME NEW k \in 1 .. n, k < n, k \in T PROVE k + 1 \in T
    <3>1. k \in 0 .. n /\ Off(k)
      BY <1>1, <2>1
    <3> HIDE DEF T, Off
    <3> QED
      BY <1>5, <2>1, <3>1
  <2> HIDE DEF T
  <2> QED
    BY <1>1, <1>6, <2>1, AfterEveryTurn
<1>8. ASSUME f[n] \in Lowest .. Highest PROVE g[n] = f[n]
  <2>1. PICK q \in Int : g[n] = f[n] + q * W
    BY <1>7
  <2>2. Lowest <= g[n] /\ g[n] <= Highest /\ g[n] \in Int /\ f[n] \in Int
    BY <1>1, <1>2, <1>3, <1>7
  <2>3. Highest = Lowest + W - 1
    BY <1>4
  <2> HIDE DEF W
  <2>4. q * W \in Int
    BY <1>4
  <2>5. q * W < W /\ 0 - W < q * W
    BY <1>4, <1>8, <2>1, <2>2, <2>3, <2>4
  <2>6. q * W = 0
    BY <1>4, <2>5, NoMultiple
  <2> QED
    BY <2>1, <2>2, <2>6
<1>9. g[n] \in Int
  BY <1>1, <1>3
<1> QED
  BY <1>2, <1>3, <1>8, <1>9

\* There is no variance exactly if no value differs from the mean.
LEMMA VarianceIsRight ==
  ASSUME NEW s, Sample(s), SampleSum(s) \in Int
  PROVE  SampleVariance(s) = 0 <=> \A i \in 1 .. Len(s) : Len(s) * s[i].v - SampleSum(s) = 0
<1> DEFINE n == Len(s)
<1> DEFINE d(i) == n * s[i].v - SampleSum(s)
<1>1. n \in Nat \ {0} /\ \A i \in 1 .. n : s[i].v \in Int /\ d(i) \in Int
  BY DEF Sample
<1>a. s # <<>>
  BY DEF Sample
<1>2. PICK f : /\ f \in [0 .. n -> Int] /\ f[0] = 0 /\ SampleVariance(s) = f[n]
               /\ \A k \in 1 .. n : f[k] = f[k - 1] + d(k) * d(k)
  BY <1>1, <1>a, VarianceRun DEF Turns
<1>3. \A k \in 1 .. n : d(k) * d(k) \in Nat /\ (d(k) * d(k) = 0 <=> d(k) = 0)
  BY <1>1, Squares
<1> HIDE DEF d
<1> DEFINE T == {k \in 1 .. n : f[k] \in Nat /\ (f[k] = 0 <=> \A i \in 1 .. k : d(i) = 0)}
<1>4. 1 \in T
  <2>1. 1 \in 1 .. n /\ f[1 - 1] = 0 /\ \A i \in 1 .. 1 : i = 1
    BY <1>1, <1>2
  <2>2. f[1] = 0 + d(1) * d(1)
    BY <1>2, <2>1
  <2>3. f[1] \in Nat /\ (f[1] = 0 <=> d(1) = 0)
    BY <1>3, <2>1, <2>2
  <2> QED
    BY <2>1, <2>3
<1>5. ASSUME NEW k \in 1 .. n, k < n, k \in T PROVE k + 1 \in T
  <2> DEFINE j == k + 1
  <2>1. j \in 1 .. n /\ j - 1 = k /\ j \in 1 .. j /\ \A i \in 1 .. n : i \in 1 .. j <=> i = j \/ i \in 1 .. k
    BY <1>1, <1>5
  <2>a. \A i \in 1 .. j : i \in 1 .. n
    BY <1>1, <2>1
  <2> HIDE DEF j
  <2>2. f[j] = f[k] + d(j) * d(j)
    BY <1>2, <2>1
  <2>3. f[k] \in Nat /\ d(j) * d(j) \in Nat /\ (d(j) * d(j) = 0 <=> d(j) = 0)
    BY <1>3, <1>5, <2>1
  <2>4. f[j] \in Nat /\ (f[j] = 0 <=> f[k] = 0 /\ d(j) = 0)
    BY <2>2, <2>3
  <2>5. (f[k] = 0 /\ d(j) = 0) <=> \A i \in 1 .. j : d(i) = 0
    BY <1>5, <2>1, <2>a
  <2>6. j \in T
    BY <2>1, <2>4, <2>5
  <2> QED
    BY <2>6 DEF j
<1>6. n \in T
  <2> HIDE DEF T
  <2> QED
    BY <1>1, <1>4, <1>5, AfterEveryTurn
<1> QED
  BY <1>2, <1>6 DEF d

\* There is no variance exactly if the extremes are equal and the sum is right.
LEMMA VarianceTells ==
  ASSUME NEW s, Sample(s), SampleSum(s) = ExactSum(s)
  PROVE  SampleVariance(s) = 0 <=> SampleMin(s) = SampleMax(s)
<1> DEFINE n == Len(s)
<1> DEFINE min == SampleMin(s)
<1> DEFINE max == SampleMax(s)
<1> DEFINE sum == SampleSum(s)
<1>1. n \in Nat \ {0} /\ \A i \in 1 .. n : s[i].v \in Int
  BY DEF Sample
<1>2. /\ max \in Int /\ \E i \in 1 .. n : max = s[i].v
      /\ \A i \in 1 .. n : s[i].v <= max
  BY MaxIsRight
<1>3. /\ min \in Int /\ \E i \in 1 .. n : min = s[i].v
      /\ \A i \in 1 .. n : min <= s[i].v
  BY MinIsRight
<1> HIDE DEF min, max
<1>4. sum \in Int /\ n * min <= sum /\ sum <= n * max
  BY <1>2, <1>3, ExactIsRight
<1>5. SampleVariance(s) = 0 <=> \A i \in 1 .. n : n * s[i].v - sum = 0
  BY <1>4, VarianceIsRight
<1> HIDE DEF sum
<1>6. ASSUME \A i \in 1 .. n : n * s[i].v - sum = 0 PROVE min = max
  <2>1. n * min - sum = 0 /\ n * max - sum = 0
    BY <1>2, <1>3, <1>6
  <2>2. n * min \in Int /\ n * max \in Int
    BY <1>1, <1>2, <1>3
  <2>3. n * min = n * max
    BY <1>4, <2>1, <2>2
  <2> HIDE DEF n
  <2>4. n * min <= n * max /\ n * max <= n * min
    BY <2>2, <2>3
  <2>5. min <= max
    BY <1>1, <1>2, <1>3, <2>4, ProductTells
  <2>6. max <= min
    BY <1>1, <1>2, <1>3, <2>4, ProductTells
  <2> QED
    BY <1>2, <1>3, <2>5, <2>6
<1>7. ASSUME min = max PROVE \A i \in 1 .. n : n * s[i].v - sum = 0
  <2>1. \A i \in 1 .. n : s[i].v = min
    BY <1>1, <1>2, <1>3, <1>7
  <2>2. n * min = sum /\ n * min \in Int
    BY <1>1, <1>3, <1>4, <1>7
  <2> QED
    BY <1>4, <2>1, <2>2
<1> QED
  BY <1>5, <1>6, <1>7 DEF min, max

-----------------------------------------------------------------------------
(* Sorting.                                                                *)

\* Some place holds the greatest of finitely many numbers.
LEMMA Greatest ==
  ASSUME NEW n \in Nat \ {0}, NEW w \in [1 .. n -> Int]
  PROVE  \E x \in 1 .. n : \A y \in 1 .. n : w[y] <= w[x]
<1> DEFINE T == {k \in 1 .. n : \E x \in 1 .. k : \A y \in 1 .. k : w[y] <= w[x]}
<1>1. 1 \in T
  OBVIOUS
<1>2. ASSUME NEW k \in 1 .. n, k < n, k \in T PROVE k + 1 \in T
  <2> DEFINE j == k + 1
  <2>1. j \in 1 .. n /\ \A y \in 1 .. j : y = j \/ y \in 1 .. k
    BY <1>2
  <2>2. PICK x \in 1 .. k : \A y \in 1 .. k : w[y] <= w[x]
    BY <1>2
  <2>3. x \in 1 .. j /\ j \in 1 .. j /\ w[x] \in Int /\ w[j] \in Int /\ \A y \in 1 .. k : w[y] \in Int
    BY <1>2, <2>1
  <2> HIDE DEF j
  <2>4. \E z \in 1 .. j : \A y \in 1 .. j : w[y] <= w[z]
    <3>1. CASE w[j] <= w[x]
      <4>1. \A y \in 1 .. j : w[y] <= w[x]
        BY <2>1, <2>2, <3>1
      <4> QED
        BY <2>3, <4>1
    <3>2. CASE w[x] <= w[j]
      <4>1. \A y \in 1 .. j : w[y] <= w[j]
        BY <2>1, <2>2, <2>3, <3>2
      <4> QED
        BY <2>3, <4>1
    <3>3. w[j] <= w[x] \/ w[x] <= w[j]
      BY <2>3
    <3> QED
      BY <3>1, <3>2, <3>3
  <2>6. j \in T
    BY <2>1, <2>4
  <2> QED
    BY <2>6 DEF j
<1>3. n \in T
  <2> HIDE DEF T
  <2> QED
    BY <1>1, <1>2, AfterEveryTurn
<1> QED
  BY <1>3

\* The places of a list in an order that sorts it.
Sorting(n, w) == {order \in [1 .. n -> 1 .. n] :
  /\ \A i, j \in 1 .. n : order[i] = order[j] => i = j
  /\ \A y \in 1 .. n : \E i \in 1 .. n : order[i] = y
  /\ \A i, j \in 1 .. n : i <= j => w[order[i]] <= w[order[j]]}

\* A list with one place more is sorted by exchanging its greatest number with
\* the last and sorting what is before.
LEMMA SortOneMore ==
  ASSUME NEW n \in Nat \ {0}, NEW w \in [1 .. n + 1 -> Int],
         \A u \in [1 .. n -> Int] : Sorting(n, u) # {}
  PROVE  Sorting(n + 1, w) # {}
<1> DEFINE m == n + 1
<1>1. m \in Nat \ {0} /\ m \in 1 .. m /\ \A i \in 1 .. m : i = m \/ i \in 1 .. n
  OBVIOUS
<1>2. \A i \in 1 .. n : i \in 1 .. m /\ i # m
  OBVIOUS
<1>3. \A i, j \in 1 .. m : i <= j => j = m \/ (i \in 1 .. n /\ j \in 1 .. n)
  OBVIOUS
<1>4. w \in [1 .. m -> Int]
  OBVIOUS
<1> HIDE DEF m
<1>5. PICK x \in 1 .. m : \A y \in 1 .. m : w[y] <= w[x]
  BY <1>1, <1>4, Greatest
<1> DEFINE u == [i \in 1 .. n |-> IF i = x THEN w[m] ELSE w[i]]
<1>6. u \in [1 .. n -> Int] /\ \A i \in 1 .. n : u[i] = IF i = x THEN w[m] ELSE w[i]
  BY <1>1, <1>2, <1>4
<1> HIDE DEF u
<1>7. PICK o \in Sorting(n, u) : TRUE
  BY <1>6
<1>8. /\ o \in [1 .. n -> 1 .. n]
      /\ \A i, j \in 1 .. n : o[i] = o[j] => i = j
      /\ \A y \in 1 .. n : \E i \in 1 .. n : o[i] = y
      /\ \A i, j \in 1 .. n : i <= j => u[o[i]] <= u[o[j]]
  BY <1>7 DEF Sorting
<1> DEFINE order == [i \in 1 .. m |-> IF i = m THEN x ELSE IF o[i] = x THEN m ELSE o[i]]
<1>9. /\ order \in [1 .. m -> 1 .. m] /\ order[m] = x
      /\ \A i \in 1 .. n : order[i] = IF o[i] = x THEN m ELSE o[i]
  BY <1>1, <1>2, <1>8
<1> HIDE DEF order
<1>10. ASSUME NEW i \in 1 .. n PROVE order[i] # x /\ w[order[i]] = u[o[i]]
  <2>1. o[i] \in 1 .. n /\ o[i] # m
    BY <1>2, <1>8
  <2>2. u[o[i]] = IF o[i] = x THEN w[m] ELSE w[o[i]]
    BY <1>6, <2>1
  <2> QED
    BY <1>9, <2>1, <2>2
<1>11. ASSUME NEW i \in 1 .. m, NEW j \in 1 .. m, order[i] = order[j] PROVE i = j
  <2>1. CASE i \in 1 .. n /\ j \in 1 .. n
    <3>1. o[i] # m /\ o[j] # m
      BY <1>2, <1>8, <2>1
    <3>2. o[i] = o[j]
      BY <1>9, <1>11, <2>1, <3>1
    <3> QED
      BY <1>8, <2>1, <3>2
  <2> QED
    BY <1>1, <1>9, <1>10, <1>11, <2>1
<1>12. ASSUME NEW y \in 1 .. m PROVE \E i \in 1 .. m : order[i] = y
  <2>1. CASE y = x
    BY <1>1, <1>9, <2>1
  <2>2. CASE y # x /\ y \in 1 .. n
    <3>1. PICK i \in 1 .. n : o[i] = y
      BY <1>8, <2>2
    <3> QED
      BY <1>2, <1>9, <2>2, <3>1
  <2>3. CASE y # x /\ y = m
    <3>1. x \in 1 .. n
      BY <1>1, <2>3
    <3>2. PICK i \in 1 .. n : o[i] = x
      BY <1>8, <3>1
    <3> QED
      BY <1>2, <1>9, <2>3, <3>2
  <2> QED
    BY <1>1, <2>1, <2>2, <2>3
<1>13. ASSUME NEW i \in 1 .. m, NEW j \in 1 .. m, i <= j PROVE w[order[i]] <= w[order[j]]
  <2>1. CASE j = m
    BY <1>5, <1>9, <2>1
  <2>2. CASE i \in 1 .. n /\ j \in 1 .. n
    <3>1. u[o[i]] <= u[o[j]]
      BY <1>8, <1>13, <2>2
    <3> QED
      BY <1>10, <2>2, <3>1
  <2> QED
    BY <1>3, <1>13, <2>1, <2>2
<1>14. order \in Sorting(m, w)
  BY <1>9, <1>11, <1>12, <1>13 DEF Sorting
<1> QED
  BY <1>14 DEF m

\* Finitely many numbers can be sorted.
LEMMA CanBeSorted ==
  ASSUME NEW n \in Nat \ {0}, NEW w \in [1 .. n -> Int]
  PROVE  Sorting(n, w) # {}
<1> DEFINE T == {k \in 1 .. n : \A u \in [1 .. k -> Int] : Sorting(k, u) # {}}
<1>1. 1 \in T
  <2> SUFFICES ASSUME NEW u \in [1 .. 1 -> Int] PROVE Sorting(1, u) # {}
      OBVIOUS
  <2> DEFINE order == [i \in 1 .. 1 |-> 1]
  <2>1. order \in [1 .. 1 -> 1 .. 1] /\ order[1] = 1 /\ u[1] <= u[1]
    OBVIOUS
  <2>2. 1 \in 1 .. 1 /\ \A i \in 1 .. 1 : i = 1
    OBVIOUS
  <2> HIDE DEF order
  <2>3. order \in Sorting(1, u)
    BY <2>1, <2>2 DEF Sorting
  <2> QED
    BY <2>3
<1>2. ASSUME NEW k \in 1 .. n, k < n, k \in T PROVE k + 1 \in T
  <2>1. k \in Nat \ {0} /\ k + 1 \in 1 .. n
    BY <1>2
  <2>2. \A u \in [1 .. k -> Int] : Sorting(k, u) # {}
    BY <1>2
  <2>3. \A u \in [1 .. k + 1 -> Int] : Sorting(k + 1, u) # {}
    BY <2>1, <2>2, SortOneMore
  <2> QED
    BY <2>1, <2>3
<1>3. n \in T
  <2> HIDE DEF T
  <2> QED
    BY <1>1, <1>2, AfterEveryTurn
<1> QED
  BY <1>3

\* So a sample can be sorted, and its values are in order then.
LEMMA SortedIsSorted ==
  ASSUME NEW s, Sample(s)
  PROVE  /\ Sorted(s) \in [1 .. Len(s) -> Int] /\ Len(Sorted(s)) = Len(s)
         /\ \A i, j \in 1 .. Len(s) : i <= j => Sorted(s)[i] <= Sorted(s)[j]
<1> DEFINE n == Len(s)
<1> DEFINE w == [i \in 1 .. n |-> s[i].v]
<1>1. n \in Nat \ {0} /\ DOMAIN s = 1 .. n /\ \A i \in 1 .. n : s[i].v \in Int
  BY DEF Sample
<1>2. w \in [1 .. n -> Int] /\ \A i \in 1 .. n : w[i] = s[i].v
  BY <1>1
<1> HIDE DEF w
<1>3. Orders(s) # {}
  <2>1. PICK order \in Sorting(n, w) : TRUE
    BY <1>1, <1>2, CanBeSorted
  <2>2. /\ order \in [1 .. n -> 1 .. n]
        /\ \A i, j \in 1 .. n : order[i] = order[j] => i = j
        /\ \A y \in 1 .. n : \E i \in 1 .. n : order[i] = y
        /\ \A i, j \in 1 .. n : i <= j => w[order[i]] <= w[order[j]]
    BY <2>1 DEF Sorting
  <2>3. order \in Bijection(1 .. n, 1 .. n)
    <3>1. \A i, j \in 1 .. n : i # j => order[i] # order[j]
      BY <2>2
    <3>2. \A y \in 1 .. n : \E i \in 1 .. n : order[i] = y
      BY <2>2
    <3>3. order \in Injection(1 .. n, 1 .. n)
      BY <2>2, <3>1 DEF Injection, IsInjective
    <3>4. order \in Surjection(1 .. n, 1 .. n)
      BY <2>2, <3>2 DEF Surjection
    <3> QED
      BY <3>3, <3>4 DEF Bijection
  <2>4. \A i \in 1 .. n : w[order[i]] = s[order[i]].v
    BY <1>2, <2>2
  <2>5. \A i, j \in 1 .. n : i <= j => s[order[i]].v <= s[order[j]].v
    BY <2>2, <2>4
  <2>6. order \in Orders(s)
    BY <1>1, <2>3, <2>5 DEF Orders
  <2> QED
    BY <2>6
<1> DEFINE order == CHOOSE order \in Orders(s) : TRUE
<1>4. order \in Orders(s)
  BY <1>3
<1> HIDE DEF order
<1>5. /\ \A i \in 1 .. n : order[i] \in 1 .. n
      /\ \A i, j \in 1 .. n : i <= j => s[order[i]].v <= s[order[j]].v
  BY <1>1, <1>4 DEF Orders, Bijection, Injection
<1> DEFINE t == [i \in 1 .. n |-> s[order[i]].v]
<1>6. /\ t \in [1 .. n -> Int] /\ Len(t) = n
      /\ \A i \in 1 .. n : t[i] = s[order[i]].v
  BY <1>1, <1>5
<1>7. Sorted(s) = t
  BY <1>1, Zenon DEF Sorted, order
<1> HIDE DEF t
<1> QED
  BY <1>5, <1>6, <1>7

-----------------------------------------------------------------------------
(* Percentiles.                                                            *)

\* The score at position q of n values t in order.
Score(t, n, q) ==
  IF q < Den THEN Den * t[1]
  ELSE IF q >= Den * n THEN Den * t[n]
  ELSE Den * t[q \div Den] + (q % Den) * (t[q \div Den + 1] - t[q \div Den])

Ascending(t, n) ==
  /\ n \in Nat \ {0} /\ t \in [1 .. n -> Int]
  /\ \A i, j \in 1 .. n : i <= j => t[i] <= t[j]

\* A position between the first and the last is between two neighbours.
LEMMA Neighbours ==
  ASSUME NEW n \in Nat \ {0}, NEW q \in Nat, q >= Den, q < Den * n
  PROVE  /\ q \div Den \in 1 .. n - 1 /\ q \div Den + 1 \in 1 .. n /\ q % Den \in 0 .. Den - 1
         /\ q = Den * (q \div Den) + (q % Den)
<1>1. Den \in Nat /\ Den > 0
  BY ReportingAssumption
<1> DEFINE f == q \div Den
<1> DEFINE r == q % Den
<1>2. f \in Int /\ r \in 0 .. Den - 1 /\ q = Den * f + r
  BY <1>1
<1> HIDE DEF f, r
<1>3. f >= 1
  <2> SUFFICES ASSUME f <= 0 PROVE FALSE
      BY <1>2
  <2>1. Den * f <= Den * 0
    BY <1>1, <1>2, ProductGrows
  <2> QED
    BY <1>1, <1>2, <2>1
<1>4. f <= n - 1
  <2> SUFFICES ASSUME n <= f PROVE FALSE
      BY <1>2
  <2>1. Den * n <= Den * f /\ Den * f \in Int /\ Den * n \in Int
    BY <1>1, <1>2, ProductGrows
  <2> QED
    BY <1>1, <1>2, <2>1
<1>5. f \in 1 .. n - 1 /\ f + 1 \in 1 .. n
  BY <1>2, <1>3, <1>4
<1>6. f \in 1 .. n - 1 /\ f + 1 \in 1 .. n /\ r \in 0 .. Den - 1 /\ q = Den * f + r
  BY <1>2, <1>5
<1> QED
  BY <1>6 DEF f, r

\* The score is between those of its neighbours, and grows with the remainder.
LEMMA Interpolates ==
  ASSUME NEW x \in Int, NEW y \in Int, x <= y, NEW r \in 0 .. Den - 1
  PROVE  /\ Den * x + r * (y - x) \in Int
         /\ Den * x <= Den * x + r * (y - x) /\ Den * x + r * (y - x) <= Den * y
         /\ \A l \in 0 .. r : Den * x + l * (y - x) <= Den * x + r * (y - x)
<1>1. Den \in Nat /\ Den > 0
  BY ReportingAssumption
<1> DEFINE d == y - x
<1>2. d \in Nat /\ y = x + d
  OBVIOUS
<1> HIDE DEF d
<1>3. Den * x \in Int /\ Den * (x + d) = Den * x + Den * d /\ Den * d \in Int
  BY <1>1, <1>2
<1>4. \A l \in 0 .. r : d * l <= d * r /\ d * l = l * d /\ d * l \in Int
  <2> TAKE l \in 0 .. r
  <2>1. l \in Int /\ r \in Int /\ l <= r
    OBVIOUS
  <2>2. d * l <= d * r
    BY <1>2, <2>1, ProductGrows
  <2> QED
    BY <1>2, <2>1, <2>2
<1>5. d * r <= d * Den /\ d * Den = Den * d /\ d * r = r * d /\ d * r \in Int
  <2>1. r \in Int /\ r <= Den /\ Den \in Int
    BY <1>1
  <2>2. d * r <= d * Den
    BY <1>2, <2>1, ProductGrows
  <2> QED
    BY <1>2, <2>1, <2>2
<1>6. 0 <= d * r
  <2>1. 0 \in 0 .. r
    OBVIOUS
  <2>2. d * 0 <= d * r /\ d * 0 = 0
    BY <1>2, <1>4, <2>1
  <2> QED
    BY <2>2
<1>7. /\ Den * x + r * d \in Int
      /\ Den * x <= Den * x + r * d /\ Den * x + r * d <= Den * (x + d)
  BY <1>3, <1>5, <1>6
<1>8. \A l \in 0 .. r : Den * x + l * d <= Den * x + r * d
  BY <1>3, <1>4, <1>5
<1> QED
  BY <1>2, <1>7, <1>8 DEF d

\* The score has its rank: the values at or below its position are at most it,
\* those at or above it are at least it.
LEMMA ScoreHasRank ==
  ASSUME NEW n, NEW t, Ascending(t, n), NEW q \in Nat
  PROVE  /\ Score(t, n, q) \in Int
         /\ Den * t[1] <= Score(t, n, q) /\ Score(t, n, q) <= Den * t[n]
         /\ \A i \in 1 .. n : i * Den <= q => Den * t[i] <= Score(t, n, q)
         /\ \A i \in 1 .. n : i * Den >= q => Score(t, n, q) <= Den * t[i]
<1>1. /\ Den \in Nat /\ Den > 0 /\ n \in Nat \ {0} /\ 1 \in 1 .. n /\ n \in 1 .. n
      /\ \A i \in 1 .. n : t[i] \in Int /\ t[1] <= t[i] /\ t[i] <= t[n]
  BY ReportingAssumption DEF Ascending
<1>2. \A i, j \in 1 .. n : i <= j => Den * t[i] <= Den * t[j] /\ Den * t[i] \in Int /\ Den * t[j] \in Int
  BY <1>1, ProductGrows DEF Ascending
<1>3. \A i, j \in Int : i * Den \in Int /\ (i <= j => i * Den <= j * Den) /\ (i < j => i * Den < j * Den)
  <2> TAKE i, j \in Int
  <2>1. i * Den = Den * i /\ j * Den = Den * j /\ Den * (i + 1) = Den * i + Den /\ Den * i \in Int /\ Den * j \in Int
    BY <1>1
  <2>2. ASSUME i <= j PROVE Den * i <= Den * j
    BY <1>1, <2>2, ProductGrows
  <2>3. ASSUME i < j PROVE Den * (i + 1) <= Den * j
    BY <1>1, <2>3, ProductGrows
  <2> QED
    BY <1>1, <2>1, <2>2, <2>3
<1> DEFINE score == Score(t, n, q)
<1>4. CASE q < Den
  <2>1. score = Den * t[1]
    BY <1>4 DEF Score
  <2>2. \A i \in 1 .. n : ~ (i * Den <= q)
    BY <1>1, <1>3, <1>4
  <2> HIDE DEF score
  <2>3. \A i \in 1 .. n : Den * t[1] <= Den * t[i] /\ Den * t[1] \in Int
    BY <1>1, <1>2
  <2>4. /\ score \in Int /\ Den * t[1] <= score /\ score <= Den * t[n]
        /\ \A i \in 1 .. n : i * Den <= q => Den * t[i] <= score
        /\ \A i \in 1 .. n : i * Den >= q => score <= Den * t[i]
    BY <1>1, <2>1, <2>2, <2>3
  <2> QED
    BY <2>4 DEF score
<1>5. CASE q >= Den /\ q >= Den * n
  <2>1. score = Den * t[n]
    BY <1>1, <1>5 DEF Score
  <2>2. \A i \in 1 .. n : i * Den >= q => i = n
    <3> TAKE i \in 1 .. n
    <3>1. Den * n = n * Den
      BY <1>1
    <3> QED
      BY <1>1, <1>3, <1>5, <3>1
  <2> HIDE DEF score
  <2>3. \A i \in 1 .. n : Den * t[i] <= Den * t[n] /\ Den * t[n] \in Int
    BY <1>1, <1>2
  <2>4. /\ score \in Int /\ Den * t[1] <= score /\ score <= Den * t[n]
        /\ \A i \in 1 .. n : i * Den <= q => Den * t[i] <= score
        /\ \A i \in 1 .. n : i * Den >= q => score <= Den * t[i]
    BY <1>1, <2>1, <2>2, <2>3
  <2> QED
    BY <2>4 DEF score
<1>6. CASE q >= Den /\ q < Den * n
  <2> DEFINE f == q \div Den
  <2> DEFINE r == q % Den
  <2>1. /\ f \in 1 .. n - 1 /\ f + 1 \in 1 .. n /\ r \in 0 .. Den - 1 /\ q = Den * f + r
    BY <1>1, <1>6, Neighbours
  <2>2. score = Den * t[f] + r * (t[f + 1] - t[f])
    BY <1>1, <1>6 DEF Score
  <2> HIDE DEF f, r, score
  <2>3. f \in 1 .. n /\ t[f] \in Int /\ t[f + 1] \in Int /\ t[f] <= t[f + 1]
    BY <1>1, <2>1 DEF Ascending
  <2>4. score \in Int /\ Den * t[f] <= score /\ score <= Den * t[f + 1]
    BY <2>1, <2>2, <2>3, Interpolates
  <2>5. r = 0 => score = Den * t[f]
    <3>1. Den * t[f] \in Int /\ 0 * (t[f + 1] - t[f]) = 0
      BY <1>1, <2>3
    <3> QED
      BY <2>2, <3>1
  <2>6. \A i \in 1 .. n : i * Den <= q => Den * t[i] <= score
    <3> SUFFICES ASSUME NEW i \in 1 .. n, i * Den <= q PROVE Den * t[i] <= score
        OBVIOUS
    <3>1. (f + 1) * Den > q
      <4>1. (f + 1) * Den = Den * f + Den /\ Den * f \in Int
        BY <1>1, <2>1
      <4> QED
        BY <1>1, <2>1, <4>1
    <3>2. i <= f
      <4>1. f + 1 <= i => (f + 1) * Den <= i * Den
        BY <1>3, <2>1
      <4>2. (f + 1) * Den \in Int /\ i * Den \in Int
        BY <1>3, <2>1
      <4> QED
        BY <2>1, <3>1, <4>1, <4>2
    <3>3. Den * t[i] <= Den * t[f] /\ Den * t[i] \in Int /\ Den * t[f] \in Int
      BY <1>2, <2>3, <3>2
    <3> QED
      BY <2>4, <3>3
  <2>7. \A i \in 1 .. n : i * Den >= q => score <= Den * t[i]
    <3> SUFFICES ASSUME NEW i \in 1 .. n, i * Den >= q PROVE score <= Den * t[i]
        OBVIOUS
    <3>1. f * Den = Den * f /\ f * Den \in Int /\ i * Den \in Int
      BY <1>1, <2>1
    <3>2. i >= f /\ (i = f => r = 0)
      <4>1. i < f => i * Den < f * Den
        BY <1>3, <2>1
      <4> QED
        BY <2>1, <3>1, <4>1
    <3>3. CASE i = f
      <4>1. score = Den * t[i] /\ score \in Int
        BY <2>4, <2>5, <3>2, <3>3
      <4> QED
        BY <4>1
    <3>4. CASE i # f
      <4>1. f + 1 <= i
        BY <2>1, <3>2, <3>4
      <4>2. Den * t[f + 1] <= Den * t[i] /\ Den * t[i] \in Int /\ Den * t[f + 1] \in Int
        BY <1>2, <2>1, <4>1
      <4> QED
        BY <2>4, <4>2
    <3> QED
      BY <3>3, <3>4
  <2>8. Den * t[1] <= Den * t[f] /\ Den * t[f + 1] <= Den * t[n] /\ Den * t[1] \in Int /\ Den * t[n] \in Int
                                 /\ Den * t[f] \in Int /\ Den * t[f + 1] \in Int
    <3>1. 1 <= f /\ f + 1 <= n
      BY <2>1
    <3> QED
      BY <1>1, <1>2, <2>1, <2>3, <3>1
  <2>9. Den * t[1] <= score /\ score <= Den * t[n]
    BY <2>4, <2>8
  <2> QED
    BY <2>4, <2>6, <2>7, <2>9 DEF score
<1>7. Den * n \in Int
  BY <1>1
<1> QED
  BY <1>1, <1>4, <1>5, <1>6, <1>7

\* The score grows with the position.
LEMMA ScoreGrows ==
  ASSUME NEW n, NEW t, Ascending(t, n), NEW q \in Nat, NEW u \in Nat, q <= u
  PROVE  Score(t, n, q) <= Score(t, n, u)
<1>1. /\ Den \in Nat /\ Den > 0 /\ n \in Nat \ {0} /\ \A i \in 1 .. n : t[i] \in Int
      /\ Den * n \in Int
  BY ReportingAssumption DEF Ascending
<1>2. /\ Score(t, n, q) \in Int /\ Score(t, n, q) <= Den * t[n]
      /\ \A i \in 1 .. n : i * Den >= q => Score(t, n, q) <= Den * t[i]
  BY ScoreHasRank
<1>3. /\ Score(t, n, u) \in Int /\ Den * t[1] <= Score(t, n, u)
      /\ \A i \in 1 .. n : i * Den <= u => Den * t[i] <= Score(t, n, u)
  BY ScoreHasRank
<1>4. CASE q < Den
  <2>1. Score(t, n, q) = Den * t[1]
    BY <1>4 DEF Score
  <2> QED
    BY <1>3, <2>1
<1>5. CASE q >= Den /\ u >= Den * n
  <2>1. Score(t, n, u) = Den * t[n]
    BY <1>1, <1>5 DEF Score
  <2> QED
    BY <1>2, <2>1
<1>6. CASE q >= Den /\ u < Den * n
  <2> DEFINE f == q \div Den
  <2> DEFINE r == q % Den
  <2> DEFINE g == u \div Den
  <2> DEFINE l == u % Den
  <2>1. u >= Den /\ q < Den * n
    BY <1>1, <1>6
  <2>2. f \in 1 .. n - 1 /\ f + 1 \in 1 .. n /\ r \in 0 .. Den - 1 /\ q = Den * f + r
    BY <1>1, <1>6, <2>1, Neighbours
  <2>3. g \in 1 .. n - 1 /\ g + 1 \in 1 .. n /\ l \in 0 .. Den - 1 /\ u = Den * g + l
    BY <1>1, <1>6, <2>1, Neighbours
  <2>4. Score(t, n, q) = Den * t[f] + r * (t[f + 1] - t[f])
    BY <1>1, <1>6, <2>1 DEF Score
  <2>5. Score(t, n, u) = Den * t[g] + l * (t[g + 1] - t[g])
    BY <1>1, <1>6, <2>1 DEF Score
  <2> HIDE DEF f, r, g, l
  <2>6. Den * f \in Int /\ Den * g \in Int
    BY <1>1, <2>2, <2>3
  <2>7. CASE f = g
    <3>1. r \in 0 .. l
      BY <2>2, <2>3, <2>6, <2>7
    <3>2. t[f] \in Int /\ t[f + 1] \in Int /\ t[f] <= t[f + 1]
      BY <2>2 DEF Ascending
    <3>3. \A k \in 0 .. l : Den * t[f] + k * (t[f + 1] - t[f]) <= Den * t[f] + l * (t[f + 1] - t[f])
      BY <2>3, <3>2, Interpolates
    <3>4. Den * t[f] + r * (t[f + 1] - t[f]) <= Den * t[f] + l * (t[f + 1] - t[f])
      BY <3>1, <3>3
    <3> QED
      BY <2>4, <2>5, <2>7, <3>4
  <2>8. CASE f + 1 <= g
    <3>1. (f + 1) * Den = Den * f + Den
      BY <1>1, <2>2
    <3>2. (f + 1) * Den >= q /\ (f + 1) * Den \in Int
      BY <1>1, <2>2, <2>6, <3>1
    <3>3. Den * (f + 1) <= Den * g /\ Den * (f + 1) = (f + 1) * Den
      BY <1>1, <2>2, <2>3, <2>8, ProductGrows
    <3>4. (f + 1) * Den <= u
      BY <2>3, <2>6, <3>2, <3>3
    <3>5. Den * t[f + 1] \in Int
      BY <1>1, <2>2
    <3> QED
      BY <1>2, <1>3, <2>2, <3>2, <3>4, <3>5
  <2>9. CASE g < f
    <3>1. Den * (g + 1) <= Den * f /\ Den * (g + 1) = Den * g + Den
      BY <1>1, <2>2, <2>3, <2>9, ProductGrows
    <3> QED
      BY <1>1, <2>2, <2>3, <2>6, <3>1
  <2> QED
    BY <2>2, <2>3, <2>7, <2>8, <2>9
<1> QED
  BY <1>1, <1>4, <1>5, <1>6

\* A percentile is the score at its position.
LEMMA PercentileIsScore ==
  ASSUME NEW t, NEW p, Len(t) # 0
  PROVE  Percentile(t, p) = Score(t, Len(t), p * (Len(t) + 1))
BY DEF Percentile, Position, Score

\* What fits a float64 has a sum that is an int64.
LEMMA FloatFits ==
  ASSUME NEW s, Sample(s), FitsFloat(s)
  PROVE  ExactSum(s) \in Lowest .. Highest
<1>1. Len(s) \in Nat \ {0} /\ DOMAIN s = 1 .. Len(s)
  BY DEF Sample
<1> DEFINE min == SampleMin(s)
<1> DEFINE max == SampleMax(s)
<1>2. /\ max \in Int /\ \E i \in 1 .. Len(s) : max = s[i].v
      /\ \A i \in 1 .. Len(s) : s[i].v <= max
  BY MaxIsRight
<1>3. /\ min \in Int /\ \E i \in 1 .. Len(s) : min = s[i].v
      /\ \A i \in 1 .. Len(s) : min <= s[i].v
  BY MinIsRight
<1> HIDE DEF min, max
<1>4. Len(s) * min \in -MaxExact .. MaxExact /\ Len(s) * max \in -MaxExact .. MaxExact
  BY <1>1, <1>2, <1>3, Zenon DEF FitsFloat
<1>5. ExactSum(s) \in Int /\ Len(s) * min <= ExactSum(s) /\ ExactSum(s) <= Len(s) * max
  BY <1>2, <1>3, ExactIsRight
<1> DEFINE low == Len(s) * min
<1> DEFINE high == Len(s) * max
<1> HIDE DEF low, high
<1>6. low \in Int /\ 0 - MaxExact <= low /\ high \in Int /\ high <= MaxExact
  BY <1>4, Int64 DEF low, high
<1>7. low <= ExactSum(s) /\ ExactSum(s) <= high
  BY <1>5 DEF low, high
<1> QED
  BY <1>5, <1>6, <1>7, Int64

\* The extremes, the sum and the variance of a sample that is not empty.
LEMMA SummaryOfSample ==
  ASSUME NEW s, Sample(s)
  PROVE  ExtremesBound(s) /\ SumIsExact(s) /\ VarianceShows(s)
<1>1. DOMAIN s = 1 .. Len(s)
  BY DEF Sample
<1>2. /\ SampleMax(s) \in Int /\ \E i \in 1 .. Len(s) : SampleMax(s) = s[i].v
      /\ \A i \in 1 .. Len(s) : s[i].v <= SampleMax(s)
  BY MaxIsRight
<1>3. /\ SampleMin(s) \in Int /\ \E i \in 1 .. Len(s) : SampleMin(s) = s[i].v
      /\ \A i \in 1 .. Len(s) : SampleMin(s) <= s[i].v
  BY MinIsRight
<1>4. ExtremesBound(s)
  BY <1>1, <1>2, <1>3 DEF ExtremesBound
<1>5. SumIsExact(s)
  <2>1. Len(s) * SampleMin(s) <= ExactSum(s) /\ ExactSum(s) <= Len(s) * SampleMax(s)
    BY <1>2, <1>3, ExactIsRight
  <2> QED
    BY <2>1, SumFits, Zenon DEF SumIsExact
<1>6. VarianceShows(s)
  <2> SUFFICES ASSUME FitsFloat(s) PROVE SampleVariance(s) = 0 <=> SampleMin(s) = SampleMax(s)
      BY Zenon DEF VarianceShows
  <2>1. SampleSum(s) = ExactSum(s)
    BY FloatFits, SumFits
  <2> QED
    BY <2>1, VarianceTells
<1> QED
  BY <1>4, <1>5, <1>6

\* The sum of no values is what its loop starts with.
LEMMA NoTurns == SampleSum(<<>>) = 0
<1> DEFINE Is(f) == f = [i \in 0 .. 0 |-> IF i = 0 THEN 0 ELSE Wrap(f[i - 1] + <<>>[i].v)]
<1>1. Is([i \in 0 .. 0 |-> 0])
  <2>1. \A i \in 0 .. 0 : i = 0
    OBVIOUS
  <2> QED
    BY <2>1
<1> DEFINE f == CHOOSE f : Is(f)
<1>2. Is(f)
  <2> HIDE DEF Is
  <2> QED
    BY <1>1, Zenon
<1>3. f[0] = 0
  <2>1. 0 \in 0 .. 0
    OBVIOUS
  <2> HIDE DEF f
  <2> QED
    BY <1>2, <2>1
<1>4. Len(<<>>) = 0
  OBVIOUS
<1>5. SampleSum(<<>>) = f[0]
  BY <1>4, Zenon DEF SampleSum, Loop
<1> QED
  BY <1>3, <1>5

\* Of no values every summary is zero.
LEMMA SummaryOfNothing == EmptyIsZero(<<>>)
<1>1. SampleMax(<<>>) = 0 /\ SampleMin(<<>>) = 0 /\ SampleVariance(<<>>) = 0
  BY Zenon DEF SampleMax, SampleMin, SampleVariance
<1>3. Len(<<>>) = 0
  OBVIOUS
<1>4. \A p \in 0 .. Den : Percentile(<<>>, p) = 0
  BY <1>3, Zenon DEF Percentile
<1> QED
  BY <1>1, <1>4, NoTurns, Zenon DEF EmptyIsZero

LEMMA PercentilesOfSample ==
  ASSUME NEW s, Sample(s), NEW p \in 0 .. Den
  PROVE  LET t == Sorted(s)
             score == Percentile(t, p)
             rank == p * (Len(t) + 1)
         IN /\ Den * t[1] <= score /\ score <= Den * t[Len(t)]
            /\ p < Den => score <= Percentile(t, p + 1)
            /\ \A i \in DOMAIN t : i * Den <= rank => Den * t[i] <= score
            /\ \A i \in DOMAIN t : i * Den >= rank => score <= Den * t[i]
<1> DEFINE t == Sorted(s)
<1> DEFINE n == Len(s)
<1>1. n \in Nat \ {0} /\ Den \in Nat
  BY ReportingAssumption DEF Sample
<1>2. Ascending(t, n) /\ Len(t) = n /\ Len(t) # 0 /\ DOMAIN t = 1 .. n
  BY <1>1, SortedIsSorted DEF Ascending
<1> HIDE DEF t
<1>3. p * (n + 1) \in Nat /\ (p + 1) * (n + 1) \in Nat /\ p * (n + 1) <= (p + 1) * (n + 1)
  <2>1. p \in Nat
    BY <1>1
  <2>2. (p + 1) * (n + 1) = p * (n + 1) + (n + 1) /\ p * (n + 1) \in Nat
    BY <1>1, <2>1
  <2> QED
    BY <1>1, <2>2
<1>4. Percentile(t, p) = Score(t, n, p * (n + 1))
  BY <1>2, PercentileIsScore
<1>5. Percentile(t, p + 1) = Score(t, n, (p + 1) * (n + 1))
  BY <1>2, PercentileIsScore
<1> DEFINE q == p * (n + 1)
<1> DEFINE u == (p + 1) * (n + 1)
<1> HIDE DEF q, u, n
<1>6. /\ Den * t[1] <= Score(t, n, q) /\ Score(t, n, q) <= Den * t[n]
      /\ \A i \in 1 .. n : i * Den <= q => Den * t[i] <= Score(t, n, q)
      /\ \A i \in 1 .. n : i * Den >= q => Score(t, n, q) <= Den * t[i]
  BY <1>2, <1>3, ScoreHasRank DEF q
<1>7. Score(t, n, q) <= Score(t, n, u)
  BY <1>2, <1>3, ScoreGrows DEF q, u
<1> QED
  BY <1>2, <1>4, <1>5, <1>6, <1>7 DEF q, u, t

\* Entries of numbered updates are a sample, if there are any.
LEMMA EntriesAreSample ==
  ASSUME NEW k, NEW s \in Seq(Entries(k)), s # <<>>
  PROVE  Sample(s)
<1>1. \A v \in Values : v \in Int /\ Lowest <= v /\ v <= Highest
  BY ReportingAssumption, Int64
<1>2. Len(s) \in Nat \ {0} /\ DOMAIN s = 1 .. Len(s)
  OBVIOUS
<1>3. ASSUME NEW i \in 1 .. Len(s) PROVE s[i].v \in Values
  <2>1. s[i] \in Entries(k)
    BY <1>2
  <2> QED
    BY <2>1 DEF Entries
<1> QED
  BY <1>1, <1>2, <1>3 DEF Sample

\* All that is said of a sample, of one that holds entries and of an empty one.
LEMMA SummaryHolds ==
  ASSUME NEW k, NEW s \in Seq(Entries(k))
  PROVE  /\ EmptyIsZero(s) /\ ExtremesBound(s) /\ SumIsExact(s)
         /\ PercentilesHaveRank(s) /\ VarianceShows(s)
<1>1. CASE s = <<>>
  BY <1>1, SummaryOfNothing, Zenon
     DEF ExtremesBound, SumIsExact, PercentilesHaveRank, VarianceShows
<1>2. CASE s # <<>>
  <2>1. Sample(s)
    BY <1>2, EntriesAreSample
  <2>2. PercentilesHaveRank(s)
    <3> SUFFICES ASSUME NEW p \in 0 .. Den
                 PROVE  LET t == Sorted(s)
                            score == Percentile(t, p)
                            rank == p * (Len(t) + 1)
                        IN /\ Den * t[1] <= score /\ score <= Den * t[Len(t)]
                           /\ p < Den => score <= Percentile(t, p + 1)
                           /\ \A i \in DOMAIN t : i * Den <= rank => Den * t[i] <= score
                           /\ \A i \in DOMAIN t : i * Den >= rank => score <= Den * t[i]
        BY Zenon DEF PercentilesHaveRank
    <3> QED
      BY <2>1, PercentilesOfSample
  <2>3. EmptyIsZero(s)
    BY <1>2, Zenon DEF EmptyIsZero
  <2> QED
    BY <2>1, <2>2, <2>3, SummaryOfSample
<1> QED
  BY <1>1, <1>2

\* Whatever values were sampled, extremes, sum, variance and percentiles of the
\* live sample and of its snapshot are right as far as SummaryIsRight says: sums
\* that are no int64 wrap, and nothing is claimed of them, nor of floats that
\* are not exact (sample.go, SampleMax to SampleVariance; log.go:68-73).
THEOREM SummariesAreRight == Spec => []SummaryIsRight
<1>1. ASSUME IInv PROVE SummaryIsRight
  <2>1. values \in Seq(Entries(updates)) /\ snapshot \in Seq(Entries(updates))
    BY <1>1 DEF IInv, TypeOK, NumbersInv, Entries
  <2>2. ASSUME NEW s \in {values, snapshot} PROVE s \in Seq(Entries(updates))
    BY <2>1
  <2> QED
    BY <2>2, SummaryHolds, Zenon DEF SummaryIsRight
<1> QED
  BY <1>1, InvHolds, InvStep, PTL DEF Spec
=============================================================================
