------------------------------- MODULE ExpDecay -------------------------------
(***************************************************************************)
(* ExpDecaySample and its heap (statistics/metrics/sample.go).             *)
(*                                                                         *)
(* An entry is [k, v]: its priority and its value; values are numbered, so *)
(* that entries can be told apart.  Priorities are floats that only need   *)
(* an order: naturals here, the greatest of them infinite.  An update may  *)
(* draw any but zero: e^(alpha dt) over a random divisor below one, which  *)
(* is infinite once e^(alpha dt) overflows.  A rescaling multiplies all by *)
(* one factor, e^(-alpha dt): a function that keeps their order but may    *)
(* make different ones equal.  A factor that underflows to zero makes an   *)
(* infinite priority NaN, which is neither below nor above any other.      *)
(*                                                                         *)
(* Every method holds the mutex, so nobody sees a heap that is not idle;   *)
(* its loops are taken a turn at a time, so that what each turn keeps can  *)
(* be stated.  Sequences count from 1 and Go's slices from 0: the children *)
(* of entry i are 2i and 2i + 1.                                           *)
(***************************************************************************)
EXTENDS Naturals, Sequences, FiniteSets

CONSTANTS
  HeapCapacity,  \* the sample's reservoirSize
  Priorities,    \* the priorities that are numbers
  Infinity,      \* the greatest of them
  NaN,           \* what infinity times zero is
  Factors,       \* what a rescaling may do to them
  MaxSamples     \* bound: updates between two Clears

ASSUME DecayAssumption ==
  /\ HeapCapacity \in Nat \ {0} /\ MaxSamples \in Nat
  /\ Priorities \subseteq Nat /\ Infinity \in Priorities /\ NaN \notin Nat
  /\ \A k \in Priorities : k <= Infinity
  /\ Factors \subseteq [Priorities -> Priorities \cup {NaN}]
  /\ \A f \in Factors, k, l \in Priorities :
       /\ f[k] = NaN => k = Infinity
       /\ k <= l /\ NaN \notin {f[k], f[l]} => f[k] <= f[l]

VARIABLES
  heap,     \* the heap's array; its slice is the first size entries
  size,     \* all of them, but for those a rescaling has not pushed back yet
  samples,  \* the sample's count: updates since the last Clear
  entries,  \* entries those updates made, rescaled like the heap's
  hpc,      \* where the method under way is, or "idle"
  at,       \* the entry that up or down is moving, or 0
  factor    \* the rescaling under way, or none

decayVars == <<heap, size, samples, entries, hpc, at, factor>>

\* The product with the rescaling's factor; a NaN stays one.
Scale(f, entry) == [entry EXCEPT !.k = IF @ = NaN THEN NaN ELSE f[@]]

\* Floats compare so: nothing is below a NaN, nor a NaN below anything.
Less(k, l) == k # NaN /\ l # NaN /\ k < l

DecayInit ==
  /\ heap = <<>> /\ size = 0 /\ samples = 0 /\ entries = {}
  /\ hpc = "idle" /\ at = 0 /\ factor = <<>>

Swap(s, i, j) == [s EXCEPT ![i] = s[j], ![j] = s[i]]

\* Fault: Pop does not exchange the root with the last entry.
PopLast ==
  /\ hpc' = "down" /\ at' = 1
  /\ UNCHANGED <<heap, size>>

\* Pop exchanges the root with the last entry, moves that down, and drops the
\* root.
Pop ==
  /\ heap' = Swap(heap, 1, size)
  /\ hpc' = "down" /\ at' = 1
  /\ UNCHANGED size

\* update: a full reservoir gives up its smallest entry first.
StartUpdate ==
  /\ hpc = "idle" /\ samples < MaxSamples
  /\ samples' = samples + 1
  /\ IF size = HeapCapacity THEN Pop ELSE hpc' = "push" /\ UNCHANGED <<heap, size, at>>
  /\ UNCHANGED <<entries, factor>>

\* Fault: only the left child is looked at.
LeftChild(i, n) == 2 * i

\* The child to compare with: the right one unless the left one is smaller.
SmallerChild(i, n) ==
  IF 2 * i + 1 <= n /\ ~Less(heap[2 * i].k, heap[2 * i + 1].k) THEN 2 * i + 1 ELSE 2 * i

\* A turn of down's loop over all entries but the last.
Down ==
  LET n == size - 1
      j == SmallerChild(at, n)
  IN /\ hpc = "down"
     /\ IF 2 * at <= n /\ Less(heap[j].k, heap[at].k)
          THEN heap' = Swap(heap, at, j) /\ at' = j /\ UNCHANGED <<size, hpc>>
          ELSE heap' = SubSeq(heap, 1, n) /\ size' = n /\ hpc' = "push" /\ at' = 0
     /\ UNCHANGED <<samples, entries, factor>>

Push(k) ==
  LET entry == [k |-> k, v |-> samples]
  IN /\ hpc = "push" /\ hpc' = "up"
     /\ heap' = Append(heap, entry) /\ size' = size + 1 /\ at' = size + 1
     /\ entries' = entries \cup {entry}
     /\ UNCHANGED <<samples, factor>>

\* A turn of up's loop.
Up ==
  LET i == at \div 2
  IN /\ hpc = "up"
     /\ IF i # 0 /\ Less(heap[at].k, heap[i].k)
          THEN heap' = Swap(heap, i, at) /\ at' = i /\ UNCHANGED hpc
          ELSE hpc' = (IF factor = <<>> THEN "pushed" ELSE "rescale") /\ at' = 0 /\ UNCHANGED heap
     /\ UNCHANGED <<size, samples, entries, factor>>

\* update's time is not after t1.
EndUpdate ==
  /\ hpc = "pushed" /\ hpc' = "idle"
  /\ UNCHANGED <<heap, size, samples, entries, at, factor>>

\* It is: the heap is cleared, but the slice of its entries is kept.  The factor
\* is of the same dt as the newest priority, infinite if the factor is zero.
StartRescale ==
  /\ hpc = "pushed" /\ hpc' = "rescale"
  /\ \E f \in Factors :
       /\ f[Infinity] = NaN => [k |-> Infinity, v |-> samples] \in entries
       /\ factor' = f /\ entries' = {Scale(f, e) : e \in entries}
  /\ size' = 0
  /\ UNCHANGED <<heap, samples, at>>

\* A turn of the rescaling loop: an entry is pushed back, in array order, into
\* the array it is read from.
Rescale ==
  /\ hpc = "rescale"
  /\ IF size < Len(heap)
       THEN /\ heap' = [heap EXCEPT ![size + 1] = Scale(factor, @)]
            /\ size' = size + 1 /\ at' = size + 1 /\ hpc' = "up" /\ UNCHANGED factor
       ELSE /\ hpc' = "idle" /\ factor' = <<>> /\ UNCHANGED <<heap, size, at>>
  /\ UNCHANGED <<samples, entries>>

ClearDecay ==
  /\ hpc = "idle" /\ heap # <<>>
  /\ heap' = <<>> /\ size' = 0 /\ samples' = 0 /\ entries' = {}
  /\ UNCHANGED <<hpc, at, factor>>

DecayNext ==
  \/ StartUpdate \/ Down \/ (\E k \in Priorities \ {0} : Push(k)) \/ Up
  \/ EndUpdate \/ StartRescale \/ Rescale
  \/ ClearDecay

DecaySpec == DecayInit /\ [][DecayNext]_decayVars
-----------------------------------------------------------------------------
\* The updates whose entries are in the array.
Pushed == IF hpc \in {"down", "push"} THEN samples - 1 ELSE samples

Keys == Priorities \cup {NaN}

\* The heap's slice never grows past its capacity, where Push would panic, and
\* holds min(count, reservoirSize) different entries.
DecayTypeOK ==
  /\ samples \in 0 .. MaxSamples
  /\ heap \in Seq([k : Keys, v : 1 .. MaxSamples])
  /\ Len(heap) = IF hpc = "push" /\ Pushed >= HeapCapacity THEN HeapCapacity - 1
                 ELSE IF Pushed < HeapCapacity THEN Pushed ELSE HeapCapacity
  /\ size \in 0 .. Len(heap) /\ (factor = <<>> => size = Len(heap))
  /\ entries \subseteq [k : Keys, v : 1 .. Pushed]
  /\ hpc \in {"idle", "down", "push", "up", "pushed", "rescale"}
  /\ at \in 0 .. size /\ (at # 0 <=> hpc \in {"up", "down"})
  /\ factor \in Factors \cup {<<>>}
  /\ factor # <<>> => hpc \in {"up", "rescale"}
  /\ hpc = "rescale" => factor # <<>>
  /\ \A i, j \in 1 .. Len(heap) : heap[i].v = heap[j].v => i = j

\* An update's entry as it is in entries: scaled, if it is waiting to be.
Now(i) == IF i <= size THEN heap[i] ELSE Scale(factor, heap[i])

\* No rescaling since the last Clear had a factor of zero.
Numbers == \A e \in entries : e.k # NaN

\* Whatever nobody sees of its methods, the slice is a heap of its size whenever
\* the mutex is free: every parent is at most its children, after updates,
\* evictions and the rescaling that rebuilds the heap in place, as long as all
\* priorities are numbers: a NaN may leave numbers out of order too.  NaN or not,
\* no swap, push or rescaling duplicates or invents an entry.
HeapOrdered ==
  /\ DecayTypeOK
  /\ \A i \in 1 .. Len(heap) : Now(i) \in entries
  /\ hpc = "idle" /\ Numbers => \A i \in 2 .. size : heap[i \div 2].k <= heap[i].k

\* The entries of the largest priorities survive, as long as all are numbers: an
\* entry that was evicted is no larger than all but one of those that are kept.
\* It is not all: an update evicts the smallest entry before it looks at the new
\* one, which gets in whatever its priority.
LargestSurvive ==
  hpc = "idle" /\ Numbers =>
    \A e \in entries :
      \/ \E i \in 1 .. size : heap[i] = e
      \/ Cardinality({i \in 1 .. size : heap[i].k >= e.k}) >= HeapCapacity - 1
=============================================================================
