--------------------------- MODULE ConnPoolProofs ---------------------------
(***************************************************************************)
(* Proofs about ConnPool, for any number of connections, addresses and     *)
(* concurrent round trips and any configuration of the pool.               *)
(*                                                                         *)
(* TypeOK is inductive.  Exclusive is inductive relative to it: Put may    *)
(* append a connection because its round trip was the only one to hold it, *)
(* and IdleRemove may pass one to its timer because it was pooled, so that *)
(* nobody held it.  NoLeak is inductive relative to TypeOK.                *)
(*                                                                         *)
(* Then: idle connections stay timed and lists ordered, and the pool       *)
(* implements ConnLease.  The three operations that change a list are      *)
(* first described by what they do to it: GetEffect, PutEffect,            *)
(* RemoveEffect.  With Exclusive each says exactly which connections are   *)
(* pooled afterwards; everything that follows is about sets of connections *)
(* only.                                                                   *)
(***************************************************************************)
EXTENDS ConnPool, SequenceTheorems, TLAPS

-----------------------------------------------------------------------------
(* Lists: what SubSeq, Without and Put's new list contain.                 *)

\* The first n entries of a list, as Get keeps them.
LEMMA PrefixProperties ==
  ASSUME NEW S, NEW L \in Seq(S), NEW n \in 0 .. Len(L)
  PROVE  /\ SubSeq(L, 1, n) \in Seq(S)
         /\ Len(SubSeq(L, 1, n)) = n /\ DOMAIN SubSeq(L, 1, n) = 1 .. n
         /\ \A i \in 1 .. n : i \in DOMAIN L /\ SubSeq(L, 1, n)[i] = L[i]
<1>1. DOMAIN L = 1 .. Len(L) /\ Len(L) \in Nat
  BY LenProperties
<1>2. 1 \in Int /\ n \in Int
  BY <1>1
<1>3. \A i \in 1 .. n : i \in 1 .. Len(L) /\ L[i] \in S
  BY <1>1, ElementOfSeq
<1>4. /\ SubSeq(L, 1, n) \in Seq(S)
      /\ Len(SubSeq(L, 1, n)) = IF 1 <= n THEN n - 1 + 1 ELSE 0
      /\ \A i \in 1 .. n - 1 + 1 : SubSeq(L, 1, n)[i] = L[1 + i - 1]
  BY <1>2, <1>3, SubSeqProperties
<1>5. Len(SubSeq(L, 1, n)) = n
  BY <1>1, <1>4
<1>6. \A i \in 1 .. n : SubSeq(L, 1, n)[i] = L[i]
  BY <1>1, <1>4
<1>7. DOMAIN SubSeq(L, 1, n) = 1 .. Len(SubSeq(L, 1, n))
  BY <1>4, LenProperties
<1> QED BY <1>1, <1>3, <1>4, <1>5, <1>6, <1>7

\* A list without its first cut entries, as Put's eviction leaves it.
LEMMA DropOldestProperties ==
  ASSUME NEW S, NEW L \in Seq(S), NEW n \in 0 .. Len(L)
  PROVE  /\ DropOldest(L, n) \in Seq(S)
         /\ Len(DropOldest(L, n)) = Len(L) - n
         /\ DOMAIN DropOldest(L, n) = 1 .. Len(L) - n
         /\ \A i \in 1 .. Len(L) - n : n + i \in DOMAIN L /\ DropOldest(L, n)[i] = L[n + i]
<1>1. DOMAIN L = 1 .. Len(L) /\ Len(L) \in Nat
  BY LenProperties
<1>2. n + 1 \in Int /\ Len(L) \in Int
  BY <1>1
<1>3. \A i \in n + 1 .. Len(L) : i \in 1 .. Len(L) /\ L[i] \in S
  BY <1>1, ElementOfSeq
<1>4. /\ SubSeq(L, n + 1, Len(L)) \in Seq(S)
      /\ Len(SubSeq(L, n + 1, Len(L))) =
           IF n + 1 <= Len(L) THEN Len(L) - (n + 1) + 1 ELSE 0
      /\ \A i \in 1 .. Len(L) - (n + 1) + 1 :
           SubSeq(L, n + 1, Len(L))[i] = L[(n + 1) + i - 1]
  BY <1>2, <1>3, SubSeqProperties
<1>5. /\ DropOldest(L, n) \in Seq(S)
      /\ Len(DropOldest(L, n)) = IF n + 1 <= Len(L) THEN Len(L) - (n + 1) + 1 ELSE 0
      /\ \A i \in 1 .. Len(L) - (n + 1) + 1 : DropOldest(L, n)[i] = L[(n + 1) + i - 1]
  BY <1>4 DEF DropOldest
<1>6. Len(DropOldest(L, n)) = Len(L) - n
  <2>1. n \in Nat /\ n <= Len(L)
    BY <1>1
  <2>2. CASE n < Len(L)
    <3>1. n + 1 <= Len(L) /\ Len(L) - (n + 1) + 1 = Len(L) - n
      BY <1>1, <2>1, <2>2
    <3> QED BY <3>1, <1>5
  <2>3. CASE n = Len(L)
    <3>1. ~(n + 1 <= Len(L)) /\ Len(L) - n = 0
      BY <1>1, <2>3
    <3> QED BY <3>1, <1>5
  <2>4. \A j, k \in Nat : j <= k => j < k \/ j = k
    OBVIOUS
  <2>5. n < Len(L) \/ n = Len(L)
    BY <1>1, <2>1, <2>4, Zenon
  <2> QED BY <2>2, <2>3, <2>5
<1>7. DOMAIN DropOldest(L, n) = 1 .. Len(DropOldest(L, n))
  BY <1>5, LenProperties
<1>8. ASSUME NEW i \in 1 .. Len(L) - n
      PROVE  n + i \in DOMAIN L /\ DropOldest(L, n)[i] = L[n + i]
  <2>1. (n + 1) + i - 1 = n + i /\ i \in 1 .. Len(L) - (n + 1) + 1
    BY <1>1
  <2>2. DropOldest(L, n)[i] = L[(n + 1) + i - 1]
    BY <1>5, <2>1
  <2>3. n + i \in 1 .. Len(L)
    BY <1>1
  <2> QED BY <1>1, <2>1, <2>2, <2>3
<1> QED BY <1>5, <1>6, <1>7, <1>8

\* What Remove leaves when it takes entry k out.
LEMMA WithoutProperties ==
  ASSUME NEW S, NEW L \in Seq(S), NEW k \in 1 .. Len(L)
  PROVE  /\ Without(L, k) \in Seq(S)
         /\ DOMAIN Without(L, k) = 1 .. Len(L) - 1
         /\ Len(Without(L, k)) = Len(L) - 1
         /\ \A i \in 1 .. Len(L) - 1 :
              Without(L, k)[i] = IF i < k THEN L[i] ELSE L[i + 1]
<1> DEFINE A == SubSeq(L, 1, k - 1)
           B == DropOldest(L, k)
<1>1. Len(L) \in Nat
  BY LenProperties
<1>2. k - 1 \in 0 .. Len(L)
  BY <1>1
<1>3. A \in Seq(S) /\ Len(A) = k - 1 /\ \A i \in 1 .. k - 1 : A[i] = L[i]
  BY <1>2, PrefixProperties
<1>4. k \in 0 .. Len(L)
  BY <1>1
<1>5. /\ B \in Seq(S) /\ Len(B) = Len(L) - k
      /\ \A i \in 1 .. Len(L) - k : B[i] = L[k + i]
  BY <1>4, DropOldestProperties
<1>6. Without(L, k) = A \o B
  BY DEF Without, DropOldest
<1> HIDE DEF A, B
<1>7. /\ A \o B \in Seq(S)
      /\ Len(A \o B) = Len(A) + Len(B)
      /\ \A i \in 1 .. Len(A) + Len(B) :
           (A \o B)[i] = IF i <= Len(A) THEN A[i] ELSE B[i - Len(A)]
  BY <1>3, <1>5, ConcatProperties
<1>8. Len(A) + Len(B) = Len(L) - 1
  BY <1>1, <1>3, <1>5
<1>9. DOMAIN (A \o B) = 1 .. Len(L) - 1
  BY <1>7, <1>8, LenProperties
<1>10. ASSUME NEW i \in 1 .. Len(L) - 1
       PROVE  (A \o B)[i] = IF i < k THEN L[i] ELSE L[i + 1]
  <2>1. (A \o B)[i] = IF i <= Len(A) THEN A[i] ELSE B[i - Len(A)]
    BY <1>7, <1>8
  <2>2. CASE i < k
    <3>1. i <= Len(A) /\ i \in 1 .. k - 1
      BY <1>1, <1>3, <2>2
    <3> QED BY <2>1, <2>2, <3>1, <1>3
  <2>3. CASE ~(i < k)
    <3>1. ~(i <= Len(A)) /\ i - Len(A) \in 1 .. Len(L) - k
      BY <1>1, <1>3, <2>3
    <3>2. k + (i - Len(A)) = i + 1
      BY <1>3
    <3> QED BY <2>1, <2>3, <3>1, <3>2, <1>5
  <2> QED BY <2>2, <2>3
<1> QED BY <1>6, <1>7, <1>8, <1>9, <1>10

\* Put never evicts more entries than there are.
LEMMA CutPointRange ==
  ASSUME NEW S, NEW L \in Seq(S)
  PROVE  CutPoint(L) \in 0 .. Len(L)
<1>1. Len(L) \in Nat
  BY LenProperties
<1> QED BY <1>1, PoolAssumption DEF CutPoint

\* The list Put stores: what is left after the eviction, then c.
LEMMA PutListProperties ==
  ASSUME NEW S, NEW L \in Seq(S), NEW c \in S, NEW n \in 0 .. Len(L)
  PROVE  /\ Append(DropOldest(L, n), c) \in Seq(S)
         /\ Len(Append(DropOldest(L, n), c)) = Len(L) - n + 1
         /\ DOMAIN Append(DropOldest(L, n), c) = 1 .. Len(L) - n + 1
         /\ \A i \in 1 .. Len(L) - n :
              n + i \in DOMAIN L /\ Append(DropOldest(L, n), c)[i] = L[n + i]
         /\ Append(DropOldest(L, n), c)[Len(L) - n + 1] = c
<1> DEFINE A == DropOldest(L, n)
<1>1. /\ A \in Seq(S) /\ Len(A) = Len(L) - n
      /\ \A i \in 1 .. Len(L) - n : n + i \in DOMAIN L /\ A[i] = L[n + i]
  BY DropOldestProperties
<1> HIDE DEF A
<1>2. /\ Append(A, c) \in Seq(S)
      /\ Len(Append(A, c)) = Len(A) + 1
      /\ \A i \in 1 .. Len(A) : Append(A, c)[i] = A[i]
      /\ Append(A, c)[Len(A) + 1] = c
  BY <1>1, AppendProperties
<1>3. DOMAIN Append(A, c) = 1 .. Len(Append(A, c))
  BY <1>2, LenProperties
<1>4. /\ Len(Append(A, c)) = Len(L) - n + 1
      /\ DOMAIN Append(A, c) = 1 .. Len(L) - n + 1
      /\ \A i \in 1 .. Len(L) - n : n + i \in DOMAIN L /\ Append(A, c)[i] = L[n + i]
      /\ Append(A, c)[Len(L) - n + 1] = c
  BY <1>1, <1>2, <1>3
<1> QED BY <1>2, <1>4 DEF A
-----------------------------------------------------------------------------
(* Type correctness.                                                       *)

\* Closing connections leaves every idleTimer nil, armed or stopped.
LEMMA StopTimersType ==
  ASSUME TypeOK, NEW S
  PROVE  StopTimers(S) \in [Conns -> TimerStates]
BY DEF StopTimers, TypeOK, TimerStates

\* A list of the pool is a sequence of connections that were dialed.
LEMMA PooledAreDialed ==
  ASSUME TypeOK, NEW k \in Keys
  PROVE  /\ pool[k] \in Seq(dialed)
         /\ DOMAIN pool[k] = 1 .. Len(pool[k]) /\ Len(pool[k]) \in Nat
         /\ \A i \in DOMAIN pool[k] : pool[k][i] \in dialed
         /\ Pooled(k) \subseteq dialed
<1>1. pool[k] \in Seq(dialed)
  BY DEF TypeOK
<1>2. DOMAIN pool[k] = 1 .. Len(pool[k]) /\ Len(pool[k]) \in Nat
  BY <1>1, LenProperties
<1>3. \A i \in DOMAIN pool[k] : pool[k][i] \in dialed
  BY <1>1, <1>2, ElementOfSeq
<1> QED BY <1>1, <1>2, <1>3 DEF Pooled

\* An empty pool is well typed.
LEMMA TypeInit == PoolInit => TypeOK
<1> SUFFICES ASSUME PoolInit PROVE TypeOK
  OBVIOUS
<1>1. pool \in [Keys -> Seq(dialed)]
  BY EmptySeq DEF PoolInit
<1> QED BY <1>1, PoolAssumption DEF PoolInit, TypeOK, TimerStates, Phases

\* Every operation of the pool keeps its variables in their types.
LEMMA TypeStep == TypeOK /\ [PoolNext]_poolVars => TypeOK'
<1> SUFFICES ASSUME TypeOK, [PoolNext]_poolVars PROVE TypeOK'
  OBVIOUS
<1> USE PoolAssumption DEF TypeOK, TimerStates, Phases
<1>1. ASSUME NEW u \in Users, NEW c \in Conns, Dial(u, c) PROVE TypeOK'
  <2>1. pool' \in [Keys -> Seq(dialed')]
    <3>1. \A k \in Keys : pool[k] \in Seq(dialed')
      BY <1>1, PooledAreDialed, SeqMonotonic DEF Dial
    <3> QED BY <1>1, <3>1 DEF Dial
  <2> QED BY <1>1, <2>1 DEF Dial
<1>2. ASSUME NEW u \in Users, NEW k \in Keys, GetHit(u, k) PROVE TypeOK'
  <2>1. PICK i \in Usable(k) :
          /\ pool' = [pool EXCEPT ![k] = SubSeq(@, 1, i - 1)]
          /\ CloseAll({pool[k][j] : j \in i + 1 .. Len(pool[k])})
          /\ idleTimer' = [StopTimers({pool[k][j] : j \in i + 1 .. Len(pool[k])})
                             EXCEPT ![pool[k][i]] = "nil"]
          /\ idleAge' = [idleAge EXCEPT ![pool[k][i]] = 0]
          /\ lease' = [lease EXCEPT ![u] = pool[k][i]]
    BY <1>2 DEF GetHit
  <2>2. i \in 1 .. Len(pool[k]) /\ Len(pool[k]) \in Nat
    BY PooledAreDialed DEF Usable
  <2>3. pool[k][i] \in dialed
    BY <2>2, PooledAreDialed
  <2>4. {pool[k][j] : j \in i + 1 .. Len(pool[k])} \subseteq dialed
    <3>1. \A j \in i + 1 .. Len(pool[k]) : j \in 1 .. Len(pool[k])
      BY <2>2
    <3>2. \A j \in i + 1 .. Len(pool[k]) : pool[k][j] \in dialed
      BY <3>1, PooledAreDialed
    <3> QED BY <3>2
  <2>5. pool' \in [Keys -> Seq(dialed)]
    <3>1. i - 1 \in 0 .. Len(pool[k])
      BY <2>2
    <3>2. SubSeq(pool[k], 1, i - 1) \in Seq(dialed)
      BY <3>1, PooledAreDialed, PrefixProperties
    <3> QED BY <2>1, <3>2
  <2>6. closed' \subseteq dialed
    BY <2>1, <2>4 DEF CloseAll
  <2>7. idleTimer' \in [Conns -> TimerStates]
    BY <2>1, StopTimersType
  <2>8. dialed' = dialed /\ reused' = reused /\ expiring' = expiring /\ removed' = removed
    BY <1>2 DEF GetHit
  <2>9. idleAge' \in [Conns -> 0 .. IdleTimeout + 1]
    <3>1. 0 \in 0 .. IdleTimeout + 1
      OBVIOUS
    <3> QED BY <3>1, <2>1
  <2>10. /\ lease' \in [Users -> dialed \cup {NoConn}] /\ phase' \in [Users -> Phases]
         /\ \A v \in Users : phase'[v] = "idle" <=> lease'[v] = NoConn
    <3>1. phase' = [phase EXCEPT ![u] = "using"] /\ NoConn \notin dialed
      BY <1>2 DEF GetHit
    <3>2. lease' = [lease EXCEPT ![u] = pool[k][i]]
      BY <2>1
    <3> HIDE DEF TimerStates
    <3>3. lease' \in [Users -> dialed \cup {NoConn}] /\ phase' \in [Users -> Phases]
      BY <2>3, <3>1, <3>2
    <3>4. \A v \in Users : phase'[v] = "idle" <=> lease'[v] = NoConn
      BY <2>3, <3>1, <3>2
    <3> QED
      BY <3>3, <3>4
  <2> QED BY <2>5, <2>6, <2>7, <2>8, <2>9, <2>10
<1>3. ASSUME NEW u \in Users, NEW k \in Keys, GetMiss(u, k) PROVE TypeOK'
  <2>1. closed' \subseteq dialed
    BY <1>3, PooledAreDialed DEF GetMiss, CloseAll
  <2>2. idleTimer' \in [Conns -> TimerStates]
    BY <1>3, StopTimersType DEF GetMiss
  <2> QED BY <1>3, <2>1, <2>2 DEF GetMiss
<1>4. ASSUME NEW u \in Users, Return(u) PROVE TypeOK'
  BY <1>4 DEF Return
<1>5. ASSUME NEW u \in Users, Put(u) PROVE TypeOK'
  <2> DEFINE c == lease[u]
             k == KeyOf[c]
             evicted == {pool[k][i] : i \in 1 .. CutPoint(pool[k])}
  <2>1. c \in dialed /\ k \in Keys
    BY <1>5 DEF Put
  <2>2. pool[k] \in Seq(dialed) /\ CutPoint(pool[k]) \in 0 .. Len(pool[k])
    BY <2>1, CutPointRange
  <2>3. evicted \subseteq dialed
    <3>1. \A i \in 1 .. CutPoint(pool[k]) : i \in 1 .. Len(pool[k])
      BY <2>1, <2>2, PooledAreDialed
    <3>2. \A i \in 1 .. CutPoint(pool[k]) : pool[k][i] \in dialed
      BY <2>1, <3>1, PooledAreDialed
    <3> QED BY <3>2
  <2>4. /\ pool' = [pool EXCEPT ![k] = Append(DropOldest(pool[k], CutPoint(pool[k])), c)]
        /\ CloseAll(evicted)
        /\ idleTimer' = [StopTimers(evicted) EXCEPT ![c] = "armed"]
        /\ idleAge' = [idleAge EXCEPT ![c] = 0]
        /\ reused' = reused \cup {c}
        /\ lease' = [lease EXCEPT ![u] = NoConn]
        /\ phase' = [phase EXCEPT ![u] = "idle"]
        /\ dialed' = dialed /\ expiring' = expiring /\ removed' = removed
    BY <1>5 DEF Put
  <2> HIDE DEF c, k, evicted
  <2>5. pool' \in [Keys -> Seq(dialed)]
    BY <2>1, <2>2, <2>4, PutListProperties
  <2>6. idleTimer' \in [Conns -> TimerStates]
    BY <2>4, StopTimersType
  <2>7. closed' \subseteq dialed
    BY <2>3, <2>4 DEF CloseAll
  <2>8. idleAge' \in [Conns -> 0 .. IdleTimeout + 1]
    <3>1. 0 \in 0 .. IdleTimeout + 1
      OBVIOUS
    <3> QED BY <3>1, <2>4
  <2>9. /\ lease' \in [Users -> dialed \cup {NoConn}] /\ phase' \in [Users -> Phases]
        /\ \A v \in Users : phase'[v] = "idle" <=> lease'[v] = NoConn
    BY <2>4
  <2> QED BY <2>1, <2>4, <2>5, <2>6, <2>7, <2>8, <2>9
<1>6. ASSUME NEW u \in Users, Discard(u) PROVE TypeOK'
  <2>1. lease[u] \in dialed
    BY <1>6 DEF Discard
  <2>2. idleTimer' \in [Conns -> TimerStates]
    BY <1>6, StopTimersType DEF Discard
  <2> QED BY <1>6, <2>1, <2>2 DEF Discard, CloseAll
<1>7. ASSUME NEW c \in Conns, Break(c) PROVE TypeOK'
  <2>1. idleTimer' \in [Conns -> TimerStates]
    BY <1>7, StopTimersType DEF Break
  <2> QED BY <1>7, <2>1 DEF Break, CloseAll
<1>8. ASSUME NEW c \in Conns, TimerFire(c) PROVE TypeOK'
  BY <1>8 DEF TimerFire
<1>9. ASSUME NEW c \in Conns, IdleRemove(c) PROVE TypeOK'
  <2>1. expiring' \in [Conns -> 0 .. MaxExpiring]
    BY <1>9 DEF IdleRemove
  <2>2. CASE ~InPool(c) /\ pool' = pool /\ removed' = removed
    BY <1>9, <2>1, <2>2 DEF IdleRemove
  <2>3. ASSUME NEW i \in DOMAIN pool[KeyOf[c]], pool[KeyOf[c]][i] = c,
               pool' = [pool EXCEPT ![KeyOf[c]] = Without(@, i)],
               removed' = removed \cup {c}
        PROVE  TypeOK'
    <3>1. KeyOf[c] \in Keys
      OBVIOUS
    <3>2. i \in 1 .. Len(pool[KeyOf[c]]) /\ c \in dialed
      BY <2>3, <3>1, PooledAreDialed
    <3>3. Without(pool[KeyOf[c]], i) \in Seq(dialed)
      BY <3>1, <3>2, WithoutProperties
    <3>4. pool' \in [Keys -> Seq(dialed)]
      BY <2>3, <3>3
    <3> QED BY <1>9, <2>1, <2>3, <3>2, <3>4 DEF IdleRemove
  <2> QED BY <1>9, <2>2, <2>3 DEF IdleRemove
<1>10. ASSUME NEW c \in Conns, IdleClose(c) PROVE TypeOK'
  <2>1. idleTimer' \in [Conns -> TimerStates]
    BY <1>10, StopTimersType DEF IdleClose
  <2> QED BY <1>10, <2>1 DEF IdleClose, CloseAll
<1>11. ASSUME Tick PROVE TypeOK'
  <2>1. idleAge' \in [Conns -> 0 .. IdleTimeout + 1]
    BY <1>11 DEF Tick, TooOld
  <2> QED BY <1>11, <2>1 DEF Tick
<1>12. ASSUME UNCHANGED poolVars PROVE TypeOK'
  BY <1>12 DEF poolVars
<1> QED
  BY <1>1, <1>2, <1>3, <1>4, <1>5, <1>6, <1>7, <1>8, <1>9, <1>10, <1>11, <1>12
  DEF PoolNext, Background

\* Every variable of the pool keeps its type: in particular every pooled or
\* leased connection has been dialed, and a round trip holds a connection
\* exactly while it is in progress.
THEOREM TypeCorrect == PoolSpec => []TypeOK
<1>1. PoolInit => TypeOK
  BY TypeInit
<1>2. TypeOK /\ [PoolNext]_poolVars => TypeOK'
  BY TypeStep
<1> QED BY <1>1, <1>2, PTL DEF PoolSpec
-----------------------------------------------------------------------------
(* A connection is in one place at a time.                                 *)

\* An empty pool shares nothing.
LEMMA ExclusiveInit == PoolInit => Exclusive
BY PoolAssumption DEF PoolInit, Exclusive, Pooled, Leased

\* Most steps move no connection from one place to another.
LEMMA ExclusiveFrame ==
  ASSUME Exclusive, pool' = pool, removed' = removed, lease' = lease
  PROVE  Exclusive'
BY DEF Exclusive, Pooled, Leased

\* Get: what stays in the list was there before, and the connection handed
\* out is no longer in it.
LEMMA ExclusiveGet ==
  ASSUME TypeOK, Exclusive, NEW u \in Users, NEW k \in Keys, GetHit(u, k)
  PROVE  Exclusive'
<1>1. PICK i \in Usable(k) :
        /\ pool' = [pool EXCEPT ![k] = SubSeq(@, 1, i - 1)]
        /\ lease' = [lease EXCEPT ![u] = pool[k][i]]
  BY DEF GetHit
<1>2. /\ lease[u] = NoConn /\ removed' = removed
      /\ lease \in [Users -> dialed \cup {NoConn}] /\ pool \in [Keys -> Seq(dialed)]
  BY DEF GetHit, TypeOK
<1>3. DOMAIN pool[k] = 1 .. Len(pool[k]) /\ Len(pool[k]) \in Nat
  BY PooledAreDialed
<1>4. i \in DOMAIN pool[k] /\ i - 1 \in 0 .. Len(pool[k])
  BY <1>3 DEF Usable
<1> DEFINE c == pool[k][i]
<1>5. c \in Pooled(k)
  BY <1>4 DEF Pooled
<1>6. KeyOf[c] = k /\ c \notin removed /\ ~Leased(c)
  BY <1>5 DEF Exclusive
<1>7. /\ DOMAIN pool'[k] = 1 .. i - 1
      /\ \A j \in 1 .. i - 1 : j \in DOMAIN pool[k] /\ pool'[k][j] = pool[k][j]
  BY <1>1, <1>2, <1>4, PooledAreDialed, PrefixProperties
<1>8. \A j \in 1 .. i - 1 : j # i
  BY <1>3, <1>4
<1>9. \A q \in Keys : q # k => pool'[q] = pool[q]
  BY <1>1, <1>2
<1>10. \A j \in DOMAIN pool'[k] : pool'[k][j] # c
  BY <1>4, <1>7, <1>8 DEF Exclusive
<1>11. \A q \in Keys : \A d \in Pooled(q)' : d \in Pooled(q) /\ d # c
  <2> SUFFICES ASSUME NEW q \in Keys, NEW d \in Pooled(q)'
               PROVE  d \in Pooled(q) /\ d # c
    OBVIOUS
  <2>1. CASE q = k
    BY <1>7, <1>10, <2>1 DEF Pooled
  <2>2. CASE q # k
    <3>1. d \in Pooled(q)
      BY <1>9, <2>2 DEF Pooled
    <3>2. KeyOf[d] = q
      BY <3>1 DEF Exclusive
    <3> QED BY <1>6, <2>2, <3>1, <3>2
  <2> QED BY <2>1, <2>2
<1>12. \A q \in Keys : \A m, n \in DOMAIN pool'[q] :
         pool'[q][m] = pool'[q][n] => m = n
  <2> SUFFICES ASSUME NEW q \in Keys, NEW m \in DOMAIN pool'[q],
                      NEW n \in DOMAIN pool'[q], pool'[q][m] = pool'[q][n]
               PROVE  m = n
    OBVIOUS
  <2>1. CASE q = k
    <3>1. m \in 1 .. i - 1 /\ n \in 1 .. i - 1
      BY <1>7, <2>1
    <3>2. m \in DOMAIN pool[k] /\ n \in DOMAIN pool[k] /\ pool[k][m] = pool[k][n]
      BY <1>7, <2>1, <3>1
    <3> QED BY <3>2 DEF Exclusive
  <2>2. CASE q # k
    BY <1>9, <2>2 DEF Exclusive
  <2> QED BY <2>1, <2>2
<1>13. \A v \in Users : lease'[v] = IF v = u THEN c ELSE lease[v]
  BY <1>1, <1>2
<1>14. c # NoConn
  <2>1. c \in dialed
    BY <1>4, PooledAreDialed
  <2> QED BY <2>1, PoolAssumption DEF TypeOK
<1> HIDE DEF c
<1>15. \A q \in Keys : \A d \in Pooled(q)' :
         KeyOf[d] = q /\ d \notin removed' /\ ~Leased(d)'
  <2> SUFFICES ASSUME NEW q \in Keys, NEW d \in Pooled(q)'
               PROVE  KeyOf[d] = q /\ d \notin removed' /\ ~Leased(d)'
    OBVIOUS
  <2>1. d \in Pooled(q) /\ d # c
    BY <1>11
  <2>2. KeyOf[d] = q /\ d \notin removed /\ ~Leased(d)
    BY <2>1 DEF Exclusive
  <2> QED BY <1>2, <1>13, <2>1, <2>2 DEF Leased
<1>16. \A v, w \in Users : lease'[v] = lease'[w] /\ lease'[v] # NoConn => v = w
  <2>1. \A v \in Users : lease[v] # c
    BY <1>6 DEF Leased
  <2> QED BY <1>13, <2>1 DEF Exclusive
<1>17. \A v \in Users : lease'[v] \notin removed'
  BY <1>2, <1>6, <1>13 DEF Exclusive
<1> QED BY <1>12, <1>15, <1>16, <1>17 DEF Exclusive

\* Put: the connection added was its round trip's alone.
LEMMA ExclusivePut ==
  ASSUME TypeOK, Exclusive, NEW u \in Users, Put(u)
  PROVE  Exclusive'
<1>a. PICK c \in dialed : c = lease[u] /\ c \in Conns
  BY DEF Put, TypeOK
<1>b. PICK k \in Keys : k = KeyOf[c]
  BY <1>a, PoolAssumption
<1> DEFINE cut == CutPoint(pool[k])
<1>1. /\ pool' = [pool EXCEPT ![k] = Append(DropOldest(pool[k], cut), c)]
      /\ lease' = [lease EXCEPT ![u] = NoConn]
      /\ removed' = removed /\ phase[u] = "putting"
  BY <1>a, <1>b DEF Put
<1>2. /\ c \in dialed /\ c \in Conns /\ c # NoConn /\ k \in Keys
      /\ lease \in [Users -> dialed \cup {NoConn}] /\ pool \in [Keys -> Seq(dialed)]
      /\ removed \subseteq Conns
  BY <1>1, <1>a, PoolAssumption DEF TypeOK
<1>3. Leased(c)
  BY <1>a DEF Leased
<1>4. c \notin removed /\ \A q \in Keys : c \notin Pooled(q)
  BY <1>3, <1>a DEF Exclusive
<1>5. \A v \in Users : v # u => lease[v] # c
  BY <1>2, <1>a DEF Exclusive
<1>6. DOMAIN pool[k] = 1 .. Len(pool[k]) /\ Len(pool[k]) \in Nat /\ cut \in 0 .. Len(pool[k])
  BY <1>2, PooledAreDialed, CutPointRange
<1> HIDE DEF cut
<1>7. LET R == Append(DropOldest(pool[k], cut), c) IN
      /\ DOMAIN R = 1 .. Len(pool[k]) - cut + 1
      /\ \A i \in 1 .. Len(pool[k]) - cut : cut + i \in DOMAIN pool[k] /\ R[i] = pool[k][cut + i]
      /\ R[Len(pool[k]) - cut + 1] = c
  BY <1>2, <1>6, PutListProperties
<1> DEFINE n == Len(pool[k]) - cut
<1>8. /\ DOMAIN pool'[k] = 1 .. n + 1
      /\ \A i \in 1 .. n : cut + i \in DOMAIN pool[k] /\ pool'[k][i] = pool[k][cut + i]
      /\ pool'[k][n + 1] = c
  BY <1>1, <1>2, <1>7
<1>9. n \in Nat /\ cut \in Nat
  BY <1>6
<1> HIDE DEF n
<1>10. \A i \in 1 .. n + 1 : i \in 1 .. n \/ i = n + 1
  BY <1>9
<1>11. \A i \in 1 .. n : pool'[k][i] # c
  BY <1>2, <1>4, <1>8 DEF Pooled
<1>12. \A q \in Keys : q # k => pool'[q] = pool[q]
  BY <1>1, <1>2
<1>13. \A q \in Keys : \A d \in Pooled(q)' : d \in Pooled(q) \/ (d = c /\ q = k)
  <2> SUFFICES ASSUME NEW q \in Keys, NEW d \in Pooled(q)'
               PROVE  d \in Pooled(q) \/ (d = c /\ q = k)
    OBVIOUS
  <2>1. CASE q = k
    <3>1. PICK i \in 1 .. n + 1 : d = pool'[k][i]
      BY <1>8, <2>1 DEF Pooled
    <3>2. CASE i \in 1 .. n
      BY <1>8, <2>1, <3>1, <3>2 DEF Pooled
    <3>3. CASE i = n + 1
      BY <1>8, <2>1, <3>1, <3>3
    <3> QED BY <1>10, <3>1, <3>2, <3>3
  <2>2. CASE q # k
    BY <1>12, <2>2 DEF Pooled
  <2> QED BY <2>1, <2>2
<1>14. \A q \in Keys : \A i, j \in DOMAIN pool'[q] :
         pool'[q][i] = pool'[q][j] => i = j
  <2> SUFFICES ASSUME NEW q \in Keys, NEW i \in DOMAIN pool'[q],
                      NEW j \in DOMAIN pool'[q], pool'[q][i] = pool'[q][j]
               PROVE  i = j
    OBVIOUS
  <2>1. CASE q = k
    <3>1. i \in 1 .. n + 1 /\ j \in 1 .. n + 1
      BY <1>8, <2>1
    <3>2. CASE i \in 1 .. n /\ j \in 1 .. n
      <4>1. cut + i = cut + j
        BY <1>2, <1>8, <2>1, <3>2 DEF Exclusive
      <4> QED BY <4>1, <3>2, <1>9
    <3>3. CASE i = n + 1 \/ j = n + 1
      BY <1>8, <1>10, <1>11, <2>1, <3>1, <3>3
    <3> QED BY <1>10, <3>1, <3>2, <3>3
  <2>2. CASE q # k
    BY <1>12, <2>2 DEF Exclusive
  <2> QED BY <2>1, <2>2
<1>15. \A v \in Users : lease'[v] = IF v = u THEN NoConn ELSE lease[v]
  BY <1>1, <1>2
<1>16. \A q \in Keys : \A d \in Pooled(q)' :
         KeyOf[d] = q /\ d \notin removed' /\ ~Leased(d)'
  <2> SUFFICES ASSUME NEW q \in Keys, NEW d \in Pooled(q)'
               PROVE  KeyOf[d] = q /\ d \notin removed' /\ ~Leased(d)'
    OBVIOUS
  <2>1. CASE d \in Pooled(q)
    <3>1. KeyOf[d] = q /\ d \notin removed /\ ~Leased(d) /\ d # NoConn
      <4>1. d \in dialed
        BY <2>1, PooledAreDialed
      <4> QED BY <2>1, <4>1, PoolAssumption DEF Exclusive, TypeOK
    <3> QED BY <1>1, <1>15, <3>1 DEF Leased
  <2>2. CASE d = c /\ q = k
    <3>1. ~Leased(c)'
      BY <1>2, <1>5, <1>15 DEF Leased
    <3> QED BY <1>1, <1>4, <1>b, <2>2, <3>1
  <2> QED BY <1>13, <2>1, <2>2
<1>17. \A v, w \in Users : lease'[v] = lease'[w] /\ lease'[v] # NoConn => v = w
  BY <1>15 DEF Exclusive
<1>18. \A v \in Users : lease'[v] \notin removed'
  BY <1>1, <1>2, <1>15, PoolAssumption DEF Exclusive
<1> QED BY <1>14, <1>16, <1>17, <1>18 DEF Exclusive

\* IdleRemove: the connection goes from the list, where nobody held it, to
\* the timer goroutine.
LEMMA ExclusiveRemove ==
  ASSUME TypeOK, Exclusive, NEW c \in Conns, IdleRemove(c)
  PROVE  Exclusive'
<1>1. CASE pool' = pool /\ removed' = removed
  BY <1>1, ExclusiveFrame DEF IdleRemove
<1>2. ASSUME NEW x \in DOMAIN pool[KeyOf[c]], pool[KeyOf[c]][x] = c,
             pool' = [pool EXCEPT ![KeyOf[c]] = Without(@, x)],
             removed' = removed \cup {c}
      PROVE  Exclusive'
  <2>a. PICK k \in Keys : k = KeyOf[c]
    BY PoolAssumption
  <2>1. /\ pool' = [pool EXCEPT ![k] = Without(@, x)] /\ x \in DOMAIN pool[k]
        /\ pool[k][x] = c /\ lease' = lease /\ pool \in [Keys -> Seq(dialed)]
        /\ removed' = removed \cup {c}
    BY <1>2, <2>a DEF IdleRemove, TypeOK
  <2>2. DOMAIN pool[k] = 1 .. Len(pool[k]) /\ Len(pool[k]) \in Nat
    BY PooledAreDialed
  <2>3. /\ DOMAIN pool'[k] = 1 .. Len(pool[k]) - 1
        /\ \A i \in 1 .. Len(pool[k]) - 1 :
             pool'[k][i] = IF i < x THEN pool[k][i] ELSE pool[k][i + 1]
    <3>1. pool'[k] = Without(pool[k], x) /\ x \in 1 .. Len(pool[k])
      BY <2>1, <2>2
    <3> QED BY <3>1, PooledAreDialed, WithoutProperties
  \* old is where an entry of the new list was in the old one.
  <2> DEFINE old(i) == IF i < x THEN i ELSE i + 1
  <2>4. \A i \in 1 .. Len(pool[k]) - 1 :
          old(i) \in DOMAIN pool[k] /\ old(i) # x /\ pool'[k][i] = pool[k][old(i)]
    BY <2>1, <2>2, <2>3
  <2>5. \A i, j \in 1 .. Len(pool[k]) - 1 : old(i) = old(j) => i = j
    BY <2>1, <2>2
  <2> HIDE DEF old
  <2>6. \A q \in Keys : q # k => pool'[q] = pool[q]
    BY <2>1
  <2>7. \A i \in 1 .. Len(pool[k]) - 1 : pool'[k][i] # c
    BY <2>1, <2>4 DEF Exclusive
  <2>8. c \in Pooled(k)
    BY <2>1 DEF Pooled
  <2>9. \A q \in Keys : \A d \in Pooled(q)' : d \in Pooled(q) /\ d # c
    <3> SUFFICES ASSUME NEW q \in Keys, NEW d \in Pooled(q)'
                 PROVE  d \in Pooled(q) /\ d # c
      OBVIOUS
    <3>1. CASE q = k
      <4>1. PICK i \in 1 .. Len(pool[k]) - 1 : d = pool'[k][i]
        BY <2>3, <3>1 DEF Pooled
      <4>2. old(i) \in DOMAIN pool[k] /\ d = pool[k][old(i)] /\ d # c
        BY <2>4, <2>7, <4>1
      <4> QED BY <3>1, <4>2 DEF Pooled
    <3>2. CASE q # k
      <4>1. d \in Pooled(q)
        BY <2>6, <3>2 DEF Pooled
      <4>2. KeyOf[d] = q
        BY <4>1 DEF Exclusive
      <4> QED BY <2>a, <3>2, <4>1, <4>2
    <3> QED BY <3>1, <3>2
  <2>10. \A q \in Keys : \A m, n \in DOMAIN pool'[q] :
           pool'[q][m] = pool'[q][n] => m = n
    <3> SUFFICES ASSUME NEW q \in Keys, NEW m \in DOMAIN pool'[q],
                        NEW n \in DOMAIN pool'[q], pool'[q][m] = pool'[q][n]
                 PROVE  m = n
      OBVIOUS
    <3>1. CASE q = k
      <4>1. m \in 1 .. Len(pool[k]) - 1 /\ n \in 1 .. Len(pool[k]) - 1
        BY <2>3, <3>1
      <4>2. /\ old(m) \in DOMAIN pool[k] /\ old(n) \in DOMAIN pool[k]
            /\ pool[k][old(m)] = pool[k][old(n)]
        BY <2>4, <3>1, <4>1
      <4>3. old(m) = old(n)
        BY <4>2 DEF Exclusive
      <4> QED BY <2>5, <4>1, <4>3
    <3>2. CASE q # k
      BY <2>6, <3>2 DEF Exclusive
    <3> QED BY <3>1, <3>2
  <2>11. \A q \in Keys : \A d \in Pooled(q)' :
           KeyOf[d] = q /\ d \notin removed' /\ ~Leased(d)'
    BY <2>1, <2>9 DEF Exclusive, Leased
  <2>12. \A v, w \in Users : lease'[v] = lease'[w] /\ lease'[v] # NoConn => v = w
    BY <2>1 DEF Exclusive
  <2>13. \A v \in Users : lease'[v] \notin removed'
    <3>1. ~Leased(c)
      BY <2>8 DEF Exclusive
    <3> QED BY <2>1, <3>1 DEF Exclusive, Leased
  <2> QED BY <2>10, <2>11, <2>12, <2>13 DEF Exclusive
<1> QED BY <1>1, <1>2 DEF IdleRemove

\* Every operation of the pool keeps a connection in one place.
LEMMA ExclusiveStep == TypeOK /\ Exclusive /\ [PoolNext]_poolVars => Exclusive'
<1> SUFFICES ASSUME TypeOK, Exclusive, [PoolNext]_poolVars PROVE Exclusive'
  OBVIOUS
<1>1. ASSUME NEW u \in Users, NEW c \in Conns, Dial(u, c) PROVE Exclusive'
  <2>1. /\ pool' = pool /\ removed' = removed /\ lease' = [lease EXCEPT ![u] = c]
        /\ c \notin dialed /\ removed \subseteq dialed
        /\ lease \in [Users -> dialed \cup {NoConn}]
    BY <1>1 DEF Dial, TypeOK
  <2>2. c # NoConn
    BY PoolAssumption
  <2>3. \A q \in Keys : Pooled(q)' = Pooled(q) /\ c \notin Pooled(q)
    BY <2>1, PooledAreDialed DEF Pooled
  <2>4. \A v \in Users : lease'[v] = IF v = u THEN c ELSE lease[v]
    BY <2>1
  <2>5. \A v \in Users : lease[v] # c
    BY <2>1, <2>2
  <2>6. \A q \in Keys : \A d \in Pooled(q)' :
          KeyOf[d] = q /\ d \notin removed' /\ ~Leased(d)'
    BY <2>1, <2>3, <2>4 DEF Exclusive, Leased
  <2>7. \A v, w \in Users : lease'[v] = lease'[w] /\ lease'[v] # NoConn => v = w
    BY <2>4, <2>5 DEF Exclusive
  <2>8. \A v \in Users : lease'[v] \notin removed'
    BY <2>1, <2>4 DEF Exclusive
  <2>9. \A q \in Keys : \A i, j \in DOMAIN pool'[q] : pool'[q][i] = pool'[q][j] => i = j
    BY <2>1 DEF Exclusive
  <2> QED BY <2>6, <2>7, <2>8, <2>9 DEF Exclusive
<1>2. ASSUME NEW u \in Users, NEW k \in Keys, GetHit(u, k) PROVE Exclusive'
  BY <1>2, ExclusiveGet
<1>3. ASSUME NEW u \in Users, NEW k \in Keys, GetMiss(u, k) PROVE Exclusive'
  BY <1>3, ExclusiveFrame DEF GetMiss
<1>4. ASSUME NEW u \in Users, Return(u) PROVE Exclusive'
  BY <1>4, ExclusiveFrame DEF Return
<1>5. ASSUME NEW u \in Users, Put(u) PROVE Exclusive'
  BY <1>5, ExclusivePut
<1>6. ASSUME NEW u \in Users, Discard(u) PROVE Exclusive'
  <2>1. /\ pool' = pool /\ removed' = removed /\ lease' = [lease EXCEPT ![u] = NoConn]
        /\ removed \subseteq Conns /\ lease \in [Users -> dialed \cup {NoConn}]
    BY <1>6 DEF Discard, TypeOK
  <2>2. \A v \in Users : lease'[v] = IF v = u THEN NoConn ELSE lease[v]
    BY <2>1
  <2>3. \A q \in Keys : \A d \in Pooled(q)' :
          KeyOf[d] = q /\ d \notin removed' /\ ~Leased(d)'
    <3> SUFFICES ASSUME NEW q \in Keys, NEW d \in Pooled(q)'
                 PROVE  KeyOf[d] = q /\ d \notin removed' /\ ~Leased(d)'
      OBVIOUS
    <3>1. d \in Pooled(q)
      BY <2>1 DEF Pooled
    <3>2. d # NoConn
      BY <3>1, PooledAreDialed, PoolAssumption DEF TypeOK
    <3>3. KeyOf[d] = q /\ d \notin removed /\ ~Leased(d)
      BY <3>1 DEF Exclusive
    <3> QED BY <2>1, <2>2, <3>2, <3>3 DEF Leased
  <2>4. \A v, w \in Users : lease'[v] = lease'[w] /\ lease'[v] # NoConn => v = w
    BY <2>2 DEF Exclusive
  <2>5. \A v \in Users : lease'[v] \notin removed'
    BY <2>1, <2>2, PoolAssumption DEF Exclusive
  <2>6. \A q \in Keys : \A i, j \in DOMAIN pool'[q] : pool'[q][i] = pool'[q][j] => i = j
    BY <2>1 DEF Exclusive
  <2> QED BY <2>3, <2>4, <2>5, <2>6 DEF Exclusive
<1>7. ASSUME NEW c \in Conns, Break(c) PROVE Exclusive'
  BY <1>7, ExclusiveFrame DEF Break
<1>8. ASSUME NEW c \in Conns, TimerFire(c) PROVE Exclusive'
  BY <1>8, ExclusiveFrame DEF TimerFire
<1>9. ASSUME NEW c \in Conns, IdleRemove(c) PROVE Exclusive'
  BY <1>9, ExclusiveRemove
<1>10. ASSUME NEW c \in Conns, IdleClose(c) PROVE Exclusive'
  BY <1>10 DEF IdleClose, Exclusive, Pooled, Leased
<1>11. ASSUME Tick PROVE Exclusive'
  BY <1>11, ExclusiveFrame DEF Tick
<1>12. ASSUME UNCHANGED poolVars PROVE Exclusive'
  BY <1>12, ExclusiveFrame DEF poolVars
<1> QED
  BY <1>1, <1>2, <1>3, <1>4, <1>5, <1>6, <1>7, <1>8, <1>9, <1>10, <1>11, <1>12
  DEF PoolNext, Background

\* A connection is never in two hands, whatever the interleaving of round
\* trips, evictions, breaks and late idle timers.
THEOREM PoolIsExclusive == PoolSpec => []Exclusive
<1>1. PoolInit => TypeOK /\ Exclusive
  BY TypeInit, ExclusiveInit
<1>2. TypeOK /\ Exclusive /\ [PoolNext]_poolVars => TypeOK' /\ Exclusive'
  BY TypeStep, ExclusiveStep
<1> QED BY <1>1, <1>2, PTL DEF PoolSpec
-----------------------------------------------------------------------------
(* No socket is lost.                                                      *)

\* An open connection outside the lists that a step shortens stays where it
\* was; what a step drops from a list, it closes or hands over.
LEMMA NoLeakStep ==
  TypeOK /\ NoLeak /\ [PoolNext]_poolVars => NoLeak'
<1> SUFFICES ASSUME TypeOK, NoLeak, [PoolNext]_poolVars,
                    NEW d \in dialed' \ closed'
             PROVE  (Leased(d) \/ InPool(d) \/ d \in removed)'
  BY DEF NoLeak
<1> DEFINE Kept == (Leased(d) \/ InPool(d) \/ d \in removed)'
<1>0. d \in dialed \ closed => Leased(d) \/ InPool(d) \/ d \in removed
  BY DEF NoLeak
<1>1. ASSUME NEW u \in Users, NEW c \in Conns, Dial(u, c) PROVE Kept
  <2>1. /\ pool' = pool /\ removed' = removed /\ closed' = closed
        /\ dialed' = dialed \cup {c} /\ lease' = [lease EXCEPT ![u] = c]
        /\ lease \in [Users -> dialed \cup {NoConn}] /\ lease[u] = NoConn
    BY <1>1 DEF Dial, TypeOK
  <2>2. CASE d = c
    BY <2>1, <2>2 DEF Leased
  <2>3. CASE d # c
    <3>1. d \in dialed \ closed /\ d # NoConn
      BY <2>1, <2>3, PoolAssumption DEF TypeOK
    <3>2. Leased(d) => Leased(d)'
      BY <2>1, <3>1 DEF Leased
    <3> QED BY <1>0, <2>1, <3>1, <3>2 DEF InPool, Pooled
  <2> QED BY <2>2, <2>3
<1>2. ASSUME NEW u \in Users, NEW k \in Keys, GetHit(u, k) PROVE Kept
  <2>1. PICK i \in Usable(k) :
          /\ pool' = [pool EXCEPT ![k] = SubSeq(@, 1, i - 1)]
          /\ CloseAll({pool[k][j] : j \in i + 1 .. Len(pool[k])})
          /\ lease' = [lease EXCEPT ![u] = pool[k][i]]
    BY <1>2 DEF GetHit
  <2>2. /\ lease[u] = NoConn /\ removed' = removed /\ dialed' = dialed
        /\ lease \in [Users -> dialed \cup {NoConn}] /\ pool \in [Keys -> Seq(dialed)]
        /\ dialed \subseteq Conns
    BY <1>2 DEF GetHit, TypeOK
  <2>3. d \in dialed \ closed /\ d # NoConn /\ KeyOf[d] \in Keys
        /\ \A j \in i + 1 .. Len(pool[k]) : d # pool[k][j]
    BY <2>1, <2>2, PoolAssumption DEF CloseAll
  <2>4. DOMAIN pool[k] = 1 .. Len(pool[k]) /\ Len(pool[k]) \in Nat /\ i \in 1 .. Len(pool[k])
    BY PooledAreDialed DEF Usable
  <2>5. /\ DOMAIN pool'[k] = 1 .. i - 1
        /\ \A j \in 1 .. i - 1 : pool'[k][j] = pool[k][j]
    <3>1. i - 1 \in 0 .. Len(pool[k]) /\ pool'[k] = SubSeq(pool[k], 1, i - 1)
      BY <2>1, <2>2, <2>4
    <3> QED BY <3>1, PooledAreDialed, PrefixProperties
  <2>6. CASE Leased(d)
    BY <2>1, <2>2, <2>3, <2>6 DEF Leased
  <2>7. CASE InPool(d)
    <3>1. CASE KeyOf[d] = k
      <4>1. PICK j \in 1 .. Len(pool[k]) : d = pool[k][j]
        BY <2>4, <2>7, <3>1 DEF InPool, Pooled
      <4>2. CASE j = i
        BY <2>1, <2>2, <4>1, <4>2 DEF Leased
      <4>3. CASE j # i
        <5>1. j \in 1 .. i - 1
          BY <2>3, <2>4, <4>1, <4>3
        <5> QED BY <2>5, <3>1, <4>1, <5>1 DEF InPool, Pooled
      <4> QED BY <4>2, <4>3
    <3>2. CASE KeyOf[d] # k
      <4>1. pool'[KeyOf[d]] = pool[KeyOf[d]]
        BY <2>1, <2>2, <2>3, <3>2
      <4> QED BY <4>1, <2>7 DEF InPool, Pooled
    <3> QED BY <3>1, <3>2
  <2>8. CASE d \in removed
    BY <2>2, <2>8
  <2> QED BY <1>0, <2>3, <2>6, <2>7, <2>8
<1>3. ASSUME NEW u \in Users, NEW k \in Keys, GetMiss(u, k) PROVE Kept
  BY <1>0, <1>3 DEF GetMiss, CloseAll, InPool, Pooled, Leased
<1>4. ASSUME NEW u \in Users, Return(u) PROVE Kept
  BY <1>0, <1>4 DEF Return, InPool, Pooled, Leased
<1>5. ASSUME NEW u \in Users, Put(u) PROVE Kept
  <2>a. PICK c \in dialed : c = lease[u] /\ c \in Conns
    BY <1>5 DEF Put, TypeOK
  <2>b. PICK k \in Keys : k = KeyOf[c]
    BY <2>a, PoolAssumption
  <2>c. PICK n \in 0 .. Len(pool[k]) : n = CutPoint(pool[k])
    BY PooledAreDialed, CutPointRange
  <2>1. /\ pool' = [pool EXCEPT ![k] = Append(DropOldest(pool[k], n), c)]
        /\ CloseAll({pool[k][i] : i \in 1 .. n})
        /\ lease' = [lease EXCEPT ![u] = NoConn]
        /\ removed' = removed /\ dialed' = dialed
    BY <1>5, <2>a, <2>b, <2>c DEF Put
  <2>2. /\ lease \in [Users -> dialed \cup {NoConn}] /\ pool \in [Keys -> Seq(dialed)]
        /\ dialed \subseteq Conns
    BY DEF TypeOK
  <2>3. DOMAIN pool[k] = 1 .. Len(pool[k]) /\ Len(pool[k]) \in Nat
    BY PooledAreDialed
  <2>4. /\ DOMAIN pool'[k] = 1 .. Len(pool[k]) - n + 1
        /\ \A i \in 1 .. Len(pool[k]) - n : pool'[k][i] = pool[k][n + i]
        /\ pool'[k][Len(pool[k]) - n + 1] = c
    <3>1. pool'[k] = Append(DropOldest(pool[k], n), c)
      BY <2>1, <2>2
    <3> QED BY <3>1, PooledAreDialed, PutListProperties
  <2>5. /\ d \in dialed \ closed /\ KeyOf[d] \in Keys
        /\ \A i \in 1 .. n : d # pool[k][i]
    BY <2>1, <2>2, PoolAssumption DEF CloseAll
  <2>6. CASE d = c
    <3>1. Len(pool[k]) - n + 1 \in 1 .. Len(pool[k]) - n + 1
      BY <2>3
    <3>2. c \in Pooled(k)'
      BY <2>4, <3>1 DEF Pooled
    <3> QED BY <2>6, <2>b, <3>2 DEF InPool
  <2>7. CASE d # c /\ Leased(d)
    BY <2>1, <2>2, <2>a, <2>7 DEF Leased
  <2>8. CASE InPool(d)
    <3>1. CASE KeyOf[d] = k
      <4>1. PICK j \in 1 .. Len(pool[k]) : d = pool[k][j]
        BY <2>3, <2>8, <3>1 DEF InPool, Pooled
      <4>2. /\ j - n \in 1 .. Len(pool[k]) - n /\ n + (j - n) = j
            /\ j - n \in 1 .. Len(pool[k]) - n + 1
        BY <2>3, <2>5, <4>1
      <4>3. pool'[k][j - n] = d
        BY <2>4, <4>1, <4>2
      <4>4. d \in Pooled(k)'
        BY <2>4, <4>2, <4>3 DEF Pooled
      <4> QED BY <3>1, <4>4 DEF InPool
    <3>2. CASE KeyOf[d] # k
      <4>1. pool'[KeyOf[d]] = pool[KeyOf[d]]
        BY <2>1, <2>2, <2>5, <3>2
      <4> QED BY <4>1, <2>8 DEF InPool, Pooled
    <3> QED BY <3>1, <3>2
  <2>9. CASE d \in removed
    BY <2>1, <2>9
  <2> QED BY <1>0, <2>5, <2>6, <2>7, <2>8, <2>9
<1>6. ASSUME NEW u \in Users, Discard(u) PROVE Kept
  <2>1. /\ pool' = pool /\ removed' = removed /\ dialed' = dialed
        /\ closed' = closed \cup {lease[u]} /\ lease' = [lease EXCEPT ![u] = NoConn]
        /\ lease \in [Users -> dialed \cup {NoConn}]
    BY <1>6 DEF Discard, CloseAll, TypeOK
  <2>2. d \in dialed \ closed /\ d # lease[u]
    BY <2>1
  <2>3. Leased(d) => Leased(d)'
    BY <2>1, <2>2 DEF Leased
  <2> QED BY <1>0, <2>1, <2>2, <2>3 DEF InPool, Pooled
<1>7. ASSUME NEW c \in Conns, Break(c) PROVE Kept
  BY <1>0, <1>7 DEF Break, CloseAll, InPool, Pooled, Leased
<1>8. ASSUME NEW c \in Conns, TimerFire(c) PROVE Kept
  BY <1>0, <1>8 DEF TimerFire, InPool, Pooled, Leased
<1>9. ASSUME NEW c \in Conns, IdleRemove(c) PROVE Kept
  <2>1. lease' = lease /\ dialed' = dialed /\ closed' = closed
    BY <1>9 DEF IdleRemove
  <2>2. CASE pool' = pool /\ removed' = removed
    BY <1>0, <2>1, <2>2 DEF InPool, Pooled, Leased
  <2>3. ASSUME NEW x \in DOMAIN pool[KeyOf[c]], pool[KeyOf[c]][x] = c,
               pool' = [pool EXCEPT ![KeyOf[c]] = Without(@, x)],
               removed' = removed \cup {c}
        PROVE  Kept
    <3>a. PICK k \in Keys : k = KeyOf[c]
      BY PoolAssumption
    <3>1. /\ pool' = [pool EXCEPT ![k] = Without(@, x)] /\ x \in DOMAIN pool[k]
          /\ pool[k][x] = c /\ pool \in [Keys -> Seq(dialed)] /\ dialed \subseteq Conns
      BY <2>3, <3>a DEF TypeOK
    <3>2. DOMAIN pool[k] = 1 .. Len(pool[k]) /\ Len(pool[k]) \in Nat
      BY PooledAreDialed
    <3>3. /\ DOMAIN pool'[k] = 1 .. Len(pool[k]) - 1
          /\ \A i \in 1 .. Len(pool[k]) - 1 :
               pool'[k][i] = IF i < x THEN pool[k][i] ELSE pool[k][i + 1]
      <4>1. pool'[k] = Without(pool[k], x) /\ x \in 1 .. Len(pool[k])
        BY <3>1, <3>2
      <4> QED BY <4>1, PooledAreDialed, WithoutProperties
    <3>4. CASE Leased(d) \/ d \in removed \/ d = c
      BY <2>1, <2>3, <3>4 DEF Leased
    <3>5. CASE InPool(d) /\ d # c
      <4>1. CASE KeyOf[d] = k
        <5>1. PICK j \in 1 .. Len(pool[k]) : d = pool[k][j]
          BY <3>2, <3>5, <4>1 DEF InPool, Pooled
        <5>2. CASE j < x
          <6>1. j \in 1 .. Len(pool[k]) - 1 /\ pool'[k][j] = d
            BY <3>1, <3>2, <3>3, <5>1, <5>2
          <6> QED BY <3>3, <4>1, <6>1 DEF InPool, Pooled
        <5>3. CASE j > x
          <6>1. j - 1 \in 1 .. Len(pool[k]) - 1 /\ ~(j - 1 < x) /\ (j - 1) + 1 = j
            BY <3>1, <3>2, <5>1, <5>3
          <6>2. pool'[k][j - 1] = d
            BY <3>3, <5>1, <6>1
          <6> QED BY <3>3, <4>1, <6>1, <6>2 DEF InPool, Pooled
        <5>4. j # x /\ j \in Int /\ x \in Int
          BY <3>1, <3>2, <3>5, <5>1
        <5> QED BY <5>2, <5>3, <5>4
      <4>2. CASE KeyOf[d] # k
        <5>1. pool'[KeyOf[d]] = pool[KeyOf[d]]
          BY <2>1, <3>1, <4>2, PoolAssumption
        <5> QED BY <5>1, <3>5 DEF InPool, Pooled
      <4> QED BY <4>1, <4>2
    <3> QED BY <1>0, <2>1, <3>4, <3>5
  <2> QED BY <1>9, <2>2, <2>3 DEF IdleRemove
<1>10. ASSUME NEW c \in Conns, IdleClose(c) PROVE Kept
  BY <1>0, <1>10 DEF IdleClose, CloseAll, InPool, Pooled, Leased
<1>11. ASSUME Tick PROVE Kept
  BY <1>0, <1>11 DEF Tick, InPool, Pooled, Leased
<1>12. ASSUME UNCHANGED poolVars PROVE Kept
  BY <1>0, <1>12 DEF poolVars, InPool, Pooled, Leased
<1> QED
  BY <1>1, <1>2, <1>3, <1>4, <1>5, <1>6, <1>7, <1>8, <1>9, <1>10, <1>11, <1>12
  DEF PoolNext, Background

\* An open connection is always in somebody's hands, so that somebody will
\* use it again or close it.
THEOREM NoConnectionLeaks == PoolSpec => []NoLeak
<1>1. PoolInit => TypeOK /\ NoLeak
  BY TypeInit DEF PoolInit, NoLeak
<1>2. TypeOK /\ NoLeak /\ [PoolNext]_poolVars => TypeOK' /\ NoLeak'
  BY TypeStep, NoLeakStep
<1> QED BY <1>1, <1>2, PTL DEF PoolSpec

-----------------------------------------------------------------------------
(* What the operations do to the lists.                                    *)

\* With Exclusive, a pooled connection is in the list of its own key.
LEMMA PooledIsInPool ==
  ASSUME TypeOK, Exclusive, NEW k \in Keys, NEW c \in Pooled(k)
  PROVE  /\ c \in Conns /\ c \in dialed /\ KeyOf[c] = k /\ InPool(c)
         /\ ~Leased(c) /\ c \notin removed
<1>1. c \in dialed
  BY PooledAreDialed
<1> QED
  BY <1>1 DEF TypeOK, Exclusive, InPool

\* Get hands out the entry at some position, closes those after it, and keeps
\* those before it.
LEMMA GetEffect ==
  ASSUME TypeOK, Exclusive, NEW u \in Users, NEW k \in Keys, GetHit(u, k)
  PROVE  \E i \in 1 .. Len(pool[k]), c \in Pooled(k), skipped \in SUBSET Pooled(k) :
           /\ c = pool[k][i] /\ c \notin closed /\ c \notin skipped
           /\ closed' = closed \cup skipped
           /\ idleTimer' = [StopTimers(skipped) EXCEPT ![c] = "nil"]
           /\ idleAge' = [idleAge EXCEPT ![c] = 0]
           /\ lease' = [lease EXCEPT ![u] = c]
           /\ pool' \in [Keys -> Seq(dialed)]
           /\ DOMAIN pool'[k] = 1 .. i - 1 /\ Len(pool'[k]) = i - 1
           /\ \A j \in 1 .. i - 1 : j \in DOMAIN pool[k] /\ pool'[k][j] = pool[k][j]
           /\ \A q \in Keys \ {k} : pool'[q] = pool[q]
           /\ \A d \in Conns : InPool(d)' <=> InPool(d) /\ d \notin skipped /\ d # c
<1>1. PICK i \in Usable(k) :
        /\ pool' = [pool EXCEPT ![k] = SubSeq(@, 1, i - 1)]
        /\ CloseAll({pool[k][j] : j \in i + 1 .. Len(pool[k])})
        /\ idleTimer' = [StopTimers({pool[k][j] : j \in i + 1 .. Len(pool[k])})
                           EXCEPT ![pool[k][i]] = "nil"]
        /\ idleAge' = [idleAge EXCEPT ![pool[k][i]] = 0]
        /\ lease' = [lease EXCEPT ![u] = pool[k][i]]
  BY DEF GetHit
<1> DEFINE c == pool[k][i]
           skipped == {pool[k][j] : j \in i + 1 .. Len(pool[k])}
<1>2. DOMAIN pool[k] = 1 .. Len(pool[k]) /\ Len(pool[k]) \in Nat
      /\ pool \in [Keys -> Seq(dialed)]
  BY PooledAreDialed DEF TypeOK
<1>3. i \in 1 .. Len(pool[k]) /\ i - 1 \in 0 .. Len(pool[k]) /\ c \notin closed
  BY <1>2 DEF Usable
<1>4. c \in Pooled(k)
  BY <1>2, <1>3 DEF Pooled
<1>5. \A j \in i + 1 .. Len(pool[k]) : j \in DOMAIN pool[k] /\ j # i
  BY <1>2, <1>3
<1>6. skipped \subseteq Pooled(k)
  BY <1>5 DEF Pooled
<1>7. c \notin skipped
  BY <1>2, <1>3, <1>5 DEF Exclusive
<1>8. /\ SubSeq(pool[k], 1, i - 1) \in Seq(dialed)
      /\ DOMAIN SubSeq(pool[k], 1, i - 1) = 1 .. i - 1
      /\ Len(SubSeq(pool[k], 1, i - 1)) = i - 1
      /\ \A j \in 1 .. i - 1 : j \in DOMAIN pool[k]
                               /\ SubSeq(pool[k], 1, i - 1)[j] = pool[k][j]
  BY <1>3, PooledAreDialed, PrefixProperties
<1>9. /\ pool'[k] = SubSeq(pool[k], 1, i - 1)
      /\ \A q \in Keys \ {k} : pool'[q] = pool[q]
      /\ pool' \in [Keys -> Seq(dialed)]
  BY <1>1, <1>2, <1>8
<1>10. ASSUME NEW d \in Conns
       PROVE  InPool(d)' <=> InPool(d) /\ d \notin skipped /\ d # c
  <2>1. KeyOf[d] \in Keys
    BY PoolAssumption
  <2>2. CASE KeyOf[d] # k
    <3>1. pool'[KeyOf[d]] = pool[KeyOf[d]]
      BY <1>9, <2>1, <2>2
    <3>2. d \notin Pooled(k)
      BY <2>2, PooledIsInPool
    <3> QED
      BY <1>4, <1>6, <3>1, <3>2 DEF InPool, Pooled
  <2>3. CASE KeyOf[d] = k
    <3>1. ASSUME d \in Pooled(k)' PROVE d \in Pooled(k) /\ d \notin skipped /\ d # c
      <4>1. PICK m \in 1 .. i - 1 : d = pool[k][m] /\ m \in DOMAIN pool[k]
        BY <3>1, <1>8, <1>9 DEF Pooled
      <4>2. m # i /\ \A j \in i + 1 .. Len(pool[k]) : m # j
        BY <1>2, <1>3
      <4>3. \A j \in DOMAIN pool[k] : pool[k][j] = d => j = m
        BY <4>1 DEF Exclusive
      <4> QED
        BY <1>2, <1>3, <1>5, <4>1, <4>2, <4>3 DEF Pooled
    <3>2. ASSUME d \in Pooled(k), d \notin skipped, d # c PROVE d \in Pooled(k)'
      <4>1. PICK m \in 1 .. Len(pool[k]) : d = pool[k][m]
        BY <3>2, <1>2 DEF Pooled
      <4>2. m # i /\ m \notin i + 1 .. Len(pool[k])
        BY <3>2, <4>1
      <4>3. m \in 1 .. i - 1
        BY <1>2, <1>3, <4>1, <4>2
      <4> QED
        BY <1>8, <1>9, <4>1, <4>3 DEF Pooled
    <3> QED
      BY <2>3, <3>1, <3>2 DEF InPool
  <2> QED
    BY <2>2, <2>3
<1>11. skipped \in SUBSET Pooled(k)
  BY <1>6
<1>12. /\ DOMAIN pool'[k] = 1 .. i - 1 /\ Len(pool'[k]) = i - 1
       /\ \A j \in 1 .. i - 1 : j \in DOMAIN pool[k] /\ pool'[k][j] = pool[k][j]
  BY <1>8, <1>9
<1>13. /\ closed' = closed \cup skipped
       /\ idleTimer' = [StopTimers(skipped) EXCEPT ![c] = "nil"]
       /\ idleAge' = [idleAge EXCEPT ![c] = 0]
       /\ lease' = [lease EXCEPT ![u] = c]
  BY <1>1 DEF CloseAll
<1> HIDE DEF c, skipped
<1>14. c = pool[k][i]
  BY DEF c
<1> QED
  BY <1>3, <1>4, <1>7, <1>9, <1>10, <1>11, <1>12, <1>13, <1>14

\* What Put works on: the list of its connection's key, and the oldest entries.
Target(u) == KeyOf[lease[u]]
Cut(u) == CutPoint(pool[Target(u)])
Evicted(u) == {pool[Target(u)][i] : i \in 1 .. Cut(u)}

\* Put closes and drops the oldest entries and appends the connection.
LEMMA PutEffect ==
  ASSUME TypeOK, Exclusive, NEW u \in Users, Put(u)
  PROVE  LET c == lease[u]
             k == Target(u)
             n == Cut(u)
             evicted == Evicted(u) IN
         /\ c \in dialed /\ c \in Conns /\ k \in Keys /\ k = KeyOf[c]
         /\ n \in Nat /\ n <= Len(pool[k]) /\ n = CutPoint(pool[k])
         /\ evicted \subseteq Pooled(k) /\ ~InPool(c) /\ c \notin evicted
         /\ closed' = closed \cup evicted
         /\ idleTimer' = [StopTimers(evicted) EXCEPT ![c] = "armed"]
         /\ idleAge' = [idleAge EXCEPT ![c] = 0]
         /\ lease' = [lease EXCEPT ![u] = NoConn]
         /\ Len(pool'[k]) = Len(pool[k]) - n + 1
         /\ DOMAIN pool'[k] = 1 .. Len(pool[k]) - n + 1
         /\ \A j \in 1 .. Len(pool[k]) - n :
              n + j \in DOMAIN pool[k] /\ pool'[k][j] = pool[k][n + j]
         /\ pool'[k][Len(pool[k]) - n + 1] = c
         /\ \A q \in Keys \ {k} : pool'[q] = pool[q]
         /\ \A d \in Conns : InPool(d)' <=> (InPool(d) /\ d \notin evicted) \/ d = c
<1>0. PICK c, k, n, evicted :
        /\ c = lease[u] /\ k = KeyOf[c] /\ n = CutPoint(pool[k])
        /\ evicted = {pool[k][i] : i \in 1 .. n}
  OBVIOUS
<1>d. Target(u) = k /\ Cut(u) = n /\ Evicted(u) = evicted
  BY <1>0 DEF Target, Cut, Evicted
<1>a. c \in dialed /\ c \in Conns
  BY <1>0 DEF Put, TypeOK
<1>b. k \in Keys
  BY <1>0, <1>a, PoolAssumption
<1>c. n \in 0 .. Len(pool[k])
  BY <1>0, <1>b, PooledAreDialed, CutPointRange
<1> DEFINE L == pool[k]
<1>1. /\ pool' = [pool EXCEPT ![k] = Append(DropOldest(L, n), c)]
      /\ closed' = closed \cup evicted
      /\ idleTimer' = [StopTimers(evicted) EXCEPT ![c] = "armed"]
      /\ idleAge' = [idleAge EXCEPT ![c] = 0]
      /\ lease' = [lease EXCEPT ![u] = NoConn]
  BY <1>0 DEF Put, CloseAll
<1>2. DOMAIN L = 1 .. Len(L) /\ Len(L) \in Nat /\ n \in Nat /\ n <= Len(L)
      /\ pool \in [Keys -> Seq(dialed)]
  BY <1>b, <1>c, PooledAreDialed DEF TypeOK
<1>3. /\ pool'[k] = Append(DropOldest(L, n), c)
      /\ \A q \in Keys \ {k} : pool'[q] = pool[q]
  BY <1>1, <1>2, <1>b
<1>4. /\ pool'[k] \in Seq(dialed)
      /\ Len(pool'[k]) = Len(L) - n + 1
      /\ DOMAIN pool'[k] = 1 .. Len(L) - n + 1
      /\ \A j \in 1 .. Len(L) - n : n + j \in DOMAIN L /\ pool'[k][j] = L[n + j]
      /\ pool'[k][Len(L) - n + 1] = c
  <2>1. L \in Seq(dialed) /\ n \in 0 .. Len(L)
    BY <1>b, <1>c, PooledAreDialed
  <2> HIDE DEF L
  <2> QED
    BY <1>a, <1>3, <2>1, PutListProperties
<1>6. Leased(c)
  BY <1>0 DEF Leased
<1>7. c \notin Pooled(k) /\ ~InPool(c)
  BY <1>0, <1>6, <1>b DEF Exclusive, InPool
<1>8. \A j \in 1 .. n : j \in DOMAIN L
  BY <1>2
<1>9. evicted \subseteq Pooled(k)
  BY <1>0, <1>8 DEF Pooled
<1>10. c \notin evicted
  BY <1>7, <1>9
<1>11. ASSUME NEW d \in Conns
       PROVE  InPool(d)' <=> (InPool(d) /\ d \notin evicted) \/ d = c
  <2>1. KeyOf[d] \in Keys
    BY PoolAssumption
  <2>2. CASE KeyOf[d] # k
    <3>1. pool'[KeyOf[d]] = pool[KeyOf[d]]
      BY <1>3, <2>1, <2>2
    <3>2. d \notin Pooled(k)
      BY <1>b, <2>2, PooledIsInPool
    <3>3. d # c /\ d \notin evicted
      BY <1>0, <1>9, <1>b, <2>2, <3>2
    <3> QED
      BY <3>1, <3>3 DEF InPool, Pooled
  <2>3. CASE KeyOf[d] = k
    <3>1. ASSUME d \in Pooled(k)', d # c PROVE d \in Pooled(k) /\ d \notin evicted
      <4>1. PICK m \in 1 .. Len(L) - n + 1 : d = pool'[k][m]
        BY <3>1, <1>4 DEF Pooled
      <4>2. m \in 1 .. Len(L) - n
        BY <1>2, <1>4, <3>1, <4>1
      <4>3. n + m \in DOMAIN L /\ d = L[n + m]
        BY <1>4, <4>1, <4>2
      <4>4. \A j \in 1 .. n : j # n + m
        BY <1>2, <4>2
      <4>5. \A j \in DOMAIN L : L[j] = d => j = n + m
        BY <1>b, <4>3 DEF Exclusive
      <4> QED
        BY <1>0, <1>8, <4>3, <4>4, <4>5 DEF Pooled
    <3>2. ASSUME d \in Pooled(k), d \notin evicted PROVE d \in Pooled(k)'
      <4>1. PICK m \in 1 .. Len(L) : d = L[m]
        BY <3>2, <1>2 DEF Pooled
      <4>2. m \notin 1 .. n
        BY <1>0, <3>2, <4>1
      <4>3. m - n \in 1 .. Len(L) - n /\ n + (m - n) = m
        BY <1>2, <4>1, <4>2
      <4>4. pool'[k][m - n] = d
        BY <1>4, <4>1, <4>3
      <4>5. m - n \in 1 .. Len(L) - n + 1
        BY <1>2, <4>3
      <4> QED
        BY <1>4, <4>4, <4>5 DEF Pooled
    <3>3. c \in Pooled(k)'
      <4>1. Len(L) - n + 1 \in 1 .. Len(L) - n + 1
        BY <1>2
      <4> QED
        BY <1>4, <4>1 DEF Pooled
    <3> QED
      BY <1>0, <2>3, <3>1, <3>2, <3>3 DEF InPool
  <2> QED
    BY <2>2, <2>3
<1> QED
  BY <1>0, <1>a, <1>b, <1>d, <1>1, <1>2, <1>3, <1>4, <1>7, <1>9, <1>10, <1>11

\* Remove takes the connection out, or finds that it is not there.
LEMMA RemoveEffect ==
  ASSUME TypeOK, Exclusive, NEW c \in Conns, IdleRemove(c)
  PROVE  \/ ~InPool(c) /\ pool' = pool /\ removed' = removed
         \/ /\ InPool(c) /\ removed' = removed \cup {c}
            /\ pool' \in [Keys -> Seq(dialed)]
            /\ \E k \in Keys, x \in 1 .. Len(pool[KeyOf[c]]) :
                 /\ k = KeyOf[c] /\ pool[k][x] = c
                 /\ DOMAIN pool'[k] = 1 .. Len(pool[k]) - 1
                 /\ Len(pool'[k]) = Len(pool[k]) - 1
                 /\ \A j \in 1 .. Len(pool[k]) - 1 :
                      pool'[k][j] = IF j < x THEN pool[k][j] ELSE pool[k][j + 1]
                 /\ \A q \in Keys \ {k} : pool'[q] = pool[q]
            /\ \A d \in Conns : InPool(d)' <=> InPool(d) /\ d # c
<1>1. CASE ~InPool(c) /\ pool' = pool /\ removed' = removed
  BY <1>1
<1>2. ASSUME NEW x \in DOMAIN pool[KeyOf[c]], pool[KeyOf[c]][x] = c,
             pool' = [pool EXCEPT ![KeyOf[c]] = Without(@, x)],
             removed' = removed \cup {c}
      PROVE  /\ InPool(c) /\ removed' = removed \cup {c}
             /\ pool' \in [Keys -> Seq(dialed)]
             /\ \E k \in Keys, y \in 1 .. Len(pool[KeyOf[c]]) :
                  /\ k = KeyOf[c] /\ pool[k][y] = c
                  /\ DOMAIN pool'[k] = 1 .. Len(pool[k]) - 1
                  /\ Len(pool'[k]) = Len(pool[k]) - 1
                  /\ \A j \in 1 .. Len(pool[k]) - 1 :
                       pool'[k][j] = IF j < y THEN pool[k][j] ELSE pool[k][j + 1]
                  /\ \A q \in Keys \ {k} : pool'[q] = pool[q]
             /\ \A d \in Conns : InPool(d)' <=> InPool(d) /\ d # c
  <2>1. PICK k \in Keys : k = KeyOf[c]
    BY PoolAssumption
  <2> DEFINE L == pool[k]
  <2>2. DOMAIN L = 1 .. Len(L) /\ Len(L) \in Nat /\ pool \in [Keys -> Seq(dialed)]
        /\ L \in Seq(dialed)
    BY PooledAreDialed DEF TypeOK
  <2>3. x \in 1 .. Len(L) /\ L[x] = c
    BY <1>2, <2>1, <2>2
  <2>4. /\ Without(L, x) \in Seq(dialed)
        /\ DOMAIN Without(L, x) = 1 .. Len(L) - 1
        /\ \A j \in 1 .. Len(L) - 1 :
             Without(L, x)[j] = IF j < x THEN L[j] ELSE L[j + 1]
    BY <2>2, <2>3, WithoutProperties
  <2>5. /\ pool'[k] = Without(L, x)
        /\ \A q \in Keys \ {k} : pool'[q] = pool[q]
        /\ pool' \in [Keys -> Seq(dialed)]
    BY <1>2, <2>1, <2>2, <2>4
  <2>6. Len(pool'[k]) = Len(L) - 1
    BY <2>2, <2>3, <2>5, WithoutProperties
  <2>7. InPool(c)
    BY <1>2 DEF InPool, Pooled
  <2>8. ASSUME NEW d \in Conns
        PROVE  InPool(d)' <=> InPool(d) /\ d # c
    <3>1. KeyOf[d] \in Keys
      BY PoolAssumption
    <3>2. CASE KeyOf[d] # k
      <4>1. pool'[KeyOf[d]] = pool[KeyOf[d]] /\ d # c
        BY <2>1, <2>5, <3>1, <3>2
      <4> QED
        BY <4>1 DEF InPool, Pooled
    <3>3. CASE KeyOf[d] = k
      <4>1. ASSUME d \in Pooled(k)' PROVE d \in Pooled(k) /\ d # c
        <5>1. PICK m \in 1 .. Len(L) - 1 : d = IF m < x THEN L[m] ELSE L[m + 1]
          <6>1. PICK m \in DOMAIN pool'[k] : d = pool'[k][m]
            BY <4>1 DEF Pooled
          <6>2. m \in 1 .. Len(L) - 1 /\ pool'[k][m] = Without(L, x)[m]
            BY <2>4, <2>5, <6>1
          <6> QED
            BY <2>4, <6>1, <6>2
        <5>2. \E j \in 1 .. Len(L) : j # x /\ d = L[j]
          BY <2>2, <2>3, <5>1
        <5> QED
          BY <2>2, <2>3, <5>2 DEF Exclusive, Pooled
      <4>2. ASSUME d \in Pooled(k), d # c PROVE d \in Pooled(k)'
        <5>1. PICK m \in 1 .. Len(L) : d = L[m]
          BY <2>2, <4>2 DEF Pooled
        <5>2. CASE m < x
          <6>1. m \in 1 .. Len(L) - 1
            BY <2>2, <2>3, <5>1, <5>2
          <6> QED
            BY <2>4, <2>5, <5>1, <5>2, <6>1 DEF Pooled
        <5>3. CASE ~(m < x)
          <6>1. m - 1 \in 1 .. Len(L) - 1 /\ ~(m - 1 < x) /\ (m - 1) + 1 = m
            BY <2>2, <2>3, <4>2, <5>1, <5>3
          <6> QED
            BY <2>4, <2>5, <5>1, <6>1 DEF Pooled
        <5> QED
          BY <5>2, <5>3
      <4> QED
        BY <3>3, <4>1, <4>2 DEF InPool
    <3> QED
      BY <3>2, <3>3
  <2> QED
    BY <1>2, <2>1, <2>3, <2>4, <2>5, <2>6, <2>7, <2>8
<1> QED
  BY <1>1, <1>2 DEF IdleRemove

-----------------------------------------------------------------------------
(* Idle connections are timed.                                             *)

\* A step that lets no connection into the pool, arms no fewer timers of open
\* connections and ends no expiration keeps every idle connection timed.
LEMMA TimedFrame ==
  ASSUME TypeOK, TypeOK', IdleIsTimed, closed \subseteq closed',
         NEW S, S \subseteq closed', idleTimer' = StopTimers(S), expiring' = expiring,
         dialed' = dialed, pool' = pool
  PROVE  IdleIsTimed'
<1> SUFFICES ASSUME NEW d \in dialed \ closed', InPool(d)
             PROVE  idleTimer'[d] = "armed" \/ expiring[d] > 0
    BY DEF IdleIsTimed, InPool, Pooled
<1>1. d \in Conns /\ d \notin S /\ d \notin closed
  BY DEF TypeOK
<1>2. idleTimer'[d] = idleTimer[d]
  BY <1>1 DEF StopTimers
<1> QED
  BY <1>1, <1>2 DEF IdleIsTimed

\* Every operation leaves the open connections of the pool timed: those it
\* puts there get a timer, and an expiration ends with the connection gone.
LEMMA TimedStep ==
  TypeOK /\ TypeOK' /\ Exclusive /\ IdleIsTimed /\ [PoolNext]_poolVars => IdleIsTimed'
<1> SUFFICES ASSUME TypeOK, TypeOK', Exclusive, IdleIsTimed, [PoolNext]_poolVars
             PROVE  IdleIsTimed'
    OBVIOUS
<1>1. ASSUME NEW u \in Users, NEW c \in Conns, Dial(u, c) PROVE IdleIsTimed'
  <2>1. ~InPool(c)
    BY <1>1, PooledAreDialed, PoolAssumption DEF Dial, InPool
  <2>2. /\ closed' = closed /\ dialed' = dialed \cup {c} /\ pool' = pool
        /\ idleTimer' = idleTimer /\ expiring' = expiring
    BY <1>1 DEF Dial
  <2> QED
    BY <2>1, <2>2 DEF IdleIsTimed, InPool, Pooled
<1>2. ASSUME NEW u \in Users, NEW k \in Keys, GetHit(u, k) PROVE IdleIsTimed'
  <2>1. PICK c \in Pooled(k), skipped \in SUBSET Pooled(k) :
          /\ closed' = closed \cup skipped
          /\ idleTimer' = [StopTimers(skipped) EXCEPT ![c] = "nil"]
          /\ \A d \in Conns : InPool(d)' <=> InPool(d) /\ d \notin skipped /\ d # c
    BY <1>2, GetEffect
  <2>2. dialed' = dialed /\ expiring' = expiring /\ dialed \subseteq Conns
    BY <1>2 DEF GetHit, TypeOK
  <2> SUFFICES ASSUME NEW d \in dialed' \ closed', InPool(d)'
               PROVE  idleTimer'[d] = "armed" \/ expiring'[d] > 0
      BY DEF IdleIsTimed
  <2>3. d \in dialed \ closed /\ InPool(d) /\ d \notin skipped /\ d # c /\ d \in Conns
    BY <2>1, <2>2
  <2>4. idleTimer'[d] = idleTimer[d]
    BY <2>1, <2>3 DEF StopTimers
  <2> QED
    BY <2>2, <2>3, <2>4 DEF IdleIsTimed
<1>3. ASSUME NEW u \in Users, NEW k \in Keys, GetMiss(u, k) PROVE IdleIsTimed'
  BY <1>3, TimedFrame DEF GetMiss, CloseAll
<1>4. ASSUME NEW u \in Users, Return(u) PROVE IdleIsTimed'
  BY <1>4 DEF Return, IdleIsTimed, InPool, Pooled
<1>5. ASSUME NEW u \in Users, Put(u) PROVE IdleIsTimed'
  <2>1. PICK c, k, n, evicted :
          c = lease[u] /\ k = Target(u) /\ n = Cut(u) /\ evicted = Evicted(u)
    OBVIOUS
  <2>2. /\ closed' = closed \cup evicted
        /\ idleTimer' = [StopTimers(evicted) EXCEPT ![c] = "armed"]
        /\ \A d \in Conns : InPool(d)' <=> (InPool(d) /\ d \notin evicted) \/ d = c
    BY <1>5, <2>1, PutEffect
  <2>3. dialed' = dialed /\ expiring' = expiring /\ dialed \subseteq Conns
    BY <1>5 DEF Put, TypeOK
  <2> SUFFICES ASSUME NEW d \in dialed' \ closed', InPool(d)'
               PROVE  idleTimer'[d] = "armed" \/ expiring'[d] > 0
      BY DEF IdleIsTimed
  <2>4. d \in dialed \ closed /\ d \in Conns /\ d \notin evicted
    BY <2>2, <2>3
  <2>5. CASE d = c
    BY <2>2, <2>4, <2>5 DEF StopTimers
  <2>6. CASE d # c
    <3>1. idleTimer'[d] = idleTimer[d] /\ InPool(d)
      BY <2>2, <2>4, <2>6 DEF StopTimers
    <3> QED
      BY <2>3, <2>4, <3>1 DEF IdleIsTimed
  <2> QED
    BY <2>5, <2>6
<1>6. ASSUME NEW u \in Users, Discard(u) PROVE IdleIsTimed'
  BY <1>6, TimedFrame DEF Discard, CloseAll
<1>7. ASSUME NEW c \in Conns, Break(c) PROVE IdleIsTimed'
  BY <1>7, TimedFrame DEF Break, CloseAll
<1>8. ASSUME NEW c \in Conns, TimerFire(c) PROVE IdleIsTimed'
  <2>1. /\ idleTimer' = [idleTimer EXCEPT ![c] = "stopped"]
        /\ expiring' = [expiring EXCEPT ![c] = @ + 1]
        /\ pool' = pool /\ dialed' = dialed /\ closed' = closed
    BY <1>8 DEF TimerFire
  <2>2. expiring[c] \in Nat /\ dialed \subseteq Conns
        /\ idleTimer \in [Conns -> TimerStates] /\ expiring \in [Conns -> 0 .. MaxExpiring]
    BY PoolAssumption DEF TypeOK
  <2> SUFFICES ASSUME NEW d \in dialed \ closed, InPool(d)
               PROVE  idleTimer'[d] = "armed" \/ expiring'[d] > 0
      BY <2>1 DEF IdleIsTimed, InPool, Pooled
  <2>3. CASE d = c
    BY <2>1, <2>2, <2>3
  <2>4. CASE d # c
    BY <2>1, <2>2, <2>4 DEF IdleIsTimed
  <2> QED
    BY <2>3, <2>4
<1>9. ASSUME NEW c \in Conns, IdleRemove(c) PROVE IdleIsTimed'
  <2>1. /\ \A d \in Conns : InPool(d)' => InPool(d) /\ d # c
    <3>1. CASE ~InPool(c) /\ pool' = pool
      BY <3>1 DEF InPool, Pooled
    <3>2. CASE \A d \in Conns : InPool(d)' <=> InPool(d) /\ d # c
      BY <3>2
    <3> QED
      BY <1>9, <3>1, <3>2, RemoveEffect
  <2>2. /\ expiring' = [expiring EXCEPT ![c] = @ - 1]
        /\ idleTimer' = idleTimer /\ dialed' = dialed /\ closed' = closed
    BY <1>9 DEF IdleRemove
  <2>3. dialed \subseteq Conns /\ expiring \in [Conns -> 0 .. MaxExpiring]
    BY DEF TypeOK
  <2> QED
    BY <2>1, <2>2, <2>3 DEF IdleIsTimed
<1>10. ASSUME NEW c \in Conns, IdleClose(c) PROVE IdleIsTimed'
  BY <1>10, TimedFrame DEF IdleClose, CloseAll
<1>11. ASSUME Tick PROVE IdleIsTimed'
  BY <1>11 DEF Tick, IdleIsTimed, InPool, Pooled
<1>12. ASSUME UNCHANGED poolVars PROVE IdleIsTimed'
  BY <1>12 DEF poolVars, IdleIsTimed, InPool, Pooled
<1> QED
  BY <1>1, <1>2, <1>3, <1>4, <1>5, <1>6, <1>7, <1>8, <1>9, <1>10, <1>11, <1>12
  DEF PoolNext, Background

\* An open idle connection always has a timer that will fire or has fired.
THEOREM IdleConnectionsAreTimed == PoolSpec => []IdleIsTimed
<1>1. PoolInit => IdleIsTimed
  BY DEF PoolInit, IdleIsTimed
<1> QED
  BY <1>1, TimedStep, TypeCorrect, PoolIsExclusive, PTL DEF PoolSpec

-----------------------------------------------------------------------------
(* Lists are ordered and bounded.                                          *)

\* A step that changes neither lists nor ages keeps their order.
LEMMA OrderFrame ==
  ASSUME OldestFirst, pool' = pool, idleAge' = idleAge
  PROVE  OldestFirst'
BY DEF OldestFirst

\* Every operation keeps the lists ordered by age and within their capacity.
LEMMA OrderStep ==
  TypeOK /\ Exclusive /\ OldestFirst /\ [PoolNext]_poolVars => OldestFirst'
<1> SUFFICES ASSUME TypeOK, Exclusive, OldestFirst, [PoolNext]_poolVars
             PROVE  OldestFirst'
    OBVIOUS
<1>a. /\ idleAge \in [Conns -> 0 .. IdleTimeout + 1] /\ IdleTimeout \in Nat
      /\ MaxCapacity \in Nat
  BY PoolAssumption DEF TypeOK
<1>b. \A q \in Keys : /\ DOMAIN pool[q] = 1 .. Len(pool[q]) /\ Len(pool[q]) \in Nat
                      /\ \A j \in DOMAIN pool[q] : pool[q][j] \in Pooled(q)
                                                   /\ pool[q][j] \in Conns
  BY PooledAreDialed DEF TypeOK, Pooled
<1>1. ASSUME NEW u \in Users, NEW k \in Keys, GetHit(u, k) PROVE OldestFirst'
  <2>1. PICK i \in 1 .. Len(pool[k]), c \in Pooled(k) :
          /\ idleAge' = [idleAge EXCEPT ![c] = 0]
          /\ DOMAIN pool'[k] = 1 .. i - 1 /\ Len(pool'[k]) = i - 1
          /\ \A j \in 1 .. i - 1 : j \in DOMAIN pool[k] /\ pool'[k][j] = pool[k][j]
          /\ \A q \in Keys \ {k} : pool'[q] = pool[q]
          /\ \A d \in Conns : InPool(d)' => d # c
    BY <1>1, GetEffect
  <2>2. ASSUME NEW q \in Keys, NEW j \in DOMAIN pool'[q]
        PROVE  idleAge'[pool'[q][j]] = idleAge[pool[q][j]] /\ j \in DOMAIN pool[q]
               /\ pool'[q][j] = pool[q][j]
    <3>1. pool'[q][j] = pool[q][j] /\ j \in DOMAIN pool[q]
      BY <2>1
    <3>2. pool[q][j] \in Conns /\ KeyOf[pool[q][j]] = q
      BY <1>b, <3>1 DEF Exclusive
    <3>3. InPool(pool[q][j])'
      BY <3>1, <3>2 DEF InPool, Pooled
    <3> QED
      BY <1>a, <2>1, <3>1, <3>2, <3>3
  <2>3. \A q \in Keys : Len(pool'[q]) <= Len(pool[q])
    BY <1>b, <2>1
  <2>4. \A q \in Keys : Len(pool'[q]) \in Nat
    BY <1>b, <2>1
  <2>5. \A q \in Keys : \A m, n \in DOMAIN pool'[q] :
          m < n => idleAge'[pool'[q][m]] >= idleAge'[pool'[q][n]]
    BY <2>2 DEF OldestFirst
  <2>6. \A q \in Keys : MaxCapacity > 0 => Len(pool'[q]) <= MaxCapacity
    BY <1>a, <1>b, <2>3, <2>4 DEF OldestFirst
  <2> QED
    BY <2>5, <2>6 DEF OldestFirst
<1>2. ASSUME NEW u \in Users, Put(u) PROVE OldestFirst'
  <2>0. PICK c, k, n : c = lease[u] /\ k = Target(u) /\ n = Cut(u)
    OBVIOUS
  <2>1. /\ ~InPool(c) /\ k \in Keys /\ n \in Nat /\ n <= Len(pool[k])
        /\ n = CutPoint(pool[k])
        /\ idleAge' = [idleAge EXCEPT ![c] = 0]
        /\ Len(pool'[k]) = Len(pool[k]) - n + 1
        /\ DOMAIN pool'[k] = 1 .. Len(pool[k]) - n + 1
        /\ \A j \in 1 .. Len(pool[k]) - n :
             n + j \in DOMAIN pool[k] /\ pool'[k][j] = pool[k][n + j]
        /\ pool'[k][Len(pool[k]) - n + 1] = c
        /\ \A q \in Keys \ {k} : pool'[q] = pool[q]
    BY <1>2, <2>0, PutEffect
  <2>2. c \in Conns
    BY <1>2, <2>0, PutEffect
  <2>3. \A q \in Keys : \A j \in DOMAIN pool[q] : pool[q][j] # c
    BY <1>b, <2>1, PooledIsInPool
  <2>4. \A q \in Keys : \A j \in DOMAIN pool[q] :
          idleAge'[pool[q][j]] = idleAge[pool[q][j]]
          /\ idleAge[pool[q][j]] \in Nat
    BY <1>a, <1>b, <2>1, <2>3
  <2>5. idleAge'[c] = 0
    BY <1>a, <2>1, <2>2
  <2> DEFINE l == Len(pool[k]) - n
  <2>6. l \in Nat
    BY <1>b, <2>1
  <2>7. ASSUME NEW i \in 1 .. l + 1, NEW j \in 1 .. l + 1, i < j
        PROVE  idleAge'[pool'[k][i]] >= idleAge'[pool'[k][j]]
    <3>1. i \in 1 .. l /\ n + i \in DOMAIN pool[k] /\ pool'[k][i] = pool[k][n + i]
      <4>1. i \in 1 .. l
        BY <2>6, <2>7
      <4> QED
        BY <2>1, <4>1
    <3>2. CASE j = l + 1
      <4>1. pool'[k][j] = c
        BY <2>1, <3>2
      <4>2. idleAge'[pool[k][n + i]] \in Nat
        <5>1. /\ idleAge'[pool[k][n + i]] = idleAge[pool[k][n + i]]
              /\ idleAge[pool[k][n + i]] \in Nat
          BY <2>1, <2>4, <3>1
        <5> QED
          BY <5>1
      <4> QED
        BY <2>5, <3>1, <4>1, <4>2
    <3>3. CASE j # l + 1
      <4>1. j \in 1 .. l
        BY <2>6, <3>3
      <4>2. n + j \in DOMAIN pool[k] /\ pool'[k][j] = pool[k][n + j] /\ n + i < n + j
        BY <2>1, <2>7, <4>1
      <4>3. idleAge[pool[k][n + i]] >= idleAge[pool[k][n + j]]
        <5>1. \A x, y \in DOMAIN pool[k] :
                x < y => idleAge[pool[k][x]] >= idleAge[pool[k][y]]
          BY <2>1 DEF OldestFirst
        <5> QED
          BY <3>1, <4>2, <5>1
      <4>4. /\ idleAge'[pool[k][n + i]] = idleAge[pool[k][n + i]]
            /\ idleAge'[pool[k][n + j]] = idleAge[pool[k][n + j]]
        BY <2>1, <2>4, <3>1, <4>2
      <4> QED
        BY <3>1, <4>2, <4>3, <4>4
    <3> QED
      BY <3>2, <3>3
  <2>8. MaxCapacity > 0 => Len(pool'[k]) <= MaxCapacity
    BY <1>a, <1>b, <2>1 DEF CutPoint
  <2>9. ASSUME NEW q \in Keys \ {k}
        PROVE  /\ \A i, j \in DOMAIN pool'[q] :
                    i < j => idleAge'[pool'[q][i]] >= idleAge'[pool'[q][j]]
               /\ MaxCapacity > 0 => Len(pool'[q]) <= MaxCapacity
    <3>1. pool'[q] = pool[q] /\ q \in Keys
      BY <2>1
    <3>2. \A j \in DOMAIN pool[q] : idleAge'[pool[q][j]] = idleAge[pool[q][j]]
      BY <2>4, <3>1
    <3>3. /\ \A i, j \in DOMAIN pool[q] :
               i < j => idleAge[pool[q][i]] >= idleAge[pool[q][j]]
          /\ MaxCapacity > 0 => Len(pool[q]) <= MaxCapacity
      BY <3>1 DEF OldestFirst
    <3> QED
      BY <3>1, <3>2, <3>3
  <2>10. \A i, j \in DOMAIN pool'[k] :
           i < j => idleAge'[pool'[k][i]] >= idleAge'[pool'[k][j]]
    BY <2>1, <2>7
  <2> QED
    BY <2>8, <2>9, <2>10 DEF OldestFirst
<1>3. ASSUME NEW c \in Conns, IdleRemove(c) PROVE OldestFirst'
  <2>1. idleAge' = idleAge
    BY <1>3 DEF IdleRemove
  <2>2. CASE pool' = pool
    BY <2>1, <2>2, OrderFrame
  <2>3. ASSUME NEW k \in Keys, NEW x \in 1 .. Len(pool[k]),
               DOMAIN pool'[k] = 1 .. Len(pool[k]) - 1,
               Len(pool'[k]) = Len(pool[k]) - 1,
               \A j \in 1 .. Len(pool[k]) - 1 :
                 pool'[k][j] = IF j < x THEN pool[k][j] ELSE pool[k][j + 1],
               \A q \in Keys \ {k} : pool'[q] = pool[q]
        PROVE  OldestFirst'
    <3>1. ASSUME NEW i \in DOMAIN pool'[k], NEW j \in DOMAIN pool'[k], i < j
          PROVE  idleAge[pool'[k][i]] >= idleAge[pool'[k][j]]
      <4>1. PICK m \in DOMAIN pool[k], n \in DOMAIN pool[k] :
              m < n /\ pool'[k][i] = pool[k][m] /\ pool'[k][j] = pool[k][n]
        <5>1. /\ i \in 1 .. Len(pool[k]) - 1 /\ j \in 1 .. Len(pool[k]) - 1
              /\ pool'[k][i] = IF i < x THEN pool[k][i] ELSE pool[k][i + 1]
              /\ pool'[k][j] = IF j < x THEN pool[k][j] ELSE pool[k][j + 1]
          BY <2>3
        <5>2. /\ i \in DOMAIN pool[k] /\ i + 1 \in DOMAIN pool[k]
              /\ j \in DOMAIN pool[k] /\ j + 1 \in DOMAIN pool[k]
          BY <1>b, <5>1
        <5>3. /\ i < j /\ i < j + 1 /\ i + 1 < j + 1 /\ (j < x => i < x)
          BY <1>b, <3>1, <5>1
        <5> QED
          BY <5>1, <5>2, <5>3
      <4> QED
        BY <4>1 DEF OldestFirst
    <3>2. MaxCapacity > 0 => Len(pool'[k]) <= MaxCapacity
      BY <1>a, <1>b, <2>3 DEF OldestFirst
    <3> QED
      BY <2>1, <2>3, <3>1, <3>2 DEF OldestFirst
  <2> QED
    BY <1>3, <2>2, <2>3, RemoveEffect
<1>4. ASSUME Tick PROVE OldestFirst'
  <2>1. pool' = pool
    BY <1>4 DEF Tick
  <2>2. ASSUME NEW q \in Keys, NEW j \in DOMAIN pool[q]
        PROVE  /\ idleAge[pool[q][j]] \in 0 .. IdleTimeout + 1
               /\ idleAge'[pool[q][j]] =
                    IF idleAge[pool[q][j]] > IdleTimeout
                      THEN idleAge[pool[q][j]] ELSE idleAge[pool[q][j]] + 1
    <3>1. pool[q][j] \in Conns /\ InPool(pool[q][j])
      BY <1>b, PooledIsInPool
    <3> QED
      BY <1>4, <1>a, <3>1 DEF Tick, TooOld
  <2>3. ASSUME NEW q \in Keys, NEW i \in DOMAIN pool[q], NEW j \in DOMAIN pool[q], i < j
        PROVE  idleAge'[pool[q][i]] >= idleAge'[pool[q][j]]
    <3>1. idleAge[pool[q][i]] >= idleAge[pool[q][j]]
      BY <2>3 DEF OldestFirst
    <3> QED
      BY <1>a, <2>2, <3>1
  <2> QED
    BY <2>1, <2>3 DEF OldestFirst
<1>5. ASSUME NEW u \in Users, NEW c \in Conns, Dial(u, c) PROVE OldestFirst'
  BY <1>5, OrderFrame DEF Dial
<1>6. ASSUME NEW u \in Users, NEW k \in Keys, GetMiss(u, k) PROVE OldestFirst'
  BY <1>6, OrderFrame DEF GetMiss
<1>7. ASSUME NEW u \in Users, Return(u) \/ Discard(u) PROVE OldestFirst'
  BY <1>7, OrderFrame DEF Return, Discard
<1>8. ASSUME NEW c \in Conns, Break(c) \/ TimerFire(c) \/ IdleClose(c) PROVE OldestFirst'
  BY <1>8, OrderFrame DEF Break, TimerFire, IdleClose
<1>9. ASSUME UNCHANGED poolVars PROVE OldestFirst'
  BY <1>9, OrderFrame DEF poolVars
<1> QED
  BY <1>1, <1>2, <1>3, <1>4, <1>5, <1>6, <1>7, <1>8, <1>9 DEF PoolNext, Background

\* Get's and Put's reliance on the order of the lists is justified.
THEOREM ListsAreOrdered == PoolSpec => []OldestFirst
<1>1. PoolInit => OldestFirst
  BY PoolAssumption DEF PoolInit, OldestFirst
<1> QED
  BY <1>1, OrderStep, TypeCorrect, PoolIsExclusive, PTL DEF PoolSpec

-----------------------------------------------------------------------------
(* The pool implements ConnLease.                                          *)

\* What the refinement mapping substitutes for owner, idle and open.
Owner == [c \in Conns |-> IF Leased(c) THEN CHOOSE u \in Users : lease[u] = c
                                       ELSE NoConn]
Idle == {c \in Conns : InPool(c) /\ c \notin closed}
Open == dialed \ closed

\* With Exclusive the CHOOSE is no choice.
OwnerIsLeaser ==
  \A c \in Conns : /\ \A u \in Users : Owner[c] = u <=> lease[u] = c
                   /\ ~Leased(c) => Owner[c] = NoConn

\* A connection's owner is the user that leases it.
LEMMA OwnerFacts == TypeOK /\ Exclusive => OwnerIsLeaser
<1> SUFFICES ASSUME TypeOK, Exclusive, NEW c \in Conns
             PROVE  /\ \A u \in Users : Owner[c] = u <=> lease[u] = c
                    /\ ~Leased(c) => Owner[c] = NoConn
    BY DEF OwnerIsLeaser
<1>1. CASE ~Leased(c)
  <2>1. Owner[c] = NoConn
    BY <1>1 DEF Owner
  <2> QED
    BY <1>1, <2>1, PoolAssumption DEF Leased
<1>2. CASE Leased(c)
  <2>1. PICK v \in Users : lease[v] = c
    BY <1>2 DEF Leased
  <2>2. \A u \in Users : lease[u] = c => u = v
    BY <2>1, PoolAssumption DEF Exclusive
  <2>3. Owner[c] = CHOOSE u \in Users : lease[u] = c
    BY <1>2 DEF Owner
  <2>4. Owner[c] = v
    BY <2>1, <2>2, <2>3
  <2> QED
    BY <1>2, <2>1, <2>2, <2>4
<1> QED
  BY <1>1, <1>2

\* A round trip takes a connection, or gives its connection up.
LEMMA OwnerTakes ==
  ASSUME TypeOK, OwnerIsLeaser, OwnerIsLeaser', NEW u \in Users, NEW c \in Conns,
         lease[u] = NoConn, ~Leased(c), lease' = [lease EXCEPT ![u] = c]
  PROVE  /\ {d \in Conns : Owner[d] = u} = {} /\ Owner[c] = NoConn
         /\ Owner' = [Owner EXCEPT ![c] = u]
<1>1. \A v \in Users : lease'[v] = IF v = u THEN c ELSE lease[v]
  BY DEF TypeOK
<1>2. \A d \in Conns : lease[u] # d
  BY PoolAssumption
<1>3. ASSUME NEW d \in Conns
      PROVE  Owner'[d] = IF d = c THEN u ELSE Owner[d]
  <2>1. CASE d = c
    BY <1>1, <2>1 DEF OwnerIsLeaser
  <2>2. CASE d # c /\ Leased(d)
    <3>1. PICK v \in Users : lease[v] = d
      BY <2>2 DEF Leased
    <3>2. lease'[v] = d
      BY <1>1, <1>2, <3>1
    <3> QED
      BY <2>2, <3>1, <3>2 DEF OwnerIsLeaser
  <2>3. CASE d # c /\ ~Leased(d)
    <3>1. ~Leased(d)'
      BY <1>1, <2>3 DEF Leased
    <3> QED
      BY <2>3, <3>1 DEF OwnerIsLeaser
  <2> QED
    BY <2>1, <2>2, <2>3
<1>4. Owner' = [d \in Conns |-> Owner'[d]] /\ Owner = [d \in Conns |-> Owner[d]]
  BY DEF Owner
<1> HIDE DEF Owner
<1>5. Owner' = [Owner EXCEPT ![c] = u]
  BY <1>3, <1>4
<1> QED
  BY <1>2, <1>5 DEF OwnerIsLeaser

\* A user that gives its connection back leaves it without an owner.
LEMMA OwnerGives ==
  ASSUME TypeOK, OwnerIsLeaser, OwnerIsLeaser', Exclusive, NEW u \in Users,
         NEW c \in Conns, lease[u] = c, lease' = [lease EXCEPT ![u] = NoConn]
  PROVE  Owner[c] = u /\ Owner' = [Owner EXCEPT ![c] = NoConn]
<1>1. \A v \in Users : lease'[v] = IF v = u THEN NoConn ELSE lease[v]
  BY DEF TypeOK
<1>2. \A v \in Users : lease[v] = c => v = u
  BY PoolAssumption DEF Exclusive
<1>3. ASSUME NEW d \in Conns
      PROVE  Owner'[d] = IF d = c THEN NoConn ELSE Owner[d]
  <2>1. CASE d = c
    <3>1. ~Leased(c)'
      BY <1>1, <1>2, PoolAssumption DEF Leased
    <3> QED
      BY <2>1, <3>1 DEF OwnerIsLeaser
  <2>2. CASE d # c /\ Leased(d)
    <3>1. PICK v \in Users : lease[v] = d
      BY <2>2 DEF Leased
    <3>2. lease'[v] = d
      BY <1>1, <2>2, <3>1
    <3> QED
      BY <2>2, <3>1, <3>2 DEF OwnerIsLeaser
  <2>3. CASE d # c /\ ~Leased(d)
    <3>1. ~Leased(d)'
      BY <1>1, <2>3, PoolAssumption DEF Leased
    <3> QED
      BY <2>3, <3>1 DEF OwnerIsLeaser
  <2> QED
    BY <2>1, <2>2, <2>3
<1>4. Owner' = [d \in Conns |-> Owner'[d]] /\ Owner = [d \in Conns |-> Owner[d]]
  BY DEF Owner
<1>5. Owner' = [Owner EXCEPT ![c] = NoConn]
  BY <1>3, <1>4
<1> QED
  BY <1>5 DEF OwnerIsLeaser

\* Steps that move no connection between a round trip and anybody else.
LEMMA OwnerStays ==
  ASSUME lease' = lease
  PROVE  Owner' = Owner
BY DEF Owner, Leased

\* Which connections ConnLease may call idle or open is all that the steps
\* of the lists and of the timers change.
LEMMA LeaseStep ==
  ASSUME TypeOK, TypeOK', Exclusive, Exclusive', OwnerIsLeaser, OwnerIsLeaser', PoolNext
  PROVE  Lease!LeaseNext \/ UNCHANGED Lease!leaseVars
<1>a. dialed \subseteq Conns /\ closed \subseteq dialed /\ removed \subseteq dialed
      /\ lease \in [Users -> dialed \cup {NoConn}]
  BY DEF TypeOK
<1>b. \A c \in Conns : InPool(c) => c \in dialed /\ ~Leased(c) /\ c \notin removed
                                    /\ Owner[c] = NoConn
  BY PoolAssumption, PooledAreDialed DEF Exclusive, InPool, OwnerIsLeaser
<1>c. ASSUME Owner' = Owner, Idle' = Idle, Open' = Open
      PROVE  UNCHANGED Lease!leaseVars
  BY <1>c DEF Lease!leaseVars, Owner, Idle, Open
<1>1. ASSUME NEW u \in Users, NEW c \in Conns, Dial(u, c)
      PROVE  Lease!LeaseNext
  <2>1. lease[u] = NoConn /\ c \notin dialed /\ lease' = [lease EXCEPT ![u] = c]
    BY <1>1 DEF Dial, TypeOK
  <2>2. ~Leased(c)
    BY <1>a, <2>1, PoolAssumption DEF Leased
  <2>3. /\ {d \in Conns : Owner[d] = u} = {} /\ Owner[c] = NoConn
        /\ Owner' = [Owner EXCEPT ![c] = u]
    BY <2>1, <2>2, OwnerTakes
  <2>4. c \notin Open /\ Open' = Open \cup {c} /\ Idle' = Idle
    BY <1>1, <1>a, <2>1 DEF Dial, Open, Idle, InPool, Pooled
  <2>5. Lease!Open(u, c)
    BY <2>3, <2>4 DEF Lease!Open, Lease!Owns, Owner, Idle, Open
  <2> QED
    BY <2>5 DEF Lease!LeaseNext
<1>2. ASSUME NEW u \in Users, NEW k \in Keys, GetHit(u, k)
      PROVE  Lease!LeaseNext
  <2>1. PICK c \in Pooled(k), skipped \in SUBSET Pooled(k) :
           /\ c \notin closed /\ c \notin skipped
           /\ closed' = closed \cup skipped
           /\ lease' = [lease EXCEPT ![u] = c]
           /\ \A d \in Conns : InPool(d)' <=> InPool(d) /\ d \notin skipped /\ d # c
    BY <1>2, GetEffect
  <2>2. lease[u] = NoConn /\ dialed' = dialed
    BY <1>2 DEF GetHit, TypeOK
  <2>3. c \in Conns /\ InPool(c) /\ ~Leased(c) /\ \A d \in skipped : d \in Conns /\ InPool(d)
    BY <2>1, PooledIsInPool
  <2>4. /\ {d \in Conns : Owner[d] = u} = {}
        /\ Owner' = [Owner EXCEPT ![c] = u]
    BY <2>1, <2>2, <2>3, OwnerTakes
  <2>5. PICK retired : retired = skipped \ closed
    OBVIOUS
  <2>6. c \in Idle /\ retired \in SUBSET (Idle \ {c})
    BY <2>1, <2>3, <2>5 DEF Idle
  <2>7. Idle' = (Idle \ retired) \ {c} /\ Open' = Open \ retired
    BY <2>1, <2>2, <2>5 DEF Idle, Open
  <2>8. Lease!Acquire(u, c)
    BY <2>4, <2>6, <2>7 DEF Lease!Acquire, Lease!Owns, Owner, Idle, Open
  <2> QED
    BY <2>3, <2>8 DEF Lease!LeaseNext
<1>3. ASSUME NEW u \in Users, NEW k \in Keys, GetMiss(u, k)
      PROVE  Lease!LeaseNext \/ UNCHANGED Lease!leaseVars
  <2>1. PICK S : S = Pooled(k) \ closed
    OBVIOUS
  <2>2. lease' = lease /\ pool' = pool /\ dialed' = dialed /\ closed' = closed \cup Pooled(k)
    BY <1>3 DEF GetMiss, CloseAll
  <2>3. Owner' = Owner
    BY <2>2, OwnerStays
  <2>4. S \in SUBSET Conns /\ \A c \in S : c \in Open /\ Owner[c] = NoConn
    BY <1>b, <2>1, PooledIsInPool DEF Open
  <2>5. Idle' = Idle \ S /\ Open' = Open \ S
    BY <2>1, <2>2 DEF Idle, Open, InPool, Pooled
  <2>6. CASE S = {}
    BY <1>c, <2>3, <2>5, <2>6
  <2>7. CASE S # {}
    <3>1. Lease!Retire(S)
      BY <2>3, <2>4, <2>5, <2>7 DEF Lease!Retire, Owner, Idle, Open
    <3> QED
      BY <2>4, <3>1 DEF Lease!LeaseNext
  <2> QED
    BY <2>6, <2>7
<1>4. ASSUME NEW u \in Users, Return(u)
      PROVE  UNCHANGED Lease!leaseVars
  BY <1>4, <1>c, OwnerStays DEF Return, Idle, Open, InPool, Pooled
<1>5. ASSUME NEW u \in Users, Put(u)
      PROVE  Lease!LeaseNext
  <2>1. PICK c, k, evicted : c = lease[u] /\ k = Target(u) /\ evicted = Evicted(u)
    OBVIOUS
  <2>2. /\ c \in dialed /\ c \in Conns /\ k \in Keys
        /\ evicted \subseteq Pooled(k) /\ c \notin evicted
        /\ closed' = closed \cup evicted
        /\ lease' = [lease EXCEPT ![u] = NoConn]
        /\ \A d \in Conns : InPool(d)' <=> (InPool(d) /\ d \notin evicted) \/ d = c
    BY <1>5, <2>1, PutEffect
  <2>3. dialed' = dialed /\ \A d \in evicted : d \in Conns /\ InPool(d)
    BY <1>5, <2>2, PooledIsInPool DEF Put
  <2>4. Owner[c] = u /\ Owner' = [Owner EXCEPT ![c] = NoConn]
    BY <2>1, <2>2, OwnerGives
  <2>5. PICK retired : retired = evicted \ closed
    OBVIOUS
  <2>6. retired \in SUBSET Idle
    BY <2>3, <2>5 DEF Idle
  <2>7. /\ Idle' = (Idle \ retired) \cup ({c} \cap Open)
        /\ Open' = Open \ retired
    BY <2>2, <2>3, <2>5 DEF Idle, Open
  <2>8. Lease!Release(u, c)
    BY <2>4, <2>6, <2>7 DEF Lease!Release, Owner, Idle, Open
  <2> QED
    BY <2>2, <2>8 DEF Lease!LeaseNext
<1>6. ASSUME NEW u \in Users, Discard(u)
      PROVE  Lease!LeaseNext
  <2>1. PICK c : c = lease[u]
    OBVIOUS
  <2>2. /\ c \in dialed /\ c \in Conns /\ closed' = closed \cup {c}
        /\ lease' = [lease EXCEPT ![u] = NoConn] /\ dialed' = dialed /\ pool' = pool
    BY <1>6, <1>a, <2>1 DEF Discard, CloseAll, TypeOK
  <2>3. Owner[c] = u /\ Owner' = [Owner EXCEPT ![c] = NoConn]
    BY <2>1, <2>2, OwnerGives
  <2>4. ~InPool(c)
    BY <1>b, <2>1, <2>2 DEF Leased
  <2>5. Idle' = Idle /\ Open' = Open \ {c}
    BY <2>2, <2>4 DEF Idle, Open, InPool, Pooled
  <2>6. Lease!Drop(u, c)
    BY <2>3, <2>5 DEF Lease!Drop, Owner, Idle, Open
  <2> QED
    BY <2>2, <2>6 DEF Lease!LeaseNext
<1>7. ASSUME NEW c \in Conns, Break(c)
      PROVE  Lease!LeaseNext
  <2>1. /\ c \in Open /\ closed' = closed \cup {c} /\ dialed' = dialed
        /\ lease' = lease /\ pool' = pool
    BY <1>7 DEF Break, CloseAll, Open
  <2>2. Idle' = Idle \ {c} /\ Open' = Open \ {c} /\ Owner' = Owner
    BY <2>1, OwnerStays DEF Idle, Open, InPool, Pooled
  <2>3. Lease!Fail(c)
    BY <2>1, <2>2 DEF Lease!Fail, Owner, Idle, Open
  <2> QED
    BY <2>3 DEF Lease!LeaseNext
<1>8. ASSUME NEW c \in Conns, TimerFire(c)
      PROVE  UNCHANGED Lease!leaseVars
  BY <1>8, <1>c, OwnerStays DEF TimerFire, Idle, Open, InPool, Pooled
<1>9. ASSUME NEW c \in Conns, IdleRemove(c)
      PROVE  Lease!LeaseNext \/ UNCHANGED Lease!leaseVars
  <2>1. dialed' = dialed /\ closed' = closed /\ Open' = Open /\ Owner' = Owner
    BY <1>9, OwnerStays DEF IdleRemove, Open
  <2>2. CASE pool' = pool
    BY <1>c, <2>1, <2>2 DEF Idle, InPool, Pooled
  <2>3. CASE \A d \in Conns : InPool(d)' <=> InPool(d) /\ d # c
    <3>1. Idle' = Idle \ {c}
      BY <2>1, <2>3 DEF Idle
    <3>2. CASE c \in Idle
      <4>1. Lease!Withdraw(c)
        BY <2>1, <3>1, <3>2 DEF Lease!Withdraw, Owner, Idle, Open
      <4> QED
        BY <4>1 DEF Lease!LeaseNext
    <3>3. CASE c \notin Idle
      BY <1>c, <2>1, <3>1, <3>3
    <3> QED
      BY <3>2, <3>3
  <2> QED
    BY <1>9, <2>2, <2>3, RemoveEffect
<1>10. ASSUME NEW c \in Conns, IdleClose(c)
       PROVE  Lease!LeaseNext \/ UNCHANGED Lease!leaseVars
  <2>1. /\ c \in removed /\ closed' = closed \cup {c} /\ dialed' = dialed
        /\ lease' = lease /\ pool' = pool
    BY <1>10 DEF IdleClose, CloseAll
  <2>2. Idle' = Idle \ {c} /\ Open' = Open \ {c} /\ Owner' = Owner
    BY <2>1, OwnerStays DEF Idle, Open, InPool, Pooled
  <2>3. Owner[c] = NoConn
    <3>1. ~Leased(c)
      BY <2>1 DEF Exclusive, Leased
    <3> QED
      BY <3>1 DEF OwnerIsLeaser
  <2>4. CASE c \in Open
    <3>1. PICK S : S = {c}
      OBVIOUS
    <3>2. Lease!Retire(S)
      BY <2>2, <2>3, <2>4, <3>1 DEF Lease!Retire, Owner, Idle, Open
    <3>3. S \in SUBSET Conns
      BY <3>1
    <3> QED
      BY <3>2, <3>3 DEF Lease!LeaseNext
  <2>5. CASE c \notin Open
    <3>1. c \notin Idle
      BY <1>b, <2>5 DEF Idle, Open
    <3> QED
      BY <1>c, <2>2, <2>5, <3>1
  <2> QED
    BY <2>4, <2>5
<1>11. ASSUME Tick
       PROVE  UNCHANGED Lease!leaseVars
  BY <1>11, <1>c, OwnerStays DEF Tick, Idle, Open, InPool, Pooled
<1> QED
  BY <1>1, <1>2, <1>3, <1>4, <1>5, <1>6, <1>7, <1>8, <1>9, <1>10, <1>11
  DEF PoolNext, Background

\* The pool, with its lists, timers, late expirations and dead entries, keeps
\* ConnLease's promise: one owner per connection, none closed by the pool
\* while it is owned, none leased out after it was closed.
THEOREM PoolIsLease == PoolSpec => ImplementsLease
<1>1. PoolInit => Lease!LeaseInit
  BY PoolAssumption DEF PoolInit, Lease!LeaseInit, Leased, InPool, Pooled
<1>2. TypeOK /\ TypeOK' /\ Exclusive /\ Exclusive' /\ OwnerIsLeaser /\ OwnerIsLeaser'
        /\ [PoolNext]_poolVars => [Lease!LeaseNext]_Lease!leaseVars
  <2> SUFFICES ASSUME TypeOK, TypeOK', Exclusive, Exclusive',
                      OwnerIsLeaser, OwnerIsLeaser', [PoolNext]_poolVars
               PROVE  [Lease!LeaseNext]_Lease!leaseVars
      OBVIOUS
  <2>1. CASE PoolNext
    BY <2>1, LeaseStep
  <2>2. CASE UNCHANGED poolVars
    BY <2>2 DEF poolVars, Lease!leaseVars, Leased, InPool, Pooled
  <2> QED
    BY <2>1, <2>2
<1> QED
  BY <1>1, <1>2, OwnerFacts, TypeCorrect, PoolIsExclusive, PTL
  DEF PoolSpec, ImplementsLease, Lease!LeaseSpec
=============================================================================
