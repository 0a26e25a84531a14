-------------------------- MODULE NeedQueueProofs ---------------------------
(***************************************************************************)
(* Proofs about the need queue, for every number of workers, groups and    *)
(* files, every capacity and every budget of retries and lost channels.    *)
(***************************************************************************)
EXTENDS NeedQueue, TLAPS, FiniteSetTheorems

USE ZenonT(30)

-----------------------------------------------------------------------------
(***************************************************************************)
(* Sequences.                                                              *)
(***************************************************************************)

\* A sequence over S is a function from 1 .. Len(s) to S.
LEMMA LenFacts ==
    ASSUME NEW S, NEW s \in Seq(S)
    PROVE  Len(s) \in Nat /\ DOMAIN s = 1 .. Len(s) /\ s \in [1 .. Len(s) -> S]
BY SMT

LEMMA FirstAndRest ==
    ASSUME NEW S, NEW s \in Seq(S), s # <<>>
    PROVE  /\ Len(s) \in Nat \ {0} /\ Head(s) = s[1] /\ Head(s) \in S
           /\ Tail(s) \in Seq(S)
           /\ Len(Tail(s)) = Len(s) - 1
           /\ \A i \in 1 .. Len(s) - 1 : Tail(s)[i] = s[i + 1]
BY SMT

LEMMA SeqWider ==
    ASSUME NEW S, NEW T, S \subseteq T, NEW s \in Seq(S)
    PROVE  s \in Seq(T)
<1> USE SMT
<1>1. s \in [1 .. Len(s) -> T] /\ Len(s) \in Nat
  OBVIOUS
<1> QED
  BY <1>1

\* The elements of a sequence over S are members of S.
LEMMA RangeTyped ==
    ASSUME NEW S, NEW s \in Seq(S)
    PROVE  Range(s) \subseteq S
<1>1. \A i \in DOMAIN s : s[i] \in S
  BY LenFacts
<1> QED
  BY <1>1 DEF Range

\* Appending an item adds exactly that item, and keeps items distinct when
\* the item is new.
LEMMA AppendFacts ==
    ASSUME NEW S, NEW s \in Seq(S), NEW e \in S
    PROVE  /\ Append(s, e) \in Seq(S)
           /\ Append(s, e) # <<>>
           /\ Len(Append(s, e)) = Len(s) + 1
           /\ Range(Append(s, e)) = Range(s) \cup {e}
           /\ IsInjective(s) /\ e \notin Range(s) => IsInjective(Append(s, e))
<1> USE SMT
<1>1. /\ Append(s, e) \in Seq(S)
      /\ Append(s, e) # <<>>
      /\ Len(Append(s, e)) = Len(s) + 1
      /\ \A i \in 1 .. Len(s) : Append(s, e)[i] = s[i]
      /\ Append(s, e)[Len(s) + 1] = e
  OBVIOUS
<1> /\ Len(s) \in Nat
    /\ DOMAIN s = 1 .. Len(s)
    /\ DOMAIN Append(s, e) = 1 .. Len(s) + 1
  BY <1>1, LenFacts
<1>4. Range(Append(s, e)) = Range(s) \cup {e}
  <2>1. Range(Append(s, e)) \subseteq Range(s) \cup {e}
    BY <1>1 DEF Range
  <2>2. Range(s) \subseteq Range(Append(s, e))
    BY <1>1 DEF Range
  <2>3. e \in Range(Append(s, e))
    BY <1>1 DEF Range
  <2> QED
    BY <2>1, <2>2, <2>3
<1>5. IsInjective(s) /\ e \notin Range(s) => IsInjective(Append(s, e))
  BY <1>1 DEF Range, IsInjective
<1> QED
  BY <1>1, <1>4, <1>5

\* Taking the head removes exactly the head of a sequence of distinct items.
LEMMA HeadTailFacts ==
    ASSUME NEW S, NEW s \in Seq(S), s # <<>>, IsInjective(s)
    PROVE  /\ Head(s) \in Range(s)
           /\ Tail(s) \in Seq(S)
           /\ Len(Tail(s)) = Len(s) - 1
           /\ Range(Tail(s)) = Range(s) \ {Head(s)}
           /\ IsInjective(Tail(s))
<1> USE SMT
<1> Len(s) \in Nat \ {0} /\ Head(s) = s[1]
  BY FirstAndRest
<1>2. /\ Tail(s) \in Seq(S)
      /\ Len(Tail(s)) = Len(s) - 1
      /\ \A i \in 1 .. Len(s) - 1 : Tail(s)[i] = s[i + 1]
  BY FirstAndRest
<1> DOMAIN s = 1 .. Len(s) /\ DOMAIN Tail(s) = 1 .. Len(s) - 1
  BY <1>2, LenFacts
<1>4. Head(s) \in Range(s)
  BY DEF Range
<1>5. IsInjective(Tail(s))
  BY <1>2 DEF IsInjective
<1>6. Range(Tail(s)) \subseteq Range(s) \ {Head(s)}
  BY <1>2 DEF Range, IsInjective
<1>7. ASSUME NEW x \in Range(s) \ {Head(s)}
      PROVE  x \in Range(Tail(s))
  <2>1. PICK i \in 2 .. Len(s) : s[i] = x
    BY DEF Range
  <2>2. i - 1 \in 1 .. Len(s) - 1 /\ Tail(s)[i - 1] = x
    BY <1>2, <2>1
  <2> QED
    BY <2>2, Zenon DEF Range
<1> QED
  BY <1>2, <1>4, <1>5, <1>6, <1>7

\* Appending a group adds exactly its files.
LEMMA ConcatFacts ==
    ASSUME NEW S, NEW s \in Seq(S), NEW t \in Seq(S)
    PROVE  /\ s \o t \in Seq(S)
           /\ Len(s \o t) = Len(s) + Len(t)
           /\ Range(s \o t) = Range(s) \cup Range(t)
           /\ IsInjective(s) /\ IsInjective(t) /\ Range(s) \cap Range(t) = {}
                 => IsInjective(s \o t)
<1> USE SMT
<1>1. /\ s \o t \in Seq(S)
      /\ Len(s \o t) = Len(s) + Len(t)
      /\ \A i \in 1 .. Len(s) + Len(t) :
            (s \o t)[i] = IF i <= Len(s) THEN s[i] ELSE t[i - Len(s)]
  OBVIOUS
<1> /\ Len(s) \in Nat /\ Len(t) \in Nat
    /\ DOMAIN s = 1 .. Len(s)
    /\ DOMAIN t = 1 .. Len(t)
    /\ DOMAIN (s \o t) = 1 .. Len(s) + Len(t)
  BY <1>1, LenFacts
<1>3. Range(s \o t) \subseteq Range(s) \cup Range(t)
  BY <1>1 DEF Range
<1>4. Range(s) \subseteq Range(s \o t)
  BY <1>1 DEF Range
<1>5. ASSUME NEW i \in 1 .. Len(t)
      PROVE  t[i] \in Range(s \o t)
  <2>1. Len(s) + i \in 1 .. Len(s) + Len(t) /\ (s \o t)[Len(s) + i] = t[i]
    BY <1>1
  <2> QED
    BY <2>1 DEF Range
<1>6. ASSUME IsInjective(s), IsInjective(t), Range(s) \cap Range(t) = {}
      PROVE  IsInjective(s \o t)
  <2> SUFFICES ASSUME NEW i \in 1 .. Len(s) + Len(t),
                      NEW j \in 1 .. Len(s) + Len(t),
                      (s \o t)[i] = (s \o t)[j]
               PROVE  i = j
    BY DEF IsInjective
  <2>1. \A k \in 1 .. Len(s), l \in 1 .. Len(t) : s[k] # t[l]
    BY <1>6, Zenon DEF Range
  <2>2. CASE i <= Len(s) /\ j <= Len(s)
    BY <1>1, <1>6, <2>2 DEF IsInjective
  <2>3. CASE i > Len(s) /\ j > Len(s)
    <3>1. /\ i - Len(s) \in DOMAIN t /\ j - Len(s) \in DOMAIN t
          /\ t[i - Len(s)] = t[j - Len(s)]
      BY <1>1, <2>3
    <3>2. i - Len(s) = j - Len(s)
      BY <1>6, <3>1 DEF IsInjective
    <3> QED
      BY <3>2
  <2>4. CASE (i <= Len(s)) # (j <= Len(s))
    BY <1>1, <2>1, <2>4
  <2> QED
    BY <2>2, <2>3, <2>4
<1>7. Range(t) \subseteq Range(s \o t)
  BY <1>5 DEF Range
<1> QED
  BY <1>1, <1>3, <1>4, <1>6, <1>7

\* The sort of pushGroup loses nothing, invents nothing and repeats nothing:
\* every position has exactly one element of that rank.
LEMMA LargestFirstPermutes ==
    ASSUME NEW s \in Seq(File)
    PROVE  /\ LargestFirst(s) \in Seq(File)
           /\ Len(LargestFirst(s)) = Len(s)
           /\ Range(LargestFirst(s)) = Range(s)
           /\ IsInjective(s) => IsInjective(LargestFirst(s))
<1> USE SMT
<1> DEFINE n == Len(s)
           D == 1 .. n
           Pred(i) == {j \in D : Before(s, j, i)}
           R == [i \in D |-> Rank(s, i)]
<1>1. n \in Nat /\ DOMAIN s = D /\ s \in [D -> File]
  BY LenFacts
<1>2. IsFiniteSet(D) /\ Cardinality(D) = n
  BY <1>1, FS_Interval, SMTT(20)
<1>3. \A i \in D : Size[s[i]] \in Nat
  BY <1>1, QueueAssumption
<1>4. ASSUME NEW i \in D
      PROVE  /\ IsFiniteSet(Pred(i))
             /\ Cardinality(Pred(i)) \in 0 .. n - 1
             /\ R[i] = Cardinality(Pred(i)) + 1
             /\ R[i] = Rank(s, i)
             /\ R[i] \in D
  <2>1. Pred(i) \subseteq D \ {i}
    BY <1>1, <1>3 DEF Before
  <2>2. IsFiniteSet(D \ {i}) /\ Cardinality(D \ {i}) = n - 1
    BY <1>2, FS_RemoveElement, Zenon
  <2>3. IsFiniteSet(Pred(i)) /\ Cardinality(Pred(i)) <= n - 1
    BY <2>1, <2>2, FS_Subset
  <2>4. Cardinality(Pred(i)) \in Nat
    BY <2>3, FS_CardinalityType
  <2>5. R[i] = Cardinality(Pred(i)) + 1 /\ R[i] = Rank(s, i)
    BY <1>1 DEF Rank
  <2> HIDE DEF Pred, R
  <2> QED
    BY <1>1, <2>3, <2>4, <2>5
<1>5. ASSUME NEW i \in D, NEW j \in D, Before(s, i, j)
      PROVE  R[i] # R[j]
  <2>1. Pred(i) \subseteq Pred(j)
    BY <1>1, <1>3, <1>5 DEF Before
  <2>2. i \in Pred(j) /\ i \notin Pred(i)
    BY <1>1, <1>3, <1>5 DEF Before
  <2> HIDE DEF Pred, R
  <2>3. Cardinality(Pred(i)) # Cardinality(Pred(j))
    BY <1>4, <2>1, <2>2, FS_Subset
  <2> QED
    BY <1>4, <2>3
<1>6. \A i, j \in D : i # j => Before(s, i, j) \/ Before(s, j, i)
  BY <1>1, <1>3 DEF Before
<1>7. R \in Injection(D, D)
  <2>1. R \in [D -> D]
    <3>1. \A i \in D : Rank(s, i) \in D
      BY <1>4, Zenon
    <3> QED
      BY <3>1
  <2>2. \A i, j \in D : R[i] = R[j] => i = j
    BY <1>5, <1>6
  <2> QED
    BY <2>1, <2>2 DEF Injection, IsInjective
<1>8. R \in Surjection(D, D)
  BY <1>2, <1>7, FS_Injection
<1>9. \A k \in D : \E i \in D : Rank(s, i) = k
  <2> HIDE DEF R, D
  <2>1. \A k \in D : \E i \in D : R[i] = k
    BY <1>8 DEF Surjection
  <2> QED
    BY <1>4, <2>1, Zenon
<1> DEFINE at(k) == CHOOSE i \in DOMAIN s : Rank(s, i) = k
<1>10. \A k \in D : at(k) \in D /\ Rank(s, at(k)) = k
  BY <1>1, <1>9
<1>11. /\ DOMAIN LargestFirst(s) = D
       /\ \A k \in D : LargestFirst(s)[k] = s[at(k)]
  BY <1>1 DEF LargestFirst
<1>12. LargestFirst(s) \in Seq(File) /\ Len(LargestFirst(s)) = n
  <2>1. LargestFirst(s) \in [D -> File]
    BY <1>1, <1>10, <1>11 DEF LargestFirst
  <2> QED
    BY <1>1, <2>1
<1>13. Range(LargestFirst(s)) \subseteq Range(s)
  BY <1>1, <1>10, <1>11 DEF Range
<1>14. ASSUME NEW i \in D
       PROVE  s[i] \in Range(LargestFirst(s))
  <2> HIDE DEF R, D
  <2>1. R[i] \in D /\ R[i] = Rank(s, i)
    BY <1>4, Zenon
  <2>2. R[at(R[i])] = R[i] /\ at(R[i]) \in D
    BY <1>4, <1>10, <2>1, Zenon
  <2>3. at(R[i]) = i
    BY <1>7, <2>2 DEF Injection, IsInjective
  <2>4. LargestFirst(s)[R[i]] = s[i]
    BY <1>11, <2>1, <2>3
  <2> HIDE DEF at
  <2> QED
    BY <1>11, <2>1, <2>4 DEF Range
<1>15. ASSUME IsInjective(s)
       PROVE  IsInjective(LargestFirst(s))
  BY <1>1, <1>10, <1>11, <1>15 DEF IsInjective
<1> QED
  BY <1>1, <1>12, <1>13, <1>14, <1>15 DEF Range

-----------------------------------------------------------------------------
(***************************************************************************)
(* Consequences of the invariant that several steps need.                  *)
(***************************************************************************)

\* At most one item per worker is in flight.
LEMMA HoldersFinite ==
    /\ IsFiniteSet(Holders)
    /\ Cardinality(Holders) \in Nat
    /\ Cardinality(Worker) \in Nat
    /\ Cardinality(Holders) <= Cardinality(Worker)
<1>1. Holders \subseteq Worker /\ IsFiniteSet(Worker)
  BY QueueAssumption DEF Holders
<1> QED
  BY <1>1, FS_Subset, FS_CardinalityType

\* The files of a group that was not pushed yet are not in the queue.
LEMMA GroupIsNew ==
    ASSUME TypeOK, NEW g \in Group, group[g] # "pushed"
    PROVE  Range(Need[g]) \cap Enqueued = {}
<1>1. Range(Need[g]) \cap Secondary = {}
  <2>1. Need[g] \in Seq(File \ Secondary)
    BY NeedAssumption
  <2> QED
    BY <2>1, RangeTyped
<1>2. fallen \subseteq Secondary
  BY DEF TypeOK
<1>3. \A h \in PushedGroups : Range(Need[g]) \cap Range(Need[h]) = {}
  BY NeedAssumption DEF PushedGroups
<1> QED
  BY <1>1, <1>2, <1>3, SMT DEF Enqueued

\* A secondary that did not fall back yet is not in the queue.
LEMMA FallbackIsNew ==
    ASSUME TypeOK, NEW f \in Secondary \ fallen
    PROVE  f \notin Enqueued
<1>1. \A g \in Group : f \notin Range(Need[g])
  <2>1. \A g \in Group : Need[g] \in Seq(File \ Secondary)
    BY NeedAssumption
  <2> QED
    BY <2>1, RangeTyped
<1> QED
  BY <1>1 DEF Enqueued, PushedGroups

\* A queue without room for a group still has none after it grew.
LEMMA FullStays ==
    ASSUME NEW g \in Group, Full(g),
           items \in Seq(File), items' \in Seq(File), Len(items') >= Len(items)
    PROVE  Full(g)'
<1>1. Len(items) \in Nat /\ Len(items') \in Nat
  BY LenFacts
<1>2. Len(Need[g]) \in Nat
  BY NeedAssumption, LenFacts
<1>3. Capacity \in Nat
  BY QueueAssumption
<1> QED
  BY <1>1, <1>2, <1>3, SMT DEF Full

\* Initially the queue is empty and nobody holds anything.
LEMMA InitIInv == Init => IInv
<1> SUFFICES ASSUME Init PROVE IInv
  OBVIOUS
<1> USE DEF Init
<1> Holders = {} /\ HeldFiles = {} /\ Queued = {} /\ Enqueued = {}
  <2>1. Holders = {}
    BY DEF Holders, HoldState
  <2>2. Queued = {}
    BY SMT DEF Queued, Range
  <2>3. PushedGroups = {}
    BY DEF PushedGroups
  <2> QED
    BY <2>1, <2>2, <2>3 DEF HeldFiles, Enqueued
<1>2. TypeOK
  <2>1. /\ items \in Seq(File)
        /\ pending \in [Group -> Nat]
        /\ under \in [File -> Group \cup {-1}]
        /\ group \in [Group -> GroupState]
    BY SMT DEF GroupState
  <2>2. /\ worker \in [Worker -> WorkerState]
        /\ held \in [Worker -> File \cup {None}]
        /\ \A w \in Worker : held[w] # None <=> w \in Holders
    BY DEF WorkerState, LiveState
  <2> QED
    BY <2>1, <2>2 DEF TypeOK, PipelineState
<1>3. InflightExact
  BY FS_EmptySet DEF InflightExact
<1>4. DepthBound
  <2>1. Cardinality(fallen) = 0
    BY FS_EmptySet
  <2> QED
    BY <2>1, HoldersFinite, QueueAssumption, SMT DEF DepthBound
<1>5. EachItemOnce
  BY SMT DEF EachItemOnce, IsInjective
<1>6. ClosedLast /\ NoLostWakeup /\ DrainedIsFinal
  BY DEF ClosedLast, NoLostWakeup, DrainedIsFinal
<1> QED
  BY <1>2, <1>3, <1>4, <1>5, <1>6 DEF IInv

(***************************************************************************)
(* The queue operations.                                                   *)
(***************************************************************************)

\* When the queue is drained, everything that was enqueued is finished.
LEMMA DrainedMeansFinished ==
    ASSUME IInv, Drained
    PROVE  finished = Enqueued
<1>1. Holders = {}
  BY HoldersFinite, FS_EmptySet DEF IInv, InflightExact, Drained
<1>2. Queued = {}
  BY SMT DEF Drained, Queued, Range
<1>3. HeldFiles = {}
  BY <1>1 DEF HeldFiles
<1> QED
  BY <1>2, <1>3 DEF IInv, EachItemOnce

\* A step that moves goroutines and contexts but touches neither the queue
\* nor what is held keeps the invariant, if it puts to sleep only who has to
\* wait and says "nothing left" only of a drained queue.
LEMMA MoveIInv ==
    ASSUME IInv,
           UNCHANGED <<queueVars, held, finished, fallen>>,
           worker' \in [Worker -> WorkerState],
           \A w \in Worker : worker'[w] \in HoldState <=> worker[w] \in HoldState,
           \A w \in Worker : worker'[w] = "asleep" =>
               worker[w] = "asleep" \/ (items = <<>> /\ ~Drained),
           group' \in [Group -> GroupState],
           \A g \in Group : group'[g] = "asleep" =>
               group[g] = "asleep" \/ (Full(g) /\ ~closed),
           closed => \A g \in Group : group'[g] \in {"pushed", "dropped"},
           Enqueued' = Enqueued,
           pipeline' \in PipelineState,
           pipeline' = "decide" <=> pipeline = "decide",
           pipeline' = "asleep" => pipeline = "asleep" \/ ~Drained,
           told' \in BOOLEAN,
           told' => told \/ Drained,
           rootDone' \in BOOLEAN,
           retired' \in SUBSET Worker, older' \in [Worker -> SUBSET Worker],
           requeues' \in Nat, losses' \in Nat, retires' \in Nat
    PROVE  IInv'
<1> USE DEF IInv, queueVars
<1> Holders' = Holders
  BY DEF Holders
<1>2. HeldFiles' = HeldFiles /\ Queued' = Queued
  BY DEF HeldFiles, Queued
<1>3. TypeOK'
  BY DEF TypeOK
<1>4. EachItemOnce'
  BY <1>2 DEF EachItemOnce
<1>5. InflightExact'
  BY DEF InflightExact
<1>6. Drained' = Drained /\ \A g \in Group : Full(g)' = Full(g)
  BY DEF Drained, Full
<1>7. NoLostWakeup'
  BY <1>6 DEF NoLostWakeup
<1>8. DrainedIsFinal'
  BY <1>6, DrainedMeansFinished DEF DrainedIsFinal
<1>9. ClosedLast' /\ DepthBound'
  BY DEF ClosedLast, DepthBound
<1> QED
  BY <1>3, <1>4, <1>5, <1>7, <1>8, <1>9, SMT

\* pushFallback keeps the invariant, provided its caller holds an item in
\* flight or runs before the queue is closed: only then can nobody have been
\* told that nothing is left.
LEMMA PushFallbackIInv ==
    ASSUME IInv, NEW f \in Secondary, NEW g \in Group, PushFallback(f, g),
           Holders # {} \/ ~closed
    PROVE  /\ IInv'
           /\ f \in File /\ f \notin Enqueued /\ ~told
           /\ Queued' = Queued \cup {f} /\ HeldFiles' = HeldFiles
           /\ UNCHANGED <<finished, told>>
<1> USE DEF IInv, PushFallback, ctxVars, boundVars
<1> f \in File /\ items \in Seq(File)
  BY QueueAssumption DEF TypeOK
<1>2. f \notin Enqueued
  BY FallbackIsNew
<1> /\ items' \in Seq(File)
    /\ items' # <<>>
    /\ Len(items') = Len(items) + 1
    /\ Queued' = Queued \cup {f}
    /\ IsInjective(items')
  BY <1>2, AppendFacts, SMT DEF EachItemOnce, Queued
<1>4. /\ Holders' = Holders /\ HeldFiles' = HeldFiles
      /\ worker' \in [Worker -> WorkerState]
      /\ \A w \in Worker : worker'[w] # "asleep"
      /\ pipeline' \in PipelineState
      /\ pipeline' # "asleep"
      /\ pipeline' = "decide" <=> pipeline = "decide"
  <2>1. /\ worker' \in [Worker -> WorkerState]
        /\ \A w \in Worker : worker'[w] # "asleep"
        /\ \A w \in Worker : worker'[w] \in HoldState <=> worker[w] \in HoldState
    BY DEF TypeOK, WokenWorkers, WorkerState, LiveState, HoldState
  <2>2. Holders' = Holders
    BY <2>1 DEF Holders
  <2>3. /\ pipeline' \in PipelineState
        /\ pipeline' # "asleep"
        /\ pipeline' = "decide" <=> pipeline = "decide"
    BY DEF TypeOK, WokenPipeline, PipelineState
  <2> QED
    BY <2>1, <2>2, <2>3 DEF HeldFiles
<1>5. Enqueued' = Enqueued \cup {f}
  BY DEF Enqueued, PushedGroups
<1>6. TypeOK'
  BY <1>4, <1>5, SMT DEF TypeOK
<1>7. EachItemOnce'
  BY <1>2, <1>4, <1>5 DEF EachItemOnce
<1>8. InflightExact'
  BY <1>4 DEF InflightExact
<1>9. NoLostWakeup'
  <2>1. Len(items') >= Len(items)
    BY LenFacts, SMT
  <2>2. \A h \in Group : group'[h] = "asleep" => Full(h)' /\ ~closed'
    BY <2>1, FullStays DEF NoLostWakeup
  <2> QED
    BY <1>4, <2>2 DEF NoLostWakeup, Drained
<1>10. ~told
  <2>1. Holders # {} => inflight # 0
    BY HoldersFinite, FS_EmptySet DEF InflightExact
  <2> QED
    BY <2>1 DEF DrainedIsFinal, Drained
<1>11. DepthBound'
  <2>1. IsFiniteSet(fallen)
    BY QueueAssumption, FS_Subset DEF TypeOK
  <2>2. Cardinality(fallen') = Cardinality(fallen) + 1
    BY <2>1, FS_AddElement
  <2>3. Cardinality(fallen) \in Nat /\ Len(items) \in Nat /\ inflight \in Nat
    BY <2>1, FS_CardinalityType, LenFacts DEF TypeOK
  <2> QED
    BY <2>2, <2>3, HoldersFinite, QueueAssumption, SMT DEF DepthBound
<1>12. ClosedLast' /\ DrainedIsFinal'
  BY <1>4, <1>10 DEF ClosedLast, DrainedIsFinal
<1> QED
  BY <1>2, <1>4, <1>6, <1>7, <1>8, <1>9, <1>10, <1>11, <1>12

\* A worker that holds an item has it from the queue, alone, and in flight.
LEMMA HeldFacts ==
    ASSUME IInv, NEW w \in Holders
    PROVE  /\ held[w] \in File
           /\ held[w] \in HeldFiles
           /\ held[w] \in Enqueued
           /\ under[held[w]] \in Group
           /\ inflight \in Nat \ {0}
<1>1. held[w] \in File /\ held[w] \in HeldFiles
  BY DEF IInv, TypeOK, HeldFiles, Holders
<1>2. held[w] \in Enqueued
  BY <1>1 DEF IInv, EachItemOnce
<1>3. inflight # 0
  BY HoldersFinite, FS_EmptySet DEF IInv, InflightExact
<1> QED
  BY <1>1, <1>2, <1>3 DEF IInv, TypeOK

\* done keeps the invariant.  Broadcasting only when it drains the queue is
\* enough, because otherwise no sleeper's condition has become true.
LEMMA DoneIInv ==
    ASSUME IInv, NEW w \in Worker, NEW from \in HoldState,
           NEW next \in {"pop", "rejoin", "out"}, Done(w, from, next),
           losses' \in Nat
    PROVE  /\ IInv'
           /\ held[w] \in File /\ held[w] \in HeldFiles
           /\ Queued' = Queued /\ HeldFiles' = HeldFiles \ {held[w]}
           /\ finished' = finished \cup {held[w]} /\ UNCHANGED told
<1> USE DEF IInv, Done, ctxVars
<1>1. w \in Holders
  BY DEF Holders
<1> /\ held[w] \in File /\ held[w] \in HeldFiles /\ held[w] \in Enqueued
    /\ under[held[w]] \in Group
    /\ inflight \in Nat \ {0}
    /\ inflight' = inflight - 1
  BY <1>1, HeldFacts, SMT DEF Less
<1>3. /\ worker' \in [Worker -> WorkerState]
      /\ worker'[w] = next
      /\ \A v \in Worker \ {w} : worker'[v] \in HoldState <=> worker[v] \in HoldState
      /\ \A v \in Worker : worker'[v] = "asleep" => worker[v] = "asleep"
      /\ Drained' => \A v \in Worker : worker'[v] # "asleep"
  <2>1. /\ WokenWorkers \in [Worker -> WorkerState]
        /\ \A v \in Worker : WokenWorkers[v] # "asleep"
        /\ \A v \in Worker : WokenWorkers[v] \in HoldState <=> worker[v] \in HoldState
    BY DEF TypeOK, WokenWorkers, WorkerState, LiveState, HoldState
  <2>2. next \in WorkerState /\ next # "asleep"
    BY DEF WorkerState, LiveState
  <2>3. worker \in [Worker -> WorkerState]
    BY DEF TypeOK
  <2>4. CASE closed /\ items = <<>> /\ inflight' = 0
    <3>1. worker' = [WokenWorkers EXCEPT ![w] = next]
      BY <2>4
    <3> QED
      BY <2>1, <2>2, <3>1
  <2>5. CASE ~(closed /\ items = <<>> /\ inflight' = 0)
    <3>1. worker' = [worker EXCEPT ![w] = next]
      BY <2>5
    <3> QED
      BY <2>2, <2>3, <2>5, <3>1 DEF Drained
  <2> QED
    BY <2>4, <2>5
<1> Holders' = Holders \ {w}
  BY <1>3 DEF Holders, HoldState
<1>5. HeldFiles' = HeldFiles \ {held[w]}
  <2> USE SMT
  <2>1. \A v \in Holders' : held'[v] = held[v] /\ held[v] # held[w]
    BY <1>1 DEF TypeOK, EachItemOnce
  <2> QED
    BY <2>1 DEF HeldFiles
<1>6. Queued' = Queued /\ Enqueued' = Enqueued
  BY DEF Queued, Enqueued, PushedGroups
<1>7. pipeline' \in PipelineState /\ (pipeline' = "decide" <=> pipeline = "decide")
  BY DEF TypeOK, WokenPipeline, PipelineState
<1>8. TypeOK'
  <2>1. held' \in [Worker -> File \cup {None}]
    BY DEF TypeOK
  <2>2. \A v \in Worker : held'[v] # None <=> v \in Holders'
    BY DEF TypeOK
  <2>3. pending' \in [Group -> Nat]
    BY SMT DEF TypeOK, Less
  <2>4. finished' \subseteq File
    BY DEF TypeOK
  <2> QED
    BY <1>3, <1>6, <1>7, <2>1, <2>2, <2>3, <2>4, SMT DEF TypeOK
<1>9. EachItemOnce'
  <2> USE SMT
  <2>1. \A v, u \in Holders' : held'[v] = held'[u] => v = u
    BY DEF TypeOK, EachItemOnce
  <2> QED
    BY <1>5, <1>6, <2>1 DEF EachItemOnce
<1>10. InflightExact'
  BY <1>1, HoldersFinite, FS_RemoveElement DEF InflightExact
<1>11. NoLostWakeup'
  <2>1. pipeline' = "asleep" => ~Drained'
    BY DEF WokenPipeline, Drained
  <2> QED
    BY <1>3, <2>1 DEF NoLostWakeup, Full
<1>12. ~told
  BY DEF DrainedIsFinal, Drained
<1>13. DepthBound'
  <2>1. Len(items) \in Nat /\ Cardinality(fallen) \in Nat
    BY LenFacts, QueueAssumption, FS_Subset, FS_CardinalityType DEF TypeOK
  <2> QED
    BY <2>1, HoldersFinite, QueueAssumption, SMT DEF DepthBound
<1>14. ClosedLast' /\ DrainedIsFinal'
  BY <1>7, <1>12 DEF ClosedLast, DrainedIsFinal
<1> QED
  BY <1>5, <1>6, <1>8, <1>9, <1>10, <1>11, <1>13, <1>14, SMT

\* requeue keeps the invariant: the item moves from flight to the tail.
LEMMA RequeueIInv ==
    ASSUME IInv, NEW w \in Worker, NEW next \in {"pop", "rejoin", "out"},
           Requeue(w, next), losses' \in Nat
    PROVE  /\ IInv'
           /\ held[w] \in File /\ held[w] \in HeldFiles
           /\ Queued' = Queued \cup {held[w]} /\ HeldFiles' = HeldFiles \ {held[w]}
           /\ UNCHANGED <<finished, told>>
<1> USE DEF IInv, Requeue, ctxVars
<1>1. w \in Holders
  BY DEF Holders, HoldState
<1> /\ held[w] \in File /\ held[w] \in HeldFiles /\ held[w] \in Enqueued
    /\ inflight \in Nat \ {0}
    /\ inflight' = inflight - 1
  BY <1>1, HeldFacts, SMT DEF Less
<1> /\ items \in Seq(File)
    /\ items' \in Seq(File)
    /\ items' # <<>>
    /\ Len(items') = Len(items) + 1
    /\ Queued' = Queued \cup {held[w]}
    /\ IsInjective(items')
  BY AppendFacts, SMT DEF EachItemOnce, Queued, TypeOK
<1>4. /\ worker' \in [Worker -> WorkerState]
      /\ worker'[w] = next
      /\ \A v \in Worker \ {w} : worker'[v] \in HoldState <=> worker[v] \in HoldState
      /\ \A v \in Worker : worker'[v] # "asleep"
  <2>1. /\ WokenWorkers \in [Worker -> WorkerState]
        /\ \A v \in Worker : WokenWorkers[v] # "asleep"
        /\ \A v \in Worker : WokenWorkers[v] \in HoldState <=> worker[v] \in HoldState
    BY DEF TypeOK, WokenWorkers, WorkerState, LiveState, HoldState
  <2>2. next \in WorkerState /\ next # "asleep"
    BY DEF WorkerState, LiveState
  <2> QED
    BY <2>1, <2>2
<1> Holders' = Holders \ {w}
  BY <1>4 DEF Holders, HoldState
<1>6. HeldFiles' = HeldFiles \ {held[w]}
  <2> USE SMT
  <2>1. \A v \in Holders' : held'[v] = held[v] /\ held[v] # held[w]
    BY <1>1 DEF TypeOK, EachItemOnce
  <2> QED
    BY <2>1 DEF HeldFiles
<1>7. Enqueued' = Enqueued
  BY DEF Enqueued, PushedGroups
<1>8. /\ pipeline' \in PipelineState
      /\ pipeline' # "asleep"
      /\ pipeline' = "decide" <=> pipeline = "decide"
  BY DEF TypeOK, WokenPipeline, PipelineState
<1>9. TypeOK'
  <2> USE SMT
  <2>1. held' \in [Worker -> File \cup {None}]
    BY DEF TypeOK
  <2>2. \A v \in Worker : held'[v] # None <=> v \in Holders'
    BY DEF TypeOK
  <2>3. requeues' \in Nat
    BY DEF TypeOK
  <2> QED
    BY <1>4, <1>7, <1>8, <2>1, <2>2, <2>3 DEF TypeOK
<1>10. EachItemOnce'
  <2>1. \A v, u \in Holders' : held'[v] = held'[u] => v = u
    BY SMT DEF TypeOK, EachItemOnce
  <2> QED
    BY <1>6, <1>7, <2>1, SMT DEF EachItemOnce
<1>11. InflightExact'
  BY <1>1, HoldersFinite, FS_RemoveElement DEF InflightExact
<1>12. NoLostWakeup'
  <2>1. Len(items') >= Len(items)
    BY LenFacts, SMT
  <2>2. \A h \in Group : group'[h] = "asleep" => Full(h)' /\ ~closed'
    BY <2>1, FullStays DEF NoLostWakeup
  <2> QED
    BY <1>4, <1>8, <2>2 DEF NoLostWakeup, Drained
<1>13. ~told
  BY DEF DrainedIsFinal, Drained
<1>14. DepthBound'
  <2>1. Len(items') + inflight' = Len(items) + inflight
    BY LenFacts, SMT
  <2> QED
    BY <2>1 DEF DepthBound
<1>15. ClosedLast' /\ DrainedIsFinal'
  BY <1>8, <1>13 DEF ClosedLast, DrainedIsFinal
<1> QED
  BY <1>6, <1>9, <1>10, <1>11, <1>12, <1>14, <1>15

\* pop keeps the invariant.  Telling a worker "nothing left" is right
\* because then every enqueued file is finished.
LEMMA PopIInv ==
    ASSUME IInv, NEW w \in Worker, Pop(w)
    PROVE  IInv'
<1> USE DEF IInv, Pop, ctxVars, boundVars
<1>1. CASE /\ UNCHANGED <<items, inflight, held, group>>
           /\ \/ worker' = [worker EXCEPT ![w] = "out"]
              \/ /\ items = <<>> /\ ~Drained
                 /\ worker' = [worker EXCEPT ![w] = "asleep"]
           /\ told' = told \/ (told' = TRUE /\ Drained)
  <2>1. /\ worker' \in [Worker -> WorkerState]
        /\ \A v \in Worker : worker'[v] \in HoldState <=> worker[v] \in HoldState
        /\ \A v \in Worker : worker'[v] = "asleep" =>
              worker[v] = "asleep" \/ (items = <<>> /\ ~Drained)
    BY <1>1 DEF TypeOK, WorkerState, LiveState, HoldState
  <2>2. UNCHANGED <<queueVars, group, held, pipeline, finished, fallen>>
    BY <1>1 DEF queueVars
  <2>3. /\ rootDone' \in BOOLEAN /\ retired' \in SUBSET Worker
        /\ older' \in [Worker -> SUBSET Worker]
        /\ requeues' \in Nat /\ losses' \in Nat /\ retires' \in Nat
    BY DEF TypeOK
  <2>5. told' \in BOOLEAN
    BY <1>1 DEF TypeOK
  <2>6. told' => told \/ Drained
    BY <1>1
  <2>4. /\ group' \in [Group -> GroupState]
        /\ pipeline' \in PipelineState
        /\ closed => \A g \in Group : group'[g] \in {"pushed", "dropped"}
        /\ Enqueued' = Enqueued
    BY <2>2 DEF TypeOK, ClosedLast, Enqueued, PushedGroups
  <2> HIDE DEF Pop, IInv
  <2> QED
    BY <2>1, <2>2, <2>3, <2>4, <2>5, <2>6, MoveIInv
<1>2. CASE /\ items # <<>>
           /\ items' = Tail(items)
           /\ inflight' = inflight + 1
           /\ held' = [held EXCEPT ![w] = Head(items)]
           /\ worker' = [worker EXCEPT ![w] = "fetch"]
           /\ group' = WokenGroups
           /\ UNCHANGED told
  <2>1. items \in Seq(File) /\ Len(items) \in Nat
    BY LenFacts DEF TypeOK
  <2>2. /\ Head(items) \in Queued
        /\ items' \in Seq(File)
        /\ Len(items') = Len(items) - 1
        /\ Queued' = Queued \ {Head(items)}
        /\ IsInjective(items')
    BY <1>2, <2>1, HeadTailFacts, SMT DEF EachItemOnce, Queued
  <2>3. Head(items) \in File /\ Head(items) # None
    BY <1>2, <2>1, FirstAndRest, QueueAssumption
  <2>4. w \notin Holders /\ Holders' = Holders \cup {w}
    BY <1>2, SMT DEF TypeOK, Holders, HoldState
  <2>5. HeldFiles' = HeldFiles \cup {Head(items)}
    <3>1. \A v \in Holders : held'[v] = held[v]
      BY <1>2, <2>4 DEF TypeOK, Holders
    <3>2. held'[w] = Head(items)
      BY <1>2 DEF TypeOK
    <3> QED
      BY <2>4, <3>1, <3>2 DEF HeldFiles
  <2>6. /\ group' \in [Group -> GroupState]
        /\ \A g \in Group : group'[g] # "asleep"
        /\ \A g \in Group : group'[g] = "pushed" <=> group[g] = "pushed"
        /\ \A g \in Group : group[g] # "asleep" => group'[g] = group[g]
    BY <1>2 DEF TypeOK, WokenGroups, GroupState
  <2>7. Enqueued' = Enqueued
    BY <2>6 DEF Enqueued, PushedGroups
  <2>8. TypeOK'
    <3>1. worker' \in [Worker -> WorkerState]
      BY <1>2 DEF TypeOK, WorkerState, LiveState, HoldState
    <3>2. held' \in [Worker -> File \cup {None}]
      BY <1>2, <2>3 DEF TypeOK
    <3>3. \A v \in Worker : held'[v] # None <=> v \in Holders'
      BY <1>2, <2>3, <2>4 DEF TypeOK
    <3>4. inflight' \in Nat
      BY <1>2, SMT DEF TypeOK
    <3>5. TypeOK /\ UNCHANGED <<closed, pending, under, pipeline, rootDone,
                                retired, older, finished, fallen, told, requeues,
                                losses, retires>>
      BY <1>2
    <3> HIDE DEF Pop, IInv
    <3> QED
      BY <2>2, <2>6, <2>7, <3>1, <3>2, <3>3, <3>4, <3>5 DEF TypeOK
  <2>9. EachItemOnce'
    <3>1. \A v, u \in Holders' : held'[v] = held'[u] => v = u
      <4>1. \A v \in Holders : held[v] # Head(items)
        BY <2>2, SMT DEF EachItemOnce, HeldFiles
      <4> QED
        BY <1>2, <2>4, <4>1 DEF TypeOK, EachItemOnce, Holders
    <3> QED
      BY <1>2, <2>2, <2>5, <2>7, <3>1, ZenonT(30) DEF EachItemOnce
  <2>10. InflightExact'
    BY <1>2, <2>4, HoldersFinite, FS_AddElement DEF InflightExact
  <2>11. inflight \in Nat /\ inflight' # 0
    <3>1. inflight \in Nat /\ inflight' = inflight + 1
      BY <1>2 DEF TypeOK
    <3> QED
      BY <3>1, SMT
  <2>12. NoLostWakeup'
    BY <1>2, <2>6, <2>11 DEF NoLostWakeup, Drained, TypeOK
  <2>13. ~told
    BY <1>2 DEF DrainedIsFinal, Drained
  <2>14. DepthBound'
    <3>1. Len(items') + inflight' = Len(items) + inflight
      <4>1. inflight' = inflight + 1
        BY <1>2
      <4> HIDE DEF Pop, IInv
      <4> QED
        BY <2>1, <2>2, <2>11, <4>1, SMT
    <3> QED
      BY <3>1 DEF DepthBound
  <2>15. ClosedLast' /\ DrainedIsFinal'
    BY <1>2, <2>6, <2>13 DEF ClosedLast, DrainedIsFinal
  <2> QED
    BY <2>8, <2>9, <2>10, <2>12, <2>14, <2>15
<1> QED
  BY <1>1, <1>2

\* pushGroup keeps the invariant: it adds the group's files once, within
\* the capacity, and wakes everybody who waits for items.
LEMMA PushGroupIInv ==
    ASSUME IInv, NEW g \in Group, PushGroup(g)
    PROVE  IInv'
<1> /\ TypeOK /\ ClosedLast /\ EachItemOnce /\ InflightExact
    /\ NoLostWakeup /\ DrainedIsFinal /\ DepthBound
  BY DEF IInv
<1> /\ group[g] = "push"
    /\ ~closed
    /\ inflight' = inflight /\ closed' = closed /\ held' = held
    /\ rootDone' = rootDone /\ retired' = retired /\ older' = older
    /\ finished' = finished /\ fallen' = fallen /\ told' = told
    /\ requeues' = requeues /\ losses' = losses /\ retires' = retires
  BY DEF PushGroup, ClosedLast, ctxVars, boundVars
<1>3. CASE /\ UNCHANGED <<items, under, pending, worker, pipeline>>
           /\ \/ group' = [group EXCEPT ![g] = "dropped"]
              \/ Full(g) /\ group' = [group EXCEPT ![g] = "asleep"]
  <2>1. /\ group' \in [Group -> GroupState]
        /\ \A h \in Group : group'[h] = "asleep" =>
              group[h] = "asleep" \/ (Full(h) /\ ~closed)
        /\ \A h \in Group : group'[h] = "pushed" <=> group[h] = "pushed"
    BY <1>3 DEF TypeOK, GroupState
  <2>2. Enqueued' = Enqueued
    BY <2>1 DEF Enqueued, PushedGroups
  <2>3. UNCHANGED <<queueVars, held, finished, fallen, worker, pipeline, told,
                    rootDone, retired, older, requeues, losses, retires>>
    BY <1>3 DEF queueVars
  <2> QED
    BY <2>1, <2>2, <2>3, MoveIInv, SMT DEF TypeOK
<1>4. CASE /\ ~Full(g)
           /\ items' = items \o LargestFirst(Need[g])
           /\ under' = [f \in File |-> IF f \in Range(Need[g]) THEN g ELSE under[f]]
           /\ pending' = [pending EXCEPT ![g] = @ + Len(Need[g])]
           /\ group' = [group EXCEPT ![g] = "pushed"]
           /\ worker' = WokenWorkers
           /\ pipeline' = WokenPipeline
  <2> DEFINE L == LargestFirst(Need[g])
  <2> /\ Need[g] \in Seq(File) /\ IsInjective(Need[g])
      /\ Len(Need[g]) \in Nat
      /\ items \in Seq(File) /\ Len(items) \in Nat
    <3>1. Need[g] \in Seq(File \ Secondary) /\ IsInjective(Need[g])
      BY NeedAssumption
    <3>2. Need[g] \in Seq(File)
      BY <3>1, SeqWider
    <3> QED
      BY <3>1, <3>2, LenFacts DEF TypeOK
  <2>2. /\ L \in Seq(File) /\ IsInjective(L)
        /\ Len(L) = Len(Need[g])
        /\ Range(L) = Range(Need[g])
    BY LargestFirstPermutes
  <2>3. Range(Need[g]) \cap Enqueued = {}
    BY GroupIsNew
  <2> HIDE DEF L
  <2>4. /\ items' \in Seq(File)
        /\ Len(items') = Len(items) + Len(Need[g])
        /\ Queued' = Queued \cup Range(Need[g])
        /\ IsInjective(items')
    <3>1. items' = items \o L
      BY <1>4 DEF L
    <3>2. IsInjective(items) /\ Queued \subseteq Enqueued
      BY DEF EachItemOnce
    <3>3. Range(items) \cap Range(L) = {}
      BY <2>2, <2>3, <3>2 DEF Queued
    <3>4. /\ items \o L \in Seq(File)
          /\ Len(items \o L) = Len(items) + Len(L)
          /\ Range(items \o L) = Range(items) \cup Range(L)
          /\ IsInjective(items \o L)
      BY <2>2, <3>2, <3>3, ConcatFacts, SMT
    <3> QED
      BY <2>2, <3>1, <3>4 DEF Queued
  <2>5. /\ worker' \in [Worker -> WorkerState]
        /\ \A w \in Worker : worker'[w] # "asleep"
        /\ \A w \in Worker : worker'[w] \in HoldState <=> worker[w] \in HoldState
    BY <1>4 DEF TypeOK, WokenWorkers, WorkerState, LiveState, HoldState
  <2>6. Holders' = Holders /\ HeldFiles' = HeldFiles
    BY <2>5 DEF Holders, HeldFiles
  <2>7. /\ pipeline' \in PipelineState
        /\ pipeline' # "asleep"
        /\ pipeline' = "decide" <=> pipeline = "decide"
    BY <1>4 DEF TypeOK, WokenPipeline, PipelineState
  <2>8. /\ group' \in [Group -> GroupState]
        /\ PushedGroups' = PushedGroups \cup {g}
        /\ \A h \in Group : group'[h] = "asleep" => group[h] = "asleep"
    BY <1>4 DEF TypeOK, GroupState, PushedGroups
  <2>9. Enqueued' = Enqueued \cup Range(Need[g])
    BY <2>8 DEF Enqueued
  <2>10. TypeOK'
    <3>1. /\ under' \in [File -> Group \cup {-1}]
          /\ \A f \in Enqueued' : under'[f] \in Group
      <4>1. Enqueued \subseteq File /\ Range(Need[g]) \subseteq File
        <5>1. \A f \in Queued : f \in File
          BY RangeTyped DEF Queued
        <5>2. HeldFiles \subseteq File
          BY DEF TypeOK, HeldFiles, Holders
        <5>3. Range(Need[g]) \subseteq File
          BY RangeTyped
        <5> QED
          BY <5>1, <5>2, <5>3 DEF EachItemOnce, TypeOK
      <4> QED
        BY <1>4, <2>9, <4>1 DEF TypeOK
    <3>2. pending' \in [Group -> Nat]
      BY <1>4, SMT DEF TypeOK
    <3> QED
      BY <2>4, <2>5, <2>6, <2>7, <2>8, <3>1, <3>2 DEF TypeOK
  <2>11. EachItemOnce'
    BY <2>3, <2>4, <2>6, <2>9 DEF EachItemOnce
  <2>12. InflightExact'
    BY <2>6 DEF InflightExact
  <2>13. NoLostWakeup'
    <3>1. \A h \in Group : group'[h] = "asleep" => Full(h)'
      <4>1. Len(items') >= Len(items)
        BY <2>4, SMT
      <4> QED
        BY <2>4, <2>8, <4>1, FullStays DEF NoLostWakeup
    <3> QED
      BY <2>5, <2>7, <3>1 DEF NoLostWakeup
  <2>14. ~told
    BY DEF DrainedIsFinal, Drained
  <2>15. DepthBound'
    <3>1. Len(items') <= Capacity
      <4>1. ~(Len(items) + Len(Need[g]) > Capacity)
        BY <1>4 DEF Full
      <4>2. Len(items') = Len(items) + Len(Need[g])
        BY <2>4
      <4>3. Len(items) \in Nat /\ Len(Need[g]) \in Nat /\ Capacity \in Nat
        BY QueueAssumption
      <4> QED
        BY <4>1, <4>2, <4>3, SMT
    <3>2. inflight' <= Cardinality(Worker) /\ inflight' \in Nat
      BY HoldersFinite DEF InflightExact
    <3>3. Cardinality(fallen') \in Nat
      BY QueueAssumption, FS_Subset, FS_CardinalityType DEF TypeOK
    <3>4. Len(items') \in Nat /\ Capacity \in Nat /\ Cardinality(Worker) \in Nat
      BY <2>4, HoldersFinite, QueueAssumption, SMT
    <3> QED
      BY <3>1, <3>2, <3>3, <3>4, SMT DEF DepthBound
  <2>16. ClosedLast' /\ DrainedIsFinal'
    BY <2>7, <2>14 DEF ClosedLast, DrainedIsFinal
  <2> QED
    BY <2>10, <2>11, <2>12, <2>13, <2>15, <2>16, SMT DEF IInv
<1> QED
  BY <1>3, <1>4 DEF PushGroup

\* close keeps the invariant, because nobody stays asleep over it.
LEMMA CloseIInv ==
    ASSUME IInv, Close
    PROVE  IInv'
<1> /\ TypeOK /\ ClosedLast /\ EachItemOnce /\ InflightExact
    /\ NoLostWakeup /\ DrainedIsFinal /\ DepthBound
  BY DEF IInv
<1> /\ pipeline = "decide" /\ pipeline' = "drain"
    /\ closed' = TRUE
    /\ \A g \in Group : group[g] \in {"pushed", "dropped"}
    /\ worker' = WokenWorkers /\ group' = WokenGroups
    /\ UNCHANGED <<items, inflight, pending, under, rootDone, retired, older,
                   held, finished, fallen, told, requeues, losses, retires>>
  BY DEF Close, ctxVars, boundVars
<1>3. /\ worker' \in [Worker -> WorkerState]
      /\ \A w \in Worker : worker'[w] # "asleep"
      /\ \A w \in Worker : worker'[w] \in HoldState <=> worker[w] \in HoldState
  BY DEF TypeOK, WokenWorkers, WorkerState, LiveState, HoldState
<1>4. /\ group' \in [Group -> GroupState]
      /\ \A g \in Group : group'[g] = group[g]
      /\ \A g \in Group : group'[g] # "asleep"
  BY DEF TypeOK, WokenGroups, GroupState
<1>5. /\ Holders' = Holders /\ HeldFiles' = HeldFiles
      /\ Queued' = Queued /\ Enqueued' = Enqueued
  <2>1. Holders' = Holders
    BY <1>3 DEF Holders
  <2>2. PushedGroups' = PushedGroups
    BY <1>4 DEF PushedGroups
  <2> QED
    BY <2>1, <2>2 DEF HeldFiles, Queued, Enqueued
<1>6. TypeOK'
  BY <1>3, <1>4, <1>5 DEF TypeOK, PipelineState
<1>7. EachItemOnce' /\ InflightExact' /\ DepthBound'
  BY <1>5 DEF EachItemOnce, InflightExact, DepthBound
<1>8. NoLostWakeup'
  BY <1>3, <1>4 DEF NoLostWakeup
<1>9. ~told
  BY DEF DrainedIsFinal, Drained, ClosedLast
<1>10. ClosedLast' /\ DrainedIsFinal'
  BY <1>4, <1>9 DEF ClosedLast, DrainedIsFinal
<1> QED
  BY <1>6, <1>7, <1>8, <1>10 DEF IInv

\* The steps that leave the queue alone: a decide worker moves on, a worker
\* publishes or fails, channels come and go, contexts end, sleepers wake.
LEMMA QuietIInv ==
    ASSUME IInv,
           \/ \E g \in Group : Decide(g)
           \/ \E w \in Worker : Publish(w) \/ Fatal(w) \/ ChannelStep(w)
           \/ WaitDrained \/ CancelRoot \/ WakeNotEmpty \/ WakeNotFull
    PROVE  IInv'
<1> TypeOK /\ ClosedLast
  BY DEF IInv
<1>2. ASSUME NEW g \in Group, Decide(g)
      PROVE  IInv'
  <2>1. /\ group[g] = "decide"
        /\ group' \in [Group -> GroupState]
        /\ \A h \in Group \ {g} : group'[h] = group[h]
        /\ group'[g] \in {"push", "pushed", "dropped"}
        /\ group'[g] = "pushed" => Need[g] = <<>>
    BY <1>2 DEF Decide, TypeOK, GroupState
  <2> UNCHANGED <<queueVars, held, finished, fallen, worker, pipeline, told,
                  rootDone, retired, older, requeues, losses, retires>>
    BY <1>2 DEF Decide, ctxVars, boundVars
  <2>3. Enqueued' = Enqueued
    <3>1. CASE Need[g] = <<>>
      <4>1. Range(Need[g]) = {}
        BY <3>1, SMT DEF Range
      <4>2. PushedGroups' \in {PushedGroups, PushedGroups \cup {g}}
        BY <2>1 DEF PushedGroups
      <4> QED
        BY <4>1, <4>2, SMT DEF Enqueued
    <3>2. CASE Need[g] # <<>>
      <4>1. PushedGroups' = PushedGroups
        BY <2>1, <3>2 DEF PushedGroups
      <4> QED
        BY <4>1 DEF Enqueued
    <3> QED
      BY <3>1, <3>2
  <2>4. ~closed
    BY <2>1 DEF ClosedLast
  <2> QED
    BY <2>1, <2>3, <2>4, MoveIInv DEF TypeOK
<1>3. ASSUME UNCHANGED <<queueVars, group, held, pipeline, finished, fallen, told>>,
             worker' \in [Worker -> WorkerState],
             \A w \in Worker : worker'[w] \in HoldState <=> worker[w] \in HoldState,
             \A w \in Worker : worker'[w] = "asleep" => worker[w] = "asleep",
             rootDone' \in BOOLEAN, retired' \in SUBSET Worker, retires' \in Nat,
             older' \in [Worker -> SUBSET Worker],
             UNCHANGED <<requeues, losses>>
      PROVE  IInv'
  <2>1. Enqueued' = Enqueued
    BY <1>3 DEF Enqueued, PushedGroups
  <2>2. closed => \A g \in Group : group'[g] \in {"pushed", "dropped"}
    BY <1>3 DEF ClosedLast
  <2> QED
    BY <1>3, <2>1, <2>2, MoveIInv DEF TypeOK
<1>4. ASSUME NEW w \in Worker, Publish(w)
      PROVE  IInv'
  BY <1>3, <1>4 DEF Publish, ctxVars, boundVars, TypeOK, WorkerState,
     LiveState, HoldState
<1>5. ASSUME NEW w \in Worker, Fatal(w)
      PROVE  IInv'
  BY <1>3, <1>5 DEF Fatal, boundVars, TypeOK, WorkerState, LiveState, HoldState
<1>6. ASSUME NEW w \in Worker, AddChannel(w)
      PROVE  IInv'
  BY <1>3, <1>6 DEF AddChannel, boundVars, TypeOK, WorkerState, LiveState,
     HoldState
<1>7. ASSUME NEW w \in Worker, RejoinEnds(w)
      PROVE  IInv'
  BY <1>3, <1>7 DEF RejoinEnds, ctxVars, boundVars, TypeOK, WorkerState,
     LiveState, HoldState
<1>8. ASSUME NEW w \in Worker, LastChannelRetired(w)
      PROVE  IInv'
  BY <1>3, <1>8 DEF LastChannelRetired, boundVars, TypeOK, WorkerState,
     LiveState, HoldState
<1>9. ASSUME NEW w \in Worker, Retire(w)
      PROVE  IInv'
  BY <1>3, <1>9, SMT DEF Retire, TypeOK
<1>10. ASSUME CancelRoot
       PROVE  IInv'
  BY <1>3, <1>10 DEF CancelRoot, boundVars, TypeOK
<1>11. ASSUME WaitDrained
       PROVE  IInv'
  <2>1. /\ pipeline' \in PipelineState
        /\ pipeline' # "decide" /\ pipeline # "decide"
        /\ pipeline' = "asleep" => ~Drained
    BY <1>11 DEF WaitDrained, PipelineState
  <2> UNCHANGED <<queueVars, group, held, finished, fallen, worker,
                  rootDone, retired, older, requeues, losses, retires>>
    BY <1>11 DEF WaitDrained, ctxVars, boundVars
  <2>3. told' \in BOOLEAN /\ (told' => told \/ Drained)
    BY <1>11 DEF WaitDrained
  <2>4. Enqueued' = Enqueued
    BY DEF Enqueued, PushedGroups
  <2>5. closed => \A g \in Group : group'[g] \in {"pushed", "dropped"}
    BY DEF ClosedLast
  <2> QED
    BY <2>1, <2>3, <2>4, <2>5, MoveIInv DEF TypeOK
<1>12. ASSUME WakeNotEmpty
       PROVE  IInv'
  <2>1. /\ worker' \in [Worker -> WorkerState]
        /\ \A w \in Worker : worker'[w] # "asleep"
        /\ \A w \in Worker : worker'[w] \in HoldState <=> worker[w] \in HoldState
    BY <1>12 DEF WakeNotEmpty, TypeOK, WokenWorkers, WorkerState, LiveState,
       HoldState
  <2>2. /\ pipeline' \in PipelineState
        /\ pipeline' # "asleep"
        /\ pipeline' = "decide" <=> pipeline = "decide"
    BY <1>12 DEF WakeNotEmpty, TypeOK, WokenPipeline, PipelineState
  <2> UNCHANGED <<queueVars, group, held, finished, fallen, told,
                  rootDone, retired, older, requeues, losses, retires>>
    BY <1>12 DEF WakeNotEmpty, ctxVars, boundVars
  <2>4. Enqueued' = Enqueued
    BY DEF Enqueued, PushedGroups
  <2>5. closed => \A g \in Group : group'[g] \in {"pushed", "dropped"}
    BY DEF ClosedLast
  <2> QED
    BY <2>1, <2>2, <2>4, <2>5, MoveIInv DEF TypeOK
<1>13. ASSUME WakeNotFull
       PROVE  IInv'
  <2> /\ group' \in [Group -> GroupState]
      /\ \A g \in Group : group'[g] # "asleep"
      /\ \A g \in Group : group'[g] = "pushed" <=> group[g] = "pushed"
      /\ \A g \in Group : group[g] # "asleep" => group'[g] = group[g]
    BY <1>13 DEF WakeNotFull, TypeOK, WokenGroups, GroupState
  <2>2. UNCHANGED <<queueVars, held, finished, fallen, worker, pipeline, told,
                    rootDone, retired, older, requeues, losses, retires>>
    BY <1>13 DEF WakeNotFull, ctxVars, boundVars
  <2>3. Enqueued' = Enqueued
    BY <2>2 DEF Enqueued, PushedGroups
  <2>4. closed => \A g \in Group : group'[g] \in {"pushed", "dropped"}
    BY DEF ClosedLast
  <2> QED
    BY <2>2, <2>3, <2>4, MoveIInv DEF TypeOK
<1> QED
  BY <1>2, <1>4, <1>5, <1>6, <1>7, <1>8, <1>9, <1>10, <1>11, <1>12, <1>13, SMT
     DEF ChannelStep

\* Every step of the queue and its users keeps the invariant.
LEMMA NextIInv == IInv /\ [Next]_vars => IInv'
<1> SUFFICES ASSUME IInv, [Next]_vars PROVE IInv'
  OBVIOUS
<1>1. ASSUME NEW g \in Group, GroupStep(g)
      PROVE  IInv'
  <2>1. CASE DeciderFallback(g)
    <3>1. ~closed
      BY <2>1 DEF DeciderFallback, IInv, ClosedLast
    <3> QED
      BY <2>1, <3>1, PushFallbackIInv DEF DeciderFallback
  <2> QED
    BY <1>1, <2>1, PushGroupIInv, QuietIInv DEF GroupStep
<1>2. ASSUME NEW w \in Worker, FetchEnds(w)
      PROVE  IInv'
  <2>1. CASE FetcherFallback(w)
    <3>1. w \in Holders
      BY <2>1 DEF FetcherFallback, Holders, HoldState
    <3>2. under[held[w]] \in Group
      BY <3>1, HeldFacts
    <3> QED
      BY <2>1, <3>1, <3>2, PushFallbackIInv DEF FetcherFallback
  <2> losses \in Nat
    BY DEF IInv, TypeOK
  <2>3. CASE Published(w) \/ FileFailed(w) \/ FatalDone(w)
    BY <2>3, DoneIInv DEF Published, FileFailed, FatalDone, HoldState
  <2>4. CASE Retry(w) \/ Cancelled(w)
    BY <2>4, RequeueIInv DEF Retry, Cancelled
  <2>5. CASE LoseChannel(w)
    <3>1. PICK next \in {"out", "rejoin"} : Requeue(w, next) \/ Done(w, "fetch", next)
      BY <2>5 DEF LoseChannel
    <3>2. losses' \in Nat
      <4>1. losses' = losses + 1
        BY <2>5 DEF LoseChannel
      <4> QED
        BY <4>1, SMT
    <3> QED
      BY <3>1, <3>2, RequeueIInv, DoneIInv DEF HoldState
  <2> QED
    BY <1>2, <2>1, <2>3, <2>4, <2>5, QuietIInv DEF FetchEnds
<1>3. CASE UNCHANGED vars
  <2>1. /\ TypeOK /\ ClosedLast /\ EachItemOnce /\ InflightExact
        /\ NoLostWakeup /\ DrainedIsFinal /\ DepthBound
    BY DEF IInv
  <2> UNCHANGED <<items, inflight, closed, pending, under, group, worker,
                  held, pipeline, rootDone, retired, older, finished, fallen, told,
                  requeues, losses, retires>>
    BY <1>3 DEF vars, queueVars, ctxVars, boundVars
  <2>3. /\ Holders' = Holders /\ HeldFiles' = HeldFiles /\ Queued' = Queued
        /\ Enqueued' = Enqueued /\ Drained' = Drained
        /\ \A g \in Group : Full(g)' = Full(g)
    BY DEF Holders, HeldFiles, Queued, Enqueued, PushedGroups, Drained, Full
  <2>4. TypeOK' /\ ClosedLast' /\ EachItemOnce'
    BY <2>1, <2>3 DEF TypeOK, ClosedLast, EachItemOnce
  <2>5. InflightExact' /\ NoLostWakeup' /\ DrainedIsFinal' /\ DepthBound'
    BY <2>1, <2>3 DEF InflightExact, NoLostWakeup, DrainedIsFinal, DepthBound
  <2> QED
    BY <2>4, <2>5 DEF IInv
<1> QED
  BY <1>1, <1>2, <1>3, PopIInv, CloseIInv, QuietIInv DEF Next, Terminated

-----------------------------------------------------------------------------
\* The queue's safety: types, exact in-flight accounting, no item dropped or
\* handed out twice, no lost wake-up, "nothing left" is final, and the real
\* bound on its depth.
THEOREM QueueSafe == Spec => []IInv
<1>1. Init => IInv
  BY InitIInv
<1>2. IInv /\ [Next]_vars => IInv'
  BY NextIInv
<1> QED
  BY <1>1, <1>2, PTL DEF Spec

\* Every variable always has its type.
THEOREM QueueTypes == Spec => []TypeOK
  BY QueueSafe, PTL DEF IInv

\* No item is dropped and none is yielded twice (queue.go:20).
THEOREM ItemsConserved == Spec => []EachItemOnce
  BY QueueSafe, PTL DEF IInv

\* Nobody sleeps on a condition that holds (queue.go's broadcasts suffice).
THEOREM WakeupsSuffice == Spec => []NoLostWakeup
  BY QueueSafe, PTL DEF IInv

\* pop and waitDrained report "nothing left" only when that is final.
THEOREM DrainReportFinal == Spec => []DrainedIsFinal
  BY QueueSafe, PTL DEF IInv

\* The queue never outgrows its capacity by more than the workers and the
\* fallbacks.
THEOREM DepthBounded == Spec => []DepthBound
  BY QueueSafe, PTL DEF IInv

\* The in-flight count that pop, done and requeue keep is the number of
\* workers that hold an item: the clamps at zero never act.
THEOREM InflightCounted == Spec => []InflightExact
  BY QueueSafe, PTL DEF IInv

\* close() comes after the decide pool: no group is pushed on a closed queue.
THEOREM ClosedBehindDeciders == Spec => []ClosedLast
  BY QueueSafe, PTL DEF IInv

-----------------------------------------------------------------------------
(***************************************************************************)
(* The queue implements the work pool: what each operation does to the     *)
(* three sets of files, and the step of the pool that is.                  *)
(***************************************************************************)

\* Files handed in are ready.
LEMMA PoolAdds ==
    ASSUME EachItemOnce, NEW F \in SUBSET File, F \cap Enqueued = {}, ~told,
           Queued' = Queued \cup F, HeldFiles' = HeldFiles, UNCHANGED <<finished, told>>
    PROVE  Pool!Next
<1>1. \A f \in F : f \notin finished /\ f \notin HeldFiles /\ f \notin Queued
  BY DEF EachItemOnce
<1>2. Pool!Add(F)
  BY <1>1 DEF Pool!Add
<1> QED
  BY <1>2 DEF Pool!Next

\* pop takes a ready file.
LEMMA PoolTakes ==
    ASSUME EachItemOnce, NEW f \in File, f \in Queued, Queued' = Queued \ {f},
           HeldFiles' = HeldFiles \cup {f}, UNCHANGED <<finished, told>>
    PROVE  Pool!Next
<1>1. f \notin finished /\ f \notin HeldFiles
  BY DEF EachItemOnce
<1>2. Pool!Take(f)
  BY <1>1 DEF Pool!Take
<1> QED
  BY <1>2 DEF Pool!Next

\* requeue gives the file back.
LEMMA PoolGivesBack ==
    ASSUME EachItemOnce, NEW f \in File, f \in HeldFiles, Queued' = Queued \cup {f},
           HeldFiles' = HeldFiles \ {f}, UNCHANGED <<finished, told>>
    PROVE  Pool!Next
<1>1. f \notin finished /\ f \notin Queued
  BY DEF EachItemOnce
<1>2. Pool!GiveBack(f)
  BY <1>1 DEF Pool!GiveBack
<1> QED
  BY <1>2 DEF Pool!Next

\* done finishes the file.
LEMMA PoolFinishes ==
    ASSUME EachItemOnce, NEW f \in File, f \in HeldFiles, Queued' = Queued,
           HeldFiles' = HeldFiles \ {f}, finished' = finished \cup {f}, UNCHANGED told
    PROVE  Pool!Next
<1>1. f \notin finished
  BY DEF EachItemOnce
<1>2. Pool!Finish(f)
  BY <1>1 DEF Pool!Finish
<1> QED
  BY <1>2 DEF Pool!Next

\* Nothing happens to the files: the pool stutters, or somebody is told that
\* nothing is left of a queue that is drained.
LEMMA PoolRests ==
    ASSUME IInv, UNCHANGED <<items, held, finished>>,
           \A w \in Worker : worker'[w] \in HoldState <=> worker[w] \in HoldState,
           UNCHANGED told \/ (told' = TRUE /\ Drained)
    PROVE  [Pool!Next]_(Pool!vars)
<1>1. Queued' = Queued /\ HeldFiles' = HeldFiles
  BY DEF Queued, HeldFiles, Holders
<1>2. CASE UNCHANGED told
  BY <1>1, <1>2 DEF Pool!vars
<1>3. CASE told' = TRUE /\ Drained
  <2>1. Queued = {} /\ HeldFiles = {}
    <3>1. finished = Enqueued
      BY <1>3, DrainedMeansFinished
    <3> QED
      BY <3>1 DEF IInv, EachItemOnce
  <2>2. Pool!ReportDrained
    BY <1>1, <1>3, <2>1 DEF Pool!ReportDrained
  <2> QED
    BY <2>2 DEF Pool!Next
<1> QED
  BY <1>2, <1>3

\* pop.
LEMMA PopPool ==
    ASSUME IInv, NEW w \in Worker, Pop(w)
    PROVE  [Pool!Next]_(Pool!vars)
<1> TypeOK /\ EachItemOnce /\ UNCHANGED finished /\ worker[w] = "pop"
  BY DEF IInv, Pop
<1>2. CASE /\ UNCHANGED <<items, held>>
           /\ worker' \in {[worker EXCEPT ![w] = "out"], [worker EXCEPT ![w] = "asleep"]}
           /\ UNCHANGED told \/ (told' = TRUE /\ Drained)
  <2>1. \A v \in Worker : worker'[v] \in HoldState <=> worker[v] \in HoldState
    BY <1>2 DEF TypeOK, HoldState
  <2> QED
    BY <1>2, <2>1, PoolRests
<1>3. CASE /\ items # <<>> /\ items' = Tail(items)
           /\ held' = [held EXCEPT ![w] = Head(items)]
           /\ worker' = [worker EXCEPT ![w] = "fetch"]
           /\ UNCHANGED told
  <2>1. items \in Seq(File) /\ IsInjective(items)
    BY DEF TypeOK, EachItemOnce
  <2>2. Head(items) \in Queued /\ Queued' = Queued \ {Head(items)} /\ Head(items) \in File
    BY <1>3, <2>1, HeadTailFacts, FirstAndRest DEF Queued
  <2>3. w \notin Holders /\ Holders' = Holders \cup {w}
    BY <1>3 DEF TypeOK, Holders, HoldState
  <2>4. HeldFiles' = HeldFiles \cup {Head(items)}
    <3>1. \A v \in Holders : held'[v] = held[v]
      BY <1>3, <2>3 DEF TypeOK, Holders
    <3>2. held'[w] = Head(items)
      BY <1>3 DEF TypeOK
    <3> QED
      BY <2>3, <3>1, <3>2 DEF HeldFiles
  <2>5. PICK f \in File : f = Head(items)
    BY <2>2
  <2> QED
    BY <1>3, <2>2, <2>4, <2>5, PoolTakes, SMT
<1> QED
  BY <1>2, <1>3 DEF Pop

\* pushGroup.
LEMMA PushGroupPool ==
    ASSUME IInv, NEW g \in Group, PushGroup(g)
    PROVE  [Pool!Next]_(Pool!vars)
<1> /\ TypeOK /\ EachItemOnce
    /\ UNCHANGED <<held, finished, told>> /\ group[g] = "push"
  BY DEF IInv, PushGroup
<1>2. CASE UNCHANGED <<items, worker>>
  BY <1>2, PoolRests
<1>3. CASE ~closed /\ items' = items \o LargestFirst(Need[g]) /\ worker' = WokenWorkers
  <2> DEFINE L == LargestFirst(Need[g])
  <2> Need[g] \in Seq(File) /\ items \in Seq(File)
    <3>1. Need[g] \in Seq(File \ Secondary)
      BY NeedAssumption
    <3> QED
      BY <3>1, SeqWider DEF TypeOK
  <2>2. L \in Seq(File) /\ Range(L) = Range(Need[g])
    BY LargestFirstPermutes
  <2> HIDE DEF L
  <2>3. Queued' = Queued \cup Range(Need[g])
    <3>1. items' = items \o L
      BY <1>3 DEF L
    <3>2. Range(items \o L) = Range(items) \cup Range(L)
      BY <2>2, ConcatFacts, SMT
    <3> QED
      BY <2>2, <3>1, <3>2 DEF Queued
  <2>4. HeldFiles' = HeldFiles
    <3>1. \A w \in Worker : worker'[w] \in HoldState <=> worker[w] \in HoldState
      BY <1>3 DEF TypeOK, WokenWorkers, WorkerState, LiveState, HoldState
    <3>2. Holders' = Holders
      BY <3>1 DEF Holders
    <3> QED
      BY <3>2 DEF HeldFiles
  <2>5. Range(Need[g]) \cap Enqueued = {} /\ Range(Need[g]) \in SUBSET File
    BY GroupIsNew, RangeTyped
  <2>6. ~told
    BY <1>3 DEF IInv, DrainedIsFinal, Drained
  <2> QED
    BY <2>3, <2>4, <2>5, <2>6, PoolAdds
<1> QED
  BY <1>2, <1>3 DEF PushGroup

\* pushFallback, from a decide worker or from the fetch of the primary.
LEMMA FallbackPool ==
    ASSUME IInv, NEW g \in Group, NEW f \in Secondary, PushFallback(f, g),
           Holders # {} \/ ~closed
    PROVE  [Pool!Next]_(Pool!vars)
<1>1. /\ f \in File /\ f \notin Enqueued /\ ~told
      /\ Queued' = Queued \cup {f} /\ HeldFiles' = HeldFiles
      /\ UNCHANGED <<finished, told>>
  BY PushFallbackIInv
<1>2. {f} \in SUBSET File /\ {f} \cap Enqueued = {}
  BY <1>1
<1> QED
  BY <1>1, <1>2, PoolAdds DEF IInv

\* Every step of the queue and its users is a step of the pool or a stutter.
LEMMA NextPool == IInv /\ [Next]_vars => [Pool!Next]_(Pool!vars)
<1> SUFFICES ASSUME IInv, [Next]_vars PROVE [Pool!Next]_(Pool!vars)
  OBVIOUS
<1>0. TypeOK /\ EachItemOnce
  BY DEF IInv
<1>1. ASSUME UNCHANGED <<items, held, finished, told>>,
             \A w \in Worker : worker'[w] \in HoldState <=> worker[w] \in HoldState
      PROVE  [Pool!Next]_(Pool!vars)
  BY <1>1, PoolRests
<1>2. ASSUME NEW g \in Group, GroupStep(g)
      PROVE  [Pool!Next]_(Pool!vars)
  <2>1. CASE DeciderFallback(g)
    <3>1. ~closed
      BY <2>1 DEF DeciderFallback, IInv, ClosedLast
    <3> QED
      BY <2>1, <3>1, FallbackPool DEF DeciderFallback
  <2>2. CASE PushGroup(g)
    BY <2>2, PushGroupPool
  <2>3. CASE Decide(g)
    BY <1>1, <2>3 DEF Decide, queueVars
  <2> QED
    BY <1>2, <2>1, <2>2, <2>3 DEF GroupStep
<1>3. ASSUME NEW w \in Worker, NEW from \in HoldState,
             NEW next \in {"pop", "rejoin", "out"}, Done(w, from, next), losses' \in Nat
      PROVE  [Pool!Next]_(Pool!vars)
  <2>1. PICK f \in File : f = held[w]
    BY <1>3, DoneIInv
  <2> QED
    BY <1>0, <1>3, <2>1, DoneIInv, PoolFinishes
<1>4. ASSUME NEW w \in Worker, NEW next \in {"pop", "rejoin", "out"},
             Requeue(w, next), losses' \in Nat
      PROVE  [Pool!Next]_(Pool!vars)
  <2>1. PICK f \in File : f = held[w]
    BY <1>4, RequeueIInv
  <2> QED
    BY <1>0, <1>4, <2>1, RequeueIInv, PoolGivesBack
<1>5. ASSUME NEW w \in Worker, FetchEnds(w)
      PROVE  [Pool!Next]_(Pool!vars)
  <2>1. CASE FetcherFallback(w)
    <3>1. w \in Holders
      BY <2>1 DEF FetcherFallback, Holders, HoldState
    <3>2. PICK g \in Group : g = under[held[w]]
      BY <3>1, HeldFacts
    <3> QED
      BY <2>1, <3>1, <3>2, FallbackPool DEF FetcherFallback
  <2> losses \in Nat
    BY <1>0 DEF TypeOK
  <2>3. CASE Published(w) \/ FileFailed(w) \/ FatalDone(w)
    BY <1>3, <2>3 DEF Published, FileFailed, FatalDone, HoldState
  <2>4. CASE Retry(w) \/ Cancelled(w)
    BY <1>4, <2>4 DEF Retry, Cancelled
  <2>5. CASE LoseChannel(w)
    <3>1. PICK next \in {"out", "rejoin"} : Requeue(w, next) \/ Done(w, "fetch", next)
      BY <2>5 DEF LoseChannel
    <3>2. losses' \in Nat
      <4>1. losses' = losses + 1
        BY <2>5 DEF LoseChannel
      <4> QED
        BY <4>1, SMT
    <3>3. "fetch" \in HoldState /\ next \in {"pop", "rejoin", "out"}
      BY DEF HoldState
    <3> QED
      BY <1>3, <1>4, <3>1, <3>2, <3>3
  <2>6. CASE Publish(w) \/ Fatal(w)
    <3>1. UNCHANGED <<items, held, finished, told>>
      BY <2>6 DEF Publish, Fatal, queueVars
    <3>2. \A v \in Worker : worker'[v] \in HoldState <=> worker[v] \in HoldState
      BY <1>0, <2>6 DEF Publish, Fatal, TypeOK, HoldState
    <3> QED
      BY <1>1, <3>1, <3>2
  <2> QED
    BY <1>5, <2>1, <2>3, <2>4, <2>5, <2>6 DEF FetchEnds
<1>6. ASSUME NEW w \in Worker, ChannelStep(w)
      PROVE  [Pool!Next]_(Pool!vars)
  <2>1. UNCHANGED <<items, held, finished, told>>
    BY <1>6 DEF ChannelStep, AddChannel, RejoinEnds, LastChannelRetired,
       Retire, queueVars
  <2>2. \A v \in Worker : worker'[v] \in HoldState <=> worker[v] \in HoldState
    BY <1>0, <1>6, SMT DEF ChannelStep, AddChannel, RejoinEnds,
       LastChannelRetired, Retire, TypeOK, HoldState
  <2> QED
    BY <1>1, <2>1, <2>2
<1>7. CASE Close \/ WakeNotEmpty
  <2>1. UNCHANGED <<items, held, finished, told>> /\ worker' = WokenWorkers
    BY <1>7 DEF Close, WakeNotEmpty, queueVars
  <2>2. \A v \in Worker : worker'[v] \in HoldState <=> worker[v] \in HoldState
    BY <1>0, <2>1 DEF TypeOK, WokenWorkers, WorkerState, LiveState, HoldState
  <2> QED
    BY <1>1, <2>1, <2>2
<1>8. CASE CancelRoot \/ WakeNotFull \/ UNCHANGED vars
  BY <1>1, <1>8 DEF CancelRoot, WakeNotFull, vars, queueVars
<1>9. CASE WaitDrained
  <2>1. UNCHANGED <<items, held, finished, worker>>
    BY <1>9 DEF WaitDrained, queueVars
  <2>2. UNCHANGED told \/ (told' = TRUE /\ Drained)
    <3>1. told \in BOOLEAN /\ told' = (told \/ (~rootDone /\ Drained))
      BY <1>0, <1>9 DEF TypeOK, WaitDrained
    <3> QED
      BY <3>1
  <2> QED
    BY <2>1, <2>2, PoolRests
<1> QED
  BY <1>2, <1>5, <1>6, <1>7, <1>8, <1>9, PopPool DEF Next, Terminated

-----------------------------------------------------------------------------
(***************************************************************************)
(* Channels.  It takes a lost channel and a retired one to leave the queue *)
(* without a worker.  Without a loss the oldest channel is never retired:  *)
(* retireOne takes the newest, and a channel that is added is newer than   *)
(* all others.  Without a retirement a worker goes only through rejoinLoop,*)
(* whose last one fails the session.                                       *)
(***************************************************************************)

\* Of two channels one is older.
Aged == \A v, w \in Worker : v # w => (v \in older[w] <=> w \notin older[v])

\* The oldest of the channels that are up, not retired.
Senior(a) == a \in Live \ retired /\ \A v \in Live \ {a} : a \in older[v]

Manned ==
    /\ Aged
    /\ \A w \in Worker : worker[w] = "fatal" => rootDone
    /\ retires = 0 => retired = {}
    /\ ~rootDone /\ ~Drained =>
         /\ retires = 0 => \E w \in Worker : worker[w] # "out"
         /\ losses = 0 => /\ \A w \in Worker : worker[w] \notin {"rejoin", "last"}
                          /\ \E a \in Worker : Senior(a)

\* A drained queue stays drained: nobody is left who could hand anything in.
LEMMA DrainedStable == IInv /\ Drained /\ [Next]_vars => Drained'
<1> SUFFICES ASSUME IInv, Drained, [Next]_vars PROVE Drained'
  OBVIOUS
<1>1. /\ closed /\ items = <<>> /\ inflight = 0 /\ TypeOK
      /\ \A g \in Group : group[g] \in {"pushed", "dropped"}
  BY DEF Drained, IInv, ClosedLast
<1>2. \A w \in Worker : worker[w] \notin HoldState
  <2>1. Holders = {}
    BY <1>1, HoldersFinite, FS_EmptySet DEF IInv, InflightExact
  <2> QED
    BY <2>1 DEF Holders
<1>3. ASSUME NEW g \in Group, GroupStep(g) PROVE FALSE
  BY <1>1, <1>3 DEF GroupStep, Decide, PushGroup, DeciderFallback
<1>4. ASSUME NEW w \in Worker, FetchEnds(w) PROVE FALSE
  <2>1. worker[w] \notin {"fetch", "publish", "fatal"}
    BY <1>2 DEF HoldState
  <2> QED
    BY <1>4, <2>1 DEF FetchEnds, Publish, FetcherFallback, Published,
       FileFailed, Retry, LoseChannel, Cancelled, Fatal, FatalDone, Done,
       Requeue
<1>5. ASSUME NEW w \in Worker, Pop(w) PROVE UNCHANGED <<items, inflight, closed>>
  BY <1>1, <1>5 DEF Pop
<1>6. ASSUME NEW w \in Worker, ChannelStep(w) PROVE UNCHANGED <<items, inflight, closed>>
  BY <1>6 DEF ChannelStep, AddChannel, RejoinEnds, LastChannelRetired, Retire, queueVars
<1>7. CASE Close
  BY <1>1, <1>7 DEF Close, Drained
<1>8. CASE WaitDrained \/ CancelRoot \/ WakeNotEmpty \/ WakeNotFull \/ UNCHANGED vars
  BY <1>1, <1>8 DEF WaitDrained, CancelRoot, WakeNotEmpty, WakeNotFull, vars,
     queueVars, Drained
<1>9. CASE UNCHANGED <<items, inflight, closed>>
  BY <1>9 DEF Drained
<1> QED
  BY <1>3, <1>4, <1>5, <1>6, <1>7, <1>8, <1>9 DEF Next, Terminated

\* The first channels were dialled one after the other: one of them is the
\* oldest.  Channels have different numbers of older ones, and there are as
\* many numbers as channels, so one has none.
LEMMA FirstDialled ==
    ASSUME NEW b \in [Worker -> SUBSET Worker], DialOrder(b)
    PROVE  \E a \in Worker : \A v \in Worker \ {a} : a \in b[v]
<1> DEFINE n == Cardinality(Worker)
           R == [w \in Worker |-> Cardinality(b[w])]
<1> IsFiniteSet(Worker) /\ n \in Nat /\ n # 0
  BY QueueAssumption, FS_CardinalityType, FS_EmptySet
<1>2. IsFiniteSet(0 .. n - 1) /\ Cardinality(0 .. n - 1) = n
  BY FS_Interval, SMTT(20)
<1>3. ASSUME NEW w \in Worker
      PROVE  IsFiniteSet(b[w]) /\ R[w] = Cardinality(b[w]) /\ R[w] \in 0 .. n - 1
  <2>1. b[w] \subseteq Worker \ {w}
    BY DEF DialOrder
  <2>2. IsFiniteSet(Worker \ {w}) /\ Cardinality(Worker \ {w}) = n - 1
    BY FS_RemoveElement
  <2>3. IsFiniteSet(b[w]) /\ Cardinality(b[w]) <= n - 1
    BY <2>1, <2>2, FS_Subset, SMT
  <2>4. Cardinality(b[w]) \in Nat
    BY <2>3, FS_CardinalityType
  <2> QED
    BY <2>3, <2>4, SMT
<1>4. ASSUME NEW v \in Worker, NEW w \in Worker, v \in b[w]
      PROVE  R[v] # R[w]
  <2>1. b[v] \subseteq b[w] /\ v \in b[w] /\ v \notin b[v]
    BY <1>4 DEF DialOrder
  <2>2. Cardinality(b[v]) # Cardinality(b[w])
    BY <1>3, <2>1, FS_Subset
  <2> HIDE DEF R
  <2> QED
    BY <1>3, <2>2
<1>5. \A v, w \in Worker : R[v] = R[w] => v = w
  BY <1>4 DEF DialOrder
<1>6. R \in [Worker -> 0 .. n - 1]
  <2>1. \A w \in Worker : Cardinality(b[w]) \in 0 .. n - 1
    BY <1>3
  <2> QED
    BY <2>1
<1> HIDE DEF R, n
<1>7. R \in Injection(Worker, 0 .. n - 1)
  BY <1>5, <1>6 DEF Injection, IsInjective
<1>8. R \in Surjection(Worker, 0 .. n - 1)
  <2>1. Cardinality(0 .. n - 1) = Cardinality(Worker)
    BY <1>2 DEF n
  <2> QED
    BY <1>2, <1>7, <2>1, FS_Injection, SMT
<1>9. PICK a \in Worker : R[a] = 0
  <2> DEFINE I == 0 .. n - 1
  <2>1. 0 \in I /\ R \in Surjection(Worker, I)
    BY <1>8, SMT
  <2> HIDE DEF I
  <2>2. \A k \in I : \E w \in Worker : R[w] = k
    BY <2>1 DEF Surjection
  <2> QED
    BY <2>1, <2>2
<1>10. b[a] = {}
  BY <1>3, <1>9, FS_EmptySet
<1> QED
  BY <1>10 DEF DialOrder

\* A step on which no worker leaves keeps what there is.
LEMMA QuietManned ==
    ASSUME IInv, Manned, [Next]_vars,
           UNCHANGED <<retired, older, losses, retires>>, rootDone => rootDone',
           \A w \in Worker : worker'[w] = worker[w] \/ {worker[w], worker'[w]} \subseteq LiveState,
           \A w \in Worker : worker'[w] = "fatal" => worker[w] = "fatal" \/ rootDone'
    PROVE  Manned'
<1>1. /\ Live' = Live
      /\ \A w \in Worker : worker'[w] = "out" => worker[w] = "out"
      /\ \A w \in Worker : worker'[w] \in {"rejoin", "last"} => worker'[w] = worker[w]
  BY DEF Live, LiveState, HoldState
<1>2. ~Drained' => ~Drained
  BY DrainedStable
<1>3. Aged' /\ \A a \in Worker : Senior(a) => Senior(a)'
  BY <1>1 DEF Manned, Aged, Senior
<1>4. (\A w \in Worker : worker[w] = "fatal" => rootDone)'
  BY DEF Manned
<1>5. ASSUME ~rootDone', ~Drained'
      PROVE  /\ retires' = 0 => \E w \in Worker : worker'[w] # "out"
             /\ losses' = 0 => /\ \A w \in Worker : worker'[w] \notin {"rejoin", "last"}
                               /\ \E a \in Worker : Senior(a)'
  BY <1>1, <1>2, <1>3, <1>5 DEF Manned
<1> QED
  BY <1>3, <1>4, <1>5 DEF Manned

\* A worker that leaves because its context is done is a retired one, so the
\* oldest stays; in a session without retirements nobody leaves this way.
LEMMA LeaveManned ==
    ASSUME IInv, Manned, [Next]_vars, NEW w \in Worker, CtxDone(w), w \in Live,
           UNCHANGED <<rootDone, retired, older, losses, retires>>,
           worker'[w] = "out",
           \A v \in Worker \ {w} :
              worker'[v] = worker[v] \/ (worker[v] = "asleep" /\ worker'[v] = "pop")
    PROVE  Manned'
<1>1. CASE rootDone
  <2>1. rootDone' /\ Aged' /\ (retires' = 0 => retired' = {})
    BY <1>1 DEF Manned, Aged
  <2> QED
    BY <2>1 DEF Manned
<1>2. CASE ~rootDone
  <2>1. w \in retired /\ retires # 0
    BY <1>2 DEF CtxDone, Manned
  <2>2. ~Drained' => ~Drained
    BY DrainedStable
  <2>3. Live' = Live \ {w}
    BY DEF Live, LiveState, HoldState
  <2>4. Aged' /\ \A a \in Worker : Senior(a) => Senior(a)'
    BY <2>1, <2>3 DEF Manned, Aged, Senior
  <2>5. \A v \in Worker : /\ worker'[v] = "fatal" => worker[v] = "fatal"
                          /\ worker'[v] \in {"rejoin", "last"} => worker'[v] = worker[v]
    OBVIOUS
  <2> QED
    BY <1>2, <2>1, <2>2, <2>4, <2>5 DEF Manned
<1> QED
  BY <1>1, <1>2

\* Nothing is asked of a session that is over or of a drained queue.
LEMMA OverManned ==
    ASSUME IInv, Manned, [Next]_vars, rootDone' \/ Drained,
           UNCHANGED <<retired, older, retires>>,
           \A w \in Worker : worker'[w] = "fatal" => worker[w] = "fatal" \/ rootDone',
           rootDone => rootDone'
    PROVE  Manned'
<1>1. rootDone' \/ Drained'
  BY DrainedStable
<1>2. Aged' /\ (retires' = 0 => retired' = {})
  BY DEF Manned, Aged
<1>3. (\A w \in Worker : worker[w] = "fatal" => rootDone)'
  BY DEF Manned
<1> QED
  BY <1>1, <1>2, <1>3 DEF Manned

\* A lost channel's worker goes on to rejoinLoop.
LEMMA LoseManned ==
    ASSUME IInv, Manned, [Next]_vars, NEW w \in Worker, LoseChannel(w)
    PROVE  Manned'
<1>1. worker \in [Worker -> WorkerState] /\ losses \in Nat /\ losses' = losses + 1
  BY DEF IInv, TypeOK, LoseChannel
<1>2. losses' # 0
  BY ONLY <1>1, SMT
<1> /\ UNCHANGED <<rootDone, retired, older, retires>>
    /\ worker'[w] = IF rootDone THEN "out" ELSE "rejoin"
    /\ \A v \in Worker \ {w} : worker'[v] \in {worker[v], "pop"}
  BY <1>1 DEF LoseChannel, Requeue, Done, ctxVars, WokenWorkers
<1>4. CASE rootDone
  BY <1>4, OverManned
<1>5. CASE ~rootDone
  <2>1. worker'[w] # "out" /\ worker'[w] # "fatal"
    BY <1>5
  <2>2. Aged' /\ (retires' = 0 => retired' = {})
    BY DEF Manned, Aged
  <2>3. (\A v \in Worker : worker[v] = "fatal" => rootDone)'
    BY <2>1 DEF Manned
  <2> QED
    BY <1>2, <2>1, <2>2, <2>3 DEF Manned
<1> QED
  BY <1>4, <1>5

\* An added channel is the newest; a rejoinLoop that ends leaves another
\* channel, or looks for work as the last; retireOne takes the newest.
LEMMA ChannelManned ==
    ASSUME IInv, Manned, [Next]_vars, NEW w \in Worker, ChannelStep(w)
    PROVE  Manned'
<1>1. /\ worker \in [Worker -> WorkerState] /\ older \in [Worker -> SUBSET Worker]
      /\ retires \in Nat
  BY DEF IInv, TypeOK
<1>2. ~Drained' => ~Drained
  BY DrainedStable
<1>3. CASE AddChannel(w)
  <2> /\ w \notin Live /\ UNCHANGED <<rootDone, losses, retires>> /\ retired' = retired \ {w}
      /\ older' = [v \in Worker |-> IF v = w THEN Worker \ {w} ELSE older[v] \ {w}]
      /\ worker' = [worker EXCEPT ![w] = "pop"]
    BY <1>3 DEF AddChannel, boundVars, Live, LiveState, HoldState
  <2>2. Live' = Live \cup {w}
    BY <1>1 DEF Live, LiveState
  <2>3. Aged'
    <3>1. \A u, v \in Worker \ {w} : u \in older'[v] <=> u \in older[v]
      BY <1>1
    <3>2. \A v \in Worker \ {w} : v \in older'[w] /\ w \notin older'[v]
      BY <1>1
    <3>3. \A u, v \in Worker : u # v => (u \in older'[v] <=> v \notin older'[u])
      <4> SUFFICES ASSUME NEW u \in Worker, NEW v \in Worker, u # v
                   PROVE  u \in older'[v] <=> v \notin older'[u]
        OBVIOUS
      <4>1. CASE u = w \/ v = w
        BY <3>2, <4>1
      <4>2. CASE u # w /\ v # w
        BY <3>1, <4>2 DEF Manned, Aged
      <4> QED
        BY <4>1, <4>2
    <3> QED
      BY <3>3 DEF Aged
  <2>4. ASSUME NEW a \in Worker, Senior(a) PROVE Senior(a)'
    <3>1. a # w /\ a \in Live \ retired /\ \A v \in Live \ {a} : a \in older[v]
      BY <2>4 DEF Senior
    <3>2. a \in older'[w] /\ \A v \in Worker \ {w} : older'[v] = older[v] \ {w}
      BY <1>1, <3>1
    <3>3. Live \subseteq Worker
      BY DEF Live
    <3> QED
      BY <2>2, <3>1, <3>2, <3>3 DEF Senior
  <2>5. /\ worker'[w] = "pop"
        /\ \A v \in Worker \ {w} : worker'[v] = worker[v]
    BY <1>1
  <2> QED
    BY <1>2, <2>3, <2>4, <2>5 DEF Manned
<1>4. CASE RejoinEnds(w)
  <2> /\ UNCHANGED <<rootDone, losses, retires, retired, older>> /\ worker[w] = "rejoin"
      /\ worker' = [worker EXCEPT ![w] = IF ~rootDone /\ Live = {} THEN "last" ELSE "out"]
    BY <1>4 DEF RejoinEnds, boundVars, ctxVars
  <2> /\ worker'[w] = IF ~rootDone /\ Live = {} THEN "last" ELSE "out"
      /\ \A v \in Worker \ {w} : worker'[v] = worker[v]
    BY <1>1
  <2>3. CASE rootDone
    BY <2>3, OverManned
  <2>4. CASE Live = {} /\ ~rootDone
    <3>1. worker'[w] = "last" /\ Aged'
      BY <2>4 DEF Manned, Aged
    <3> QED
      BY <1>2, <2>4, <3>1 DEF Manned
  <2>5. CASE Live # {} /\ ~rootDone
    <3>1. PICK v \in Worker \ {w} : worker[v] # "out"
      BY <2>5 DEF Live, LiveState, HoldState
    <3>2. worker'[v] # "out" /\ worker'[w] = "out" /\ Aged'
      BY <2>5, <3>1 DEF Manned, Aged
    <3> QED
      BY <1>2, <2>5, <3>2 DEF Manned
  <2> QED
    BY <2>3, <2>4, <2>5
<1>5. CASE LastChannelRetired(w)
  <2> /\ UNCHANGED <<retires, retired, older>> /\ worker' = [worker EXCEPT ![w] = "out"]
      /\ rootDone' = (rootDone \/ ~Drained)
    BY <1>5 DEF LastChannelRetired, boundVars
  <2>2. \A v \in Worker : worker'[v] = "fatal" => worker[v] = "fatal"
    BY <1>1
  <2>3. (rootDone' \/ Drained) /\ (rootDone => rootDone')
    OBVIOUS
  <2> QED
    BY <2>2, <2>3, OverManned
<1>6. CASE Retire(w)
  <2> /\ UNCHANGED <<worker, rootDone, losses, older>> /\ retired' = retired \cup {w}
      /\ w \in Live /\ Live # {w} /\ Live \ {w} \subseteq older[w]
      /\ retires' = retires + 1
    BY <1>6 DEF Retire
  <2>2. Live' = Live /\ Aged' /\ retires' # 0
    <3>1. Live' = Live /\ Aged'
      BY DEF Live, Manned, Aged
    <3>2. retires' # 0
      BY <1>1, SMT
    <3> QED
      BY <3>1, <3>2
  <2>3. ASSUME NEW a \in Worker, Senior(a) PROVE Senior(a)'
    <3>1. a # w
      <4> SUFFICES ASSUME a = w PROVE FALSE
        OBVIOUS
      <4>1. PICK v \in Live : v # w
        OBVIOUS
      <4>2. v \in Worker /\ v \in older[w] /\ w \in older[v]
        BY <2>3, <4>1, SMT DEF Senior, Live
      <4> QED
        BY <4>1, <4>2 DEF Manned, Aged
    <3> QED
      BY <2>2, <2>3, <3>1 DEF Senior
  <2> QED
    BY <1>2, <2>2, <2>3 DEF Manned
<1> QED
  BY <1>3, <1>4, <1>5, <1>6 DEF ChannelStep

\* A step of the queue or of a fetch worker.
LEMMA NextManned == IInv /\ Manned /\ [Next]_vars => Manned'
<1> SUFFICES ASSUME IInv, Manned, [Next]_vars PROVE Manned'
  OBVIOUS
<1>1. worker \in [Worker -> WorkerState]
  BY DEF IInv, TypeOK
<1>2. /\ WokenWorkers \in [Worker -> WorkerState]
      /\ \A v \in Worker : \/ WokenWorkers[v] = worker[v]
                           \/ worker[v] = "asleep" /\ WokenWorkers[v] = "pop"
  BY <1>1 DEF WokenWorkers, WorkerState, LiveState
<1> DEFINE Quiet == /\ UNCHANGED <<retired, older, losses, retires>>
                    /\ rootDone => rootDone'
<1>3. ASSUME Quiet, worker' = worker \/ worker' = WokenWorkers PROVE Manned'
  BY <1>2, <1>3, QuietManned DEF LiveState
<1>4. ASSUME NEW w \in Worker, NEW to \in LiveState, worker[w] \in LiveState, Quiet,
             worker' = [worker EXCEPT ![w] = to] \/ worker' = [WokenWorkers EXCEPT ![w] = to],
             to = "fatal" => rootDone'
      PROVE  Manned'
  <2>1. worker'[w] = to
    BY <1>1, <1>2, <1>4, SMT
  <2>2. \A v \in Worker \ {w} : \/ worker'[v] = worker[v]
                                \/ worker[v] = "asleep" /\ worker'[v] = "pop"
    BY <1>1, <1>2, <1>4, SMT
  <2>3. \A v \in Worker : worker'[v] = worker[v] \/ {worker[v], worker'[v]} \subseteq LiveState
    BY <1>4, <2>1, <2>2 DEF LiveState
  <2>4. \A v \in Worker : worker'[v] = "fatal" => worker[v] = "fatal" \/ rootDone'
    BY <1>4, <2>1, <2>2
  <2> QED
    BY <1>4, <2>3, <2>4, QuietManned
<1>5. ASSUME NEW w \in Worker, worker[w] \in LiveState, CtxDone(w), Quiet, UNCHANGED rootDone,
             \/ worker' = [worker EXCEPT ![w] = "out"]
             \/ worker' = [WokenWorkers EXCEPT ![w] = "out"]
      PROVE  Manned'
  <2>1. worker'[w] = "out" /\ w \in Live
    BY <1>1, <1>2, <1>5 DEF Live
  <2>2. \A v \in Worker \ {w} : \/ worker'[v] = worker[v]
                                \/ worker[v] = "asleep" /\ worker'[v] = "pop"
    BY <1>1, <1>2, <1>5
  <2> QED
    BY <1>5, <2>1, <2>2, LeaveManned
<1>6. ASSUME NEW g \in Group, GroupStep(g) PROVE Manned'
  <2>1. CASE Decide(g)
    <3>1. Quiet /\ worker' = worker
      BY <2>1 DEF Decide, ctxVars, boundVars
    <3> QED
      BY <1>3, <3>1
  <2>2. CASE PushGroup(g)
    <3>1. UNCHANGED <<ctxVars, boundVars>> /\ (worker' = worker \/ worker' = WokenWorkers)
      BY <2>2 DEF PushGroup
    <3>2. Quiet
      BY <3>1 DEF ctxVars, boundVars
    <3> QED
      BY <1>3, <3>1, <3>2
  <2>3. CASE DeciderFallback(g)
    <3>1. UNCHANGED <<ctxVars, boundVars>> /\ worker' = WokenWorkers
      BY <2>3 DEF DeciderFallback, PushFallback
    <3>2. Quiet
      BY <3>1 DEF ctxVars, boundVars
    <3> QED
      BY <1>3, <3>1, <3>2
  <2> QED
    BY <1>6, <2>1, <2>2, <2>3 DEF GroupStep
<1>7. ASSUME NEW w \in Worker, Pop(w) PROVE Manned'
  <2> worker[w] \in LiveState /\ Quiet /\ UNCHANGED rootDone
    BY <1>7 DEF Pop, LiveState, ctxVars, boundVars
  <2>2. \/ CtxDone(w) /\ worker' = [worker EXCEPT ![w] = "out"]
        \/ worker' = [worker EXCEPT ![w] = "fetch"]
        \/ Drained /\ worker' = [worker EXCEPT ![w] = "out"]
        \/ worker' = [worker EXCEPT ![w] = "asleep"]
    BY <1>7 DEF Pop
  <2>3. CASE Drained /\ worker' = [worker EXCEPT ![w] = "out"]
    <3>1. \A v \in Worker : worker'[v] = "fatal" => worker[v] = "fatal"
      BY <1>1, <2>3
    <3> QED
      BY <2>3, <3>1, OverManned, SMT
  <2>4. CASE worker' = [worker EXCEPT ![w] = "fetch"] \/ worker' = [worker EXCEPT ![w] = "asleep"]
    <3>1. {"fetch", "asleep"} \subseteq LiveState
      BY DEF LiveState, HoldState
    <3> QED
      BY <1>4, <2>4, <3>1
  <2> QED
    BY <1>5, <2>2, <2>3, <2>4
<1>8. ASSUME NEW w \in Worker, FetchEnds(w) PROVE Manned'
  <2>1. {"fetch", "publish", "pop", "fatal"} \subseteq LiveState
    BY DEF LiveState, HoldState
  <2>2. CASE Publish(w) \/ Fatal(w)
    <3>1. PICK to \in {"publish", "fatal"} :
             /\ worker[w] = "fetch" /\ Quiet /\ worker' = [worker EXCEPT ![w] = to]
             /\ to = "fatal" => rootDone'
      BY <2>2, SMT DEF Publish, Fatal, ctxVars, boundVars
    <3> QED
      BY <1>4, <2>1, <3>1
  <2>3. CASE FetcherFallback(w)
    <3>1. Quiet /\ worker' = WokenWorkers
      BY <2>3, SMT DEF FetcherFallback, PushFallback, ctxVars, boundVars
    <3> QED
      BY <1>3, <3>1
  <2>4. CASE Published(w) \/ FileFailed(w) \/ Retry(w)
    <3>1. /\ worker[w] \in {"fetch", "publish"} /\ Quiet
          /\ \/ worker' = [worker EXCEPT ![w] = "pop"]
             \/ worker' = [WokenWorkers EXCEPT ![w] = "pop"]
      <4>1. CASE Published(w)
        BY <4>1 DEF Published, Done, ctxVars
      <4>2. CASE FileFailed(w)
        BY <4>2 DEF FileFailed, Done, ctxVars
      <4>3. CASE Retry(w)
        BY <4>3 DEF Retry, Requeue, ctxVars
      <4> QED
        BY <2>4, <4>1, <4>2, <4>3
    <3> QED
      BY <1>4, <2>1, <3>1
  <2>5. CASE Cancelled(w) \/ FatalDone(w)
    <3>1. /\ worker[w] \in {"fetch", "fatal"} /\ Quiet /\ UNCHANGED rootDone
          /\ worker[w] = "fetch" => CtxDone(w)
          /\ \/ worker' = [worker EXCEPT ![w] = "out"]
             \/ worker' = [WokenWorkers EXCEPT ![w] = "out"]
      BY <2>5, SMT DEF Cancelled, FatalDone, Done, Requeue, ctxVars
    <3>2. CtxDone(w)
      BY <3>1 DEF Manned, CtxDone
    <3> QED
      BY <1>5, <2>1, <3>1, <3>2
  <2> QED
    BY <1>8, <2>2, <2>3, <2>4, <2>5, LoseManned, SMT DEF FetchEnds
<1>9. CASE Close \/ WaitDrained \/ CancelRoot \/ WakeNotEmpty \/ WakeNotFull \/ UNCHANGED vars
  <2>1. Quiet /\ (worker' = worker \/ worker' = WokenWorkers)
    <3>1. CASE Close
      BY <3>1 DEF Close, ctxVars, boundVars
    <3>2. CASE WaitDrained \/ UNCHANGED vars
      BY <3>2, SMT DEF WaitDrained, vars, ctxVars, boundVars
    <3>3. CASE CancelRoot
      BY <3>3 DEF CancelRoot, boundVars
    <3>4. CASE WakeNotEmpty \/ WakeNotFull
      BY <3>4, SMT DEF WakeNotEmpty, WakeNotFull, ctxVars, boundVars
    <3> QED
      BY <1>9, <3>1, <3>2, <3>3, <3>4
  <2> QED
    BY <1>3, <2>1
<1> QED
  BY <1>6, <1>7, <1>8, <1>9, ChannelManned, SMT DEF Next, Terminated

\* At the start every channel is up and one of them is the oldest.
LEMMA InitManned == Init => Manned
<1> SUFFICES ASSUME Init PROVE Manned
  OBVIOUS
<1> /\ older \in [Worker -> SUBSET Worker] /\ DialOrder(older)
    /\ worker = [w \in Worker |-> "pop"] /\ retired = {}
  BY DEF Init
<1>2. Live = Worker /\ \A w \in Worker : worker[w] = "pop"
  BY DEF Live, LiveState
<1>3. PICK a \in Worker : \A v \in Worker \ {a} : a \in older[v]
  BY FirstDialled
<1>4. Aged /\ Senior(a)
  BY <1>2, <1>3 DEF Aged, Senior, DialOrder
<1> QED
  BY <1>2, <1>4 DEF Manned

-----------------------------------------------------------------------------
\* Neither lost channels alone nor the tuner alone leave a queue that still
\* has work without a worker (receiver/run.go:272, tuner.go's retireOne).
THEOREM StarvationNeedsBoth == Spec => []StarvingTakesBoth
<1>1. IInv /\ Manned => StarvingTakesBoth
  <2> SUFFICES ASSUME IInv, Manned, Starved PROVE losses > 0 /\ retires > 0
    BY DEF StarvingTakesBoth
  <2>1. losses \in Nat /\ retires \in Nat
    BY DEF IInv, TypeOK
  <2>2. ~rootDone /\ ~Drained /\ \A w \in Worker : worker[w] = "out"
    BY DEF Starved
  <2>3. \A a \in Worker : ~Senior(a)
    BY <2>2 DEF Senior, Live, LiveState, HoldState
  <2> QED
    BY <2>1, <2>2, <2>3, SMT DEF Manned
<1> QED
  BY <1>1, InitManned, NextManned, QueueSafe, PTL DEF Spec

\* A queue that has drained stays drained: once close() has been called and
\* nothing is queued or in flight, nobody is left who could push or requeue,
\* so what waitDrained saw holds for the rest of the session.
THEOREM DrainedForGood == Spec => [][Drained => Drained']_vars
<1>1. IInv /\ [Next]_vars => [Drained => Drained']_vars
  BY DrainedStable
<1> QED
  BY <1>1, QueueSafe, PTL DEF Spec

\* The need queue with its workers, channels and cancellations does nothing
\* the abstract work pool could not do: files are handed in once, taken one
\* at a time, given back or finished, and "drained" is said only of a pool in
\* which every file is finished (receiver/queue.go:20).
THEOREM QueueImplementsPool == Spec => ImplementsPool
<1>1. Init => Pool!Init
  <2> SUFFICES ASSUME Init PROVE Pool!Init
    OBVIOUS
  <2>1. Queued = {} /\ HeldFiles = {} /\ finished = {} /\ told = FALSE
    BY SMT DEF Init, Queued, Range, HeldFiles, Holders, HoldState
  <2> QED
    BY <2>1 DEF Pool!Init
<1> QED
  BY <1>1, NextPool, QueueSafe, PTL DEF Spec, ImplementsPool, Pool!Spec
=============================================================================
