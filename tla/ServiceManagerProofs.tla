------------------------ MODULE ServiceManagerProofs ------------------------
(***************************************************************************)
(* wave_sort_services is correct for every list of services: the waves     *)
(* respect the order and are as early as it allows, every service is in    *)
(* exactly one wave, and the sort fails only if there is a cycle.  On that *)
(* rest boot order, the list of supervisors and the timer dispatcher, for  *)
(* any number of signals, commands and firings.                            *)
(***************************************************************************)
EXTENDS ServiceManager, FiniteSetTheorems, TLAPS

-----------------------------------------------------------------------------
(* The sort *)

USE DEF Node

\* Services in a finished wave, and services that were popped.
Closed == {i \in Node : \E k \in DOMAIN waves : i \in waves[k]}
Placed == Closed \cup wave

Queued(i) == \E k \in 1 .. Len(queue) : queue[k] = i

\* What degrees[i] counts.
Pending(i) == {e \in Edges : e.svc = i /\ (e.dep \notin Placed \/ e \in rest)}

SortType ==
  /\ entries \in Catalogs
  /\ degrees \in [Node -> Nat]
  /\ scan \in 1 .. N + 1
  /\ queue \in Seq(Node)
  /\ left \in Nat /\ left <= Len(queue)
  /\ rest \subseteq Edges
  /\ wave \subseteq Node
  /\ waves \in Seq(SUBSET Node)
  /\ visited \in Nat
  /\ result \in {"none", "ok", "err"}

\* Until the initial queue is complete nothing else has happened, and nothing happens
\* after the result.
Stages ==
  /\ scan <= N => left = 0 /\ rest = {} /\ wave = {} /\ waves = <<>> /\ result = "none"
  /\ result # "none" => scan = N + 1 /\ left = 0 /\ rest = {} /\ wave = {} /\ queue = <<>>

DegreeInv == \A i \in Node : degrees[i] = Cardinality(Pending(i))

\* The queue holds services that wait for nothing, each once and none a second time.
QueueInv ==
  /\ \A k \in 1 .. Len(queue) :
       degrees[queue[k]] = 0 /\ queue[k] \notin Placed /\ (scan <= N => queue[k] < scan)
  /\ \A k, l \in 1 .. Len(queue) : queue[k] = queue[l] => k = l

RestInv == \A e \in rest : e.dep \in wave

\* A service without pending entries has been queued.
CoverInv == \A i \in Node : i < scan /\ degrees[i] = 0 => i \in Placed \/ Queued(i)

\* The services popped in this wave, and the ones still to be popped in it, wait only for
\* services of finished waves.
FrontInv ==
  /\ \A k \in 1 .. left : \A e \in Edges : e.svc = queue[k] => e.dep \in Closed
  /\ \A e \in Edges : e.svc \in wave => e.dep \in Closed

\* No service is in two waves.
DisjointInv ==
  /\ \A k, l \in DOMAIN waves : \A i \in waves[k] : i \in waves[l] => k = l
  /\ \A k \in DOMAIN waves : \A i \in waves[k] : i \notin wave

VisitInv == visited = Cardinality(Placed)

SortInv ==
  /\ SortType /\ Stages /\ DegreeInv /\ QueueInv /\ RestInv /\ CoverInv
  /\ FrontInv /\ DisjointInv /\ VisitInv
  /\ WavesRespectDeps /\ SortIsComplete
-----------------------------------------------------------------------------
LEMMA EdgesFinite ==
  ASSUME entries \in Catalogs
  PROVE  /\ IsFiniteSet(Edges)
         /\ \A S : S \subseteq Edges => IsFiniteSet(S) /\ Cardinality(S) \in Nat
         /\ \A e \in Edges : e.svc \in Node /\ e.dep \in Node
<1>1. IsFiniteSet(entries)
  BY SortAssumption, Zenon
<1>2. IsFiniteSet(Edges)
  BY <1>1, FS_Subset, Zenon DEF Edges
<1>3. \A S : S \subseteq Edges => IsFiniteSet(S) /\ Cardinality(S) \in Nat
  BY <1>2, FS_Subset, FS_CardinalityType, Zenon
<1>4. \A e \in Edges : e.svc \in Node /\ e.dep \in Node
  BY Zenon DEF Edges, Known
<1> QED
  BY <1>2, <1>3, <1>4, Zenon

LEMMA NoneIsEmpty ==
  ASSUME NEW S, IsFiniteSet(S)
  PROVE  Cardinality(S) = 0 <=> S = {}
BY FS_EmptySet, Zenon

LEMMA AppendFacts ==
  ASSUME NEW S, NEW s \in Seq(S), NEW x \in S
  PROVE  /\ Append(s, x) \in Seq(S) /\ Len(s) \in Nat /\ Len(Append(s, x)) = Len(s) + 1
         /\ Append(s, x)[Len(s) + 1] = x
         /\ \A k \in 1 .. Len(s) : Append(s, x)[k] = s[k] /\ s[k] \in S
OBVIOUS

LEMMA NodeFinite == IsFiniteSet(Node) /\ Cardinality(Node) = N
<1>1. 1 \in Int /\ N \in Int /\ N \in Nat
  BY SortAssumption
<1>2. IsFiniteSet(1 .. N) /\ Cardinality(1 .. N) = IF 1 > N THEN 0 ELSE N - 1 + 1
  BY <1>1, FS_Interval, Zenon
<1> QED
  BY <1>1, <1>2

LEMMA PlacedFinite ==
  ASSUME SortType
  PROVE  Placed \subseteq Node /\ IsFiniteSet(Placed)
<1>1. Placed \subseteq Node
  BY Zenon DEF Placed, Closed, SortType
<1> QED
  BY <1>1, NodeFinite, FS_Subset, Zenon

LEMMA SortInitInv == SortInit => SortInv
<1> SUFFICES ASSUME SortInit PROVE SortInv
  BY Zenon
<1> USE SortAssumption DEF SortInit
<1>1. Closed = {} /\ Placed = {}
  BY DEF Closed, Placed
<1>2. \A i \in Node : Pending(i) = {e \in Edges : e.svc = i}
  BY <1>1, Zenon DEF Pending
<1>3. \A i \in Node : Cardinality(Pending(i)) \in Nat
  BY EdgesFinite, Zenon DEF Pending
<1>4. DegreeInv
  BY <1>2, Zenon DEF DegreeInv
<1>5. SortType
  BY <1>2, <1>3 DEF SortType
<1>6. Stages /\ QueueInv /\ RestInv /\ CoverInv
  BY DEF Stages, QueueInv, RestInv, CoverInv
<1>7. FrontInv /\ DisjointInv
  BY DEF FrontInv, DisjointInv
<1>8. VisitInv
  BY <1>1, FS_EmptySet, Zenon DEF VisitInv
<1>9. WavesRespectDeps /\ SortIsComplete
  BY DEF WavesRespectDeps, SortIsComplete
<1> QED
  BY <1>4, <1>5, <1>6, <1>7, <1>8, <1>9, Zenon DEF SortInv


LEMMA SeedFreeInv == SortInv /\ SeedFree => SortInv'
<1> SUFFICES ASSUME SortInv, SeedFree PROVE SortInv'
  BY Zenon
<1> USE SortAssumption DEF SeedFree
<1> USE DEF SortInv
<1>1. SortType' /\ Stages'
  BY DEF SortType, Stages, Edges
<1>2. Edges' = Edges /\ Placed' = Placed /\ Closed' = Closed
  BY Zenon DEF Edges, Placed, Closed
<1>3. DegreeInv'
  BY <1>2, Zenon DEF DegreeInv, Pending
<1>4. Placed = {} /\ scan \in Node /\ scan <= N /\ left = 0 /\ wave = {} /\ waves = <<>>
  <2>1. scan \in Node /\ scan <= N
    OBVIOUS
  <2>2. left = 0 /\ wave = {} /\ waves = <<>>
    BY <2>1, Zenon DEF Stages
  <2>3. Closed = {}
    BY <2>2 DEF Closed
  <2> QED
    BY <2>1, <2>2, <2>3, Zenon DEF Placed
<1>5. QueueInv'
  <2>1. /\ Len(queue') = Len(queue) + 1 /\ queue'[Len(queue) + 1] = scan
        /\ \A k \in 1 .. Len(queue) : queue'[k] = queue[k] /\ queue[k] \in Node
    BY <1>4 DEF SortType
  <2>2. \A k \in 1 .. Len(queue) : queue[k] < scan /\ degrees[queue[k]] = 0
    BY <1>4, Zenon DEF QueueInv
  <2>3. Len(queue) \in Nat
    BY DEF SortType
  <2> QED
    BY <1>2, <1>4, <2>1, <2>2, <2>3 DEF QueueInv
<1>6. RestInv'
  BY Zenon DEF RestInv
<1>7. CoverInv'
  <2>1. /\ Len(queue') = Len(queue) + 1 /\ queue'[Len(queue) + 1] = scan
        /\ \A k \in 1 .. Len(queue) : queue'[k] = queue[k]
        /\ Len(queue) \in Nat
    BY <1>4 DEF SortType
  <2>2. \A i : Queued(i) => Queued(i)'
    BY <2>1 DEF Queued
  <2>3. ASSUME NEW i \in Node, i = scan PROVE Queued(i)'
    BY <2>1, <2>3 DEF Queued
  <2>4. \A i \in Node : i < scan + 1 => i < scan \/ i = scan
    BY <1>4
  <2> QED
    BY <1>2, <2>2, <2>3, <2>4, Zenon DEF CoverInv
<1>8. FrontInv'
  BY <1>2, <1>4 DEF FrontInv
<1>9. DisjointInv' /\ VisitInv'
  BY <1>2, Zenon DEF DisjointInv, VisitInv
<1>10. WavesRespectDeps'
  BY <1>2, Zenon DEF WavesRespectDeps, InWaves
<1>11. SortIsComplete'
  BY <1>4, Zenon DEF SortIsComplete, Stages
<1> QED
  BY <1>1, <1>3, <1>5, <1>6, <1>7, <1>8, <1>9, <1>10, <1>11, Zenon

LEMMA SeedBlockedInv == SortInv /\ SeedBlocked => SortInv'
<1> SUFFICES ASSUME SortInv, SeedBlocked PROVE SortInv'
  BY Zenon
<1> USE SortAssumption DEF SeedBlocked
<1> USE DEF SortInv
<1>1. SortType' /\ Stages'
  BY DEF SortType, Stages, Edges
<1>2. Edges' = Edges /\ Placed' = Placed /\ Closed' = Closed
  BY Zenon DEF Edges, Placed, Closed
<1>3. DegreeInv'
  BY <1>2, Zenon DEF DegreeInv, Pending
<1>4. QueueInv'
  <2>1. QueueInv /\ UNCHANGED <<queue, degrees>> /\ scan \in Node /\ scan' = scan + 1
    BY Zenon
  <2>2. queue \in Seq(Node) /\ Len(queue) \in Nat
    BY DEF SortType
  <2>3. ASSUME NEW k \in 1 .. Len(queue)
        PROVE  degrees'[queue[k]] = 0 /\ queue[k] \notin Placed' /\ queue[k] < scan'
    <3>1. queue[k] \in Node /\ queue[k] < scan
      BY <2>1, <2>2 DEF QueueInv
    <3>2. queue[k] < scan'
      BY <2>1, <3>1
    <3>3. degrees[queue[k]] = 0 /\ queue[k] \notin Placed
      BY <2>1, Zenon DEF QueueInv
    <3> QED
      BY <1>2, <2>1, <3>2, <3>3, Zenon
  <2>4. \A k, l \in 1 .. Len(queue) : queue[k] = queue[l] => k = l
    BY <2>1, Zenon DEF QueueInv
  <2> QED
    BY <2>1, <2>3, <2>4, Zenon DEF QueueInv
<1>5. RestInv' /\ CoverInv'
  BY <1>2 DEF RestInv, CoverInv, Queued, SortType
<1>6. FrontInv' /\ DisjointInv' /\ VisitInv'
  BY <1>2, Zenon DEF FrontInv, DisjointInv, VisitInv
<1>7. WavesRespectDeps' /\ SortIsComplete'
  BY <1>2 DEF WavesRespectDeps, SortIsComplete, InWaves, Cyclic
<1> QED
  BY <1>1, <1>3, <1>4, <1>5, <1>6, <1>7, Zenon

LEMMA WaveBeginInv == SortInv /\ WaveBegin => SortInv'
<1> SUFFICES ASSUME SortInv, WaveBegin PROVE SortInv'
  BY Zenon
<1> USE SortAssumption DEF WaveBegin
<1> USE DEF SortInv
<1>1. SortType' /\ Stages'
  BY DEF SortType, Stages, Edges
<1>2. Edges' = Edges /\ Placed' = Placed /\ Closed' = Closed
  BY Zenon DEF Edges, Placed, Closed
<1>3. DegreeInv'
  BY <1>2, Zenon DEF DegreeInv, Pending
<1>4. QueueInv' /\ RestInv' /\ CoverInv'
  BY <1>2, Zenon DEF QueueInv, RestInv, CoverInv, Queued
<1>5. FrontInv'
  <2> SUFFICES ASSUME NEW k \in 1 .. Len(queue), NEW e \in Edges, e.svc = queue[k]
               PROVE  e.dep \in Closed
    BY <1>2, Zenon DEF FrontInv
  <2>0. queue[k] \in Node
    BY DEF SortType
  <2>1. queue[k] \in Node /\ degrees[queue[k]] = 0
    BY <2>0, Zenon DEF QueueInv
  <2>2. Pending(queue[k]) = {}
    <3>1. IsFiniteSet(Pending(queue[k]))
      BY EdgesFinite, Zenon DEF Pending, SortType
    <3> QED
      BY <2>1, <3>1, NoneIsEmpty, Zenon DEF DegreeInv
  <2>3. e.dep \in Placed
    BY <2>2, Zenon DEF Pending
  <2> QED
    BY <2>3, Zenon DEF Placed
<1>6. DisjointInv' /\ VisitInv'
  BY <1>2, Zenon DEF DisjointInv, VisitInv
<1>7. WavesRespectDeps' /\ SortIsComplete'
  BY <1>2, Zenon DEF WavesRespectDeps, SortIsComplete, InWaves, Cyclic
<1> QED
  BY <1>1, <1>3, <1>4, <1>5, <1>6, <1>7, Zenon
LEMMA PopInv == SortInv /\ Pop => SortInv'
<1> SUFFICES ASSUME SortInv, Pop PROVE SortInv'
  BY Zenon
<1> USE SortAssumption DEF Pop
<1> USE DEF SortInv
<1> DEFINE h == Head(queue)
<1>1. /\ queue \in Seq(Node) /\ Len(queue) \in Nat /\ left \in Nat /\ left <= Len(queue)
      /\ Len(queue) > 0 /\ queue # <<>> /\ h = queue[1] /\ h \in Node
      /\ Tail(queue) \in Seq(Node) /\ Len(Tail(queue)) = Len(queue) - 1
      /\ \A k \in 1 .. Len(queue) - 1 : Tail(queue)[k] = queue[k + 1]
  BY DEF SortType
<1>2. Edges' = Edges /\ Closed' = Closed
  BY Zenon DEF Edges, Closed
<1>3. Placed' = Placed \cup {h}
  BY <1>2, Zenon DEF Placed
<1>4. h \notin Placed /\ degrees[h] = 0 /\ Pending(h) = {}
  <2>1. h \notin Placed /\ degrees[h] = 0
    BY <1>1 DEF QueueInv
  <2>2. IsFiniteSet(Pending(h))
    BY EdgesFinite, Zenon DEF Pending, SortType
  <2> QED
    BY <1>1, <2>1, <2>2, NoneIsEmpty, Zenon DEF DegreeInv
<1>5. scan = N + 1 /\ result = "none"
  BY <1>1 DEF Stages, SortType
<1>6. SortType'
  <2>1. rest' \subseteq Edges'
    BY <1>2, Zenon
  <2>2. wave' \subseteq Node
    BY <1>1, Zenon DEF SortType
  <2>3. left' \in Nat /\ left' <= Len(queue') /\ queue' \in Seq(Node)
    BY <1>1
  <2> QED
    BY <2>1, <2>2, <2>3 DEF SortType
<1>7. Stages'
  BY <1>5 DEF Stages
<1>8. DegreeInv'
  <2> SUFFICES ASSUME NEW i \in Node PROVE Pending(i)' = Pending(i)
    BY Zenon DEF DegreeInv
  <2> QED
    BY <1>2, <1>3, <1>4, Zenon DEF Pending
<1>9. QueueInv'
  <2>1. \A k \in 1 .. Len(queue') : queue'[k] = queue[k + 1] /\ k + 1 \in 1 .. Len(queue) /\ k \in Nat
    BY <1>1
  <2>2. \A k \in 1 .. Len(queue') : queue'[k] # h
    BY <1>1, <2>1 DEF QueueInv
  <2>3. \A k \in 1 .. Len(queue') : degrees[queue'[k]] = 0 /\ queue'[k] \notin Placed'
    BY <1>3, <2>1, <2>2 DEF QueueInv
  <2>4. \A k, l \in 1 .. Len(queue') : queue'[k] = queue'[l] => k = l
    <3> SUFFICES ASSUME NEW k \in 1 .. Len(queue'), NEW l \in 1 .. Len(queue'),
                        queue'[k] = queue'[l]
                 PROVE  k = l
      BY Zenon
    <3>1. k + 1 = l + 1
      BY <2>1 DEF QueueInv
    <3> QED
      BY <3>1, <2>1
  <2>5. ~(scan' <= N)
    BY <1>5
  <2> QED
    BY <2>3, <2>4, <2>5, Zenon DEF QueueInv
<1>10. RestInv'
  BY Zenon DEF RestInv
<1>11. CoverInv'
  <2> SUFFICES ASSUME NEW i \in Node, i < scan, degrees[i] = 0, i \notin Placed, i # h
               PROVE  Queued(i)'
    BY <1>3, Zenon DEF CoverInv
  <2>1. PICK k \in 1 .. Len(queue) : queue[k] = i
    BY Zenon DEF CoverInv, Queued
  <2>2. k - 1 \in 1 .. Len(queue) - 1 /\ (k - 1) + 1 = k
    BY <1>1, <2>1
  <2>3. queue'[k - 1] = i /\ k - 1 \in 1 .. Len(queue')
    BY <1>1, <2>1, <2>2, Zenon
  <2> QED
    BY <2>3, Zenon DEF Queued
<1>12. FrontInv'
  <2>1. \A k \in 1 .. left' : queue'[k] = queue[k + 1] /\ k + 1 \in 1 .. left
    BY <1>1
  <2>2. \A k \in 1 .. left' : \A e \in Edges : e.svc = queue'[k] => e.dep \in Closed
    BY <2>1, Zenon DEF FrontInv
  <2>3. \A e \in Edges : e.svc = h => e.dep \in Closed
    BY <1>1 DEF FrontInv
  <2> QED
    BY <1>2, <2>2, <2>3, Zenon DEF FrontInv
<1>13. DisjointInv'
  <2>1. \A k \in DOMAIN waves : h \notin waves[k]
    BY <1>1, <1>4, Zenon DEF Placed, Closed
  <2> QED
    BY <2>1, Zenon DEF DisjointInv
<1>14. VisitInv'
  <2>1. IsFiniteSet(Placed)
    BY PlacedFinite, Zenon
  <2>2. Cardinality(Placed \cup {h}) = Cardinality(Placed) + 1
    BY <1>4, <2>1, FS_AddElement, Zenon
  <2> QED
    BY <1>3, <2>2, Zenon DEF VisitInv
<1>15. WavesRespectDeps'
  BY <1>2, Zenon DEF WavesRespectDeps, InWaves
<1>16. SortIsComplete'
  BY <1>5, Zenon DEF SortIsComplete
<1> QED
  BY <1>6, <1>7, <1>8, <1>9, <1>10, <1>11, <1>12, <1>13, <1>14, <1>15, <1>16, Zenon

\* What both kinds of Relax do to the degrees: one pending entry less, for one service.
LEMMA RelaxDegrees ==
  ASSUME SortInv, NEW e \in rest,
         degrees' = [degrees EXCEPT ![e.svc] = @ - 1],
         rest' = rest \ {e},
         UNCHANGED <<entries, wave, waves>>
  PROVE  /\ e \in Edges /\ e.svc \in Node
         /\ Edges' = Edges /\ Closed' = Closed /\ Placed' = Placed
         /\ degrees[e.svc] > 0 /\ degrees' \in [Node -> Nat]
         /\ degrees'[e.svc] = degrees[e.svc] - 1
         /\ \A i \in Node : i # e.svc => degrees'[i] = degrees[i]
         /\ DegreeInv'
<1> USE DEF SortInv
<1>1. e \in Edges /\ e.svc \in Node /\ e.dep \in wave
  BY EdgesFinite, Zenon DEF SortType, RestInv
<1>2. Edges' = Edges /\ Closed' = Closed /\ Placed' = Placed
  BY Zenon DEF Edges, Closed, Placed
<1>3. e \in Pending(e.svc) /\ IsFiniteSet(Pending(e.svc))
  BY <1>1, EdgesFinite, Zenon DEF Pending, SortType
<1>4. degrees[e.svc] = Cardinality(Pending(e.svc)) /\ degrees[e.svc] \in Nat
  BY <1>1, Zenon DEF DegreeInv, SortType
<1>5. degrees[e.svc] > 0
  <2>1. Pending(e.svc) # {}
    BY <1>3, Zenon
  <2> QED
    BY <1>3, <1>4, <2>1, NoneIsEmpty
<1>6. degrees'[e.svc] = degrees[e.svc] - 1 /\ \A i \in Node : i # e.svc => degrees'[i] = degrees[i]
  BY <1>1, Zenon DEF SortType
<1>7. degrees' \in [Node -> Nat]
  BY <1>1, <1>4, <1>5 DEF SortType
<1>8. DegreeInv'
  <2> SUFFICES ASSUME NEW i \in Node PROVE degrees'[i] = Cardinality(Pending(i)')
    BY Zenon DEF DegreeInv
  <2>1. CASE i # e.svc
    <3>1. Pending(i)' = Pending(i)
      BY <1>2, <2>1, Zenon DEF Pending
    <3> QED
      BY <1>6, <2>1, <3>1, Zenon DEF DegreeInv
  <2>2. CASE i = e.svc
    <3>1. Pending(i)' = Pending(i) \ {e}
      BY <1>1, <1>2, Zenon DEF Pending, Placed
    <3>2. Cardinality(Pending(i) \ {e}) = Cardinality(Pending(i)) - 1
      BY <1>3, <2>2, FS_RemoveElement, Zenon
    <3> QED
      BY <1>4, <1>6, <2>2, <3>1, <3>2, Zenon
  <2> QED
    BY <2>1, <2>2, Zenon
<1> QED
  BY <1>1, <1>2, <1>5, <1>6, <1>7, <1>8, Zenon
LEMMA RelaxBlockedInv ==
  ASSUME SortInv, NEW e \in rest, RelaxBlocked(e) PROVE SortInv'
<1> USE SortAssumption DEF RelaxBlocked
<1> USE DEF SortInv
<1>1. /\ e \in Edges /\ e.svc \in Node
      /\ Edges' = Edges /\ Closed' = Closed /\ Placed' = Placed
      /\ degrees[e.svc] > 0 /\ degrees' \in [Node -> Nat]
      /\ degrees'[e.svc] = degrees[e.svc] - 1
      /\ \A i \in Node : i # e.svc => degrees'[i] = degrees[i]
      /\ DegreeInv'
  BY RelaxDegrees, Zenon
<1>2. degrees'[e.svc] # 0
  BY <1>1 DEF SortType
<1>3. SortType'
  BY <1>1, Zenon DEF SortType
<1>4. Stages'
  BY Zenon DEF Stages
<1>5. QueueInv'
  <2>1. \A k \in 1 .. Len(queue) : queue[k] \in Node
    BY DEF SortType
  <2>2. \A k \in 1 .. Len(queue) : queue[k] # e.svc
    BY <1>1, <2>1 DEF QueueInv
  <2> QED
    BY <1>1, <2>1, <2>2 DEF QueueInv
<1>6. RestInv'
  BY Zenon DEF RestInv
<1>7. CoverInv'
  BY <1>1, <1>2, Zenon DEF CoverInv, Queued
<1>8. FrontInv' /\ DisjointInv' /\ VisitInv'
  BY <1>1, Zenon DEF FrontInv, DisjointInv, VisitInv
<1>9. WavesRespectDeps'
  BY <1>1, Zenon DEF WavesRespectDeps, InWaves
<1>10. SortIsComplete'
  BY Zenon DEF SortIsComplete, Stages
<1> QED
  BY <1>1, <1>3, <1>4, <1>5, <1>6, <1>7, <1>8, <1>9, <1>10, Zenon

LEMMA RelaxFreedInv ==
  ASSUME SortInv, NEW e \in rest, RelaxFreed(e) PROVE SortInv'
<1> USE SortAssumption DEF RelaxFreed
<1> USE DEF SortInv
<1>1. /\ e \in Edges /\ e.svc \in Node
      /\ Edges' = Edges /\ Closed' = Closed /\ Placed' = Placed
      /\ degrees[e.svc] > 0 /\ degrees' \in [Node -> Nat]
      /\ degrees'[e.svc] = degrees[e.svc] - 1
      /\ \A i \in Node : i # e.svc => degrees'[i] = degrees[i]
      /\ DegreeInv'
  BY RelaxDegrees, Zenon
<1>2. /\ Len(queue) \in Nat /\ Len(queue') = Len(queue) + 1 /\ queue' \in Seq(Node)
      /\ queue'[Len(queue) + 1] = e.svc
      /\ \A k \in 1 .. Len(queue) : queue'[k] = queue[k] /\ queue[k] \in Node
  <2>1. queue \in Seq(Node) /\ queue' = Append(queue, e.svc)
    BY Zenon DEF SortType
  <2> QED
    BY <1>1, <2>1, AppendFacts
<1>3. scan = N + 1 /\ result = "none"
  BY DEF Stages, SortType
<1>4. degrees'[e.svc] = 0
  BY <1>1
<1>5. SortType'
  <2>1. left <= Len(queue')
    BY <1>2 DEF SortType
  <2> QED
    BY <1>1, <1>2, <2>1, Zenon DEF SortType
<1>6. Stages'
  BY <1>3, Zenon DEF Stages
<1>7. e.svc \notin Placed
  <2>1. \A i \in Placed : i \in Node
    BY PlacedFinite, Zenon
  <2>2. CASE e.svc \in wave
    BY <1>1, <2>2, Zenon DEF FrontInv, DisjointInv, RestInv, Closed, SortType
  <2>3. CASE e.svc \in Closed
    <3>1. PICK k \in DOMAIN waves : e.svc \in waves[k]
      BY <2>3, Zenon DEF Closed
    <3>2. InWaves(e.dep, k - 1)
      BY <1>1, <3>1, Zenon DEF WavesRespectDeps
    <3>3. PICK l \in 1 .. k - 1 : e.dep \in waves[l]
      BY <3>2, Zenon DEF InWaves
    <3>4. l \in DOMAIN waves
      BY <3>1, <3>3 DEF SortType
    <3> QED
      BY <3>3, <3>4, Zenon DEF RestInv, DisjointInv
  <2> QED
    BY <2>2, <2>3, Zenon DEF Placed
<1>8. \A k \in 1 .. Len(queue) : queue[k] # e.svc
  BY <1>1, <1>2 DEF QueueInv
<1>9. QueueInv'
  <2>1. \A k \in 1 .. Len(queue) : degrees'[queue'[k]] = 0 /\ queue'[k] \notin Placed'
    BY <1>1, <1>2, <1>8 DEF QueueInv
  <2>2. \A k \in 1 .. Len(queue') : k \in 1 .. Len(queue) \/ k = Len(queue) + 1
    BY <1>2
  <2>3. \A k \in 1 .. Len(queue') : degrees'[queue'[k]] = 0 /\ queue'[k] \notin Placed'
    BY <1>1, <1>2, <1>4, <1>7, <2>1, <2>2, Zenon
  <2>4. \A k, l \in 1 .. Len(queue') : queue'[k] = queue'[l] => k = l
    BY <1>2, <1>8, <2>2 DEF QueueInv
  <2>5. ~(scan' <= N)
    BY <1>3
  <2> QED
    BY <2>3, <2>4, <2>5, Zenon DEF QueueInv
<1>10. RestInv'
  BY Zenon DEF RestInv
<1>11. CoverInv'
  <2>1. \A i : Queued(i) => Queued(i)'
    BY <1>2 DEF Queued
  <2>2. ASSUME NEW i \in Node, i = e.svc PROVE Queued(i)'
    BY <1>2, <2>2 DEF Queued
  <2> QED
    BY <1>1, <2>1, <2>2, Zenon DEF CoverInv
<1>12. FrontInv'
  <2>1. \A k \in 1 .. left : k \in 1 .. Len(queue)
    BY <1>2 DEF SortType
  <2>2. \A k \in 1 .. left : queue'[k] = queue[k]
    BY <1>2, <2>1, Zenon
  <2> QED
    BY <1>1, <2>2, Zenon DEF FrontInv
<1>13. DisjointInv' /\ VisitInv'
  BY <1>1, Zenon DEF DisjointInv, VisitInv
<1>14. WavesRespectDeps'
  BY <1>1, Zenon DEF WavesRespectDeps, InWaves
<1>15. SortIsComplete'
  BY <1>3, Zenon DEF SortIsComplete
<1> QED
  BY <1>1, <1>5, <1>6, <1>9, <1>10, <1>11, <1>12, <1>13, <1>14, <1>15, Zenon

LEMMA WaveEndInv == SortInv /\ WaveEnd => SortInv'
<1> SUFFICES ASSUME SortInv, WaveEnd PROVE SortInv'
  BY Zenon
<1> USE SortAssumption DEF WaveEnd
<1> USE DEF SortInv
<1>1. /\ Len(waves) \in Nat /\ Len(waves') = Len(waves) + 1 /\ waves' \in Seq(SUBSET Node)
      /\ waves'[Len(waves) + 1] = wave
      /\ \A k \in 1 .. Len(waves) : waves'[k] = waves[k]
      /\ DOMAIN waves = 1 .. Len(waves) /\ DOMAIN waves' = 1 .. Len(waves) + 1
  BY DEF SortType
<1>2. \A k \in DOMAIN waves' : k \in 1 .. Len(waves) \/ k = Len(waves) + 1
  BY <1>1
<1>3. Edges' = Edges
  BY Zenon DEF Edges
<1>4. Closed' = Closed \cup wave
  <2>1. \A i \in Node : i \in Closed' <=> \E k \in DOMAIN waves' : i \in waves'[k]
    BY Zenon DEF Closed
  <2>2. \A i \in Node : i \in Closed <=> \E k \in 1 .. Len(waves) : i \in waves[k]
    BY <1>1, Zenon DEF Closed
  <2>3. Len(waves) + 1 \in DOMAIN waves' /\ \A k \in 1 .. Len(waves) : k \in DOMAIN waves'
    BY <1>1
  <2>4. \A i \in Node : i \in Closed' <=> i \in Closed \cup wave
    BY <1>1, <1>2, <2>1, <2>2, <2>3, Zenon
  <2>5. Closed' \subseteq Node /\ Closed \cup wave \subseteq Node
    BY Zenon DEF Closed, SortType
  <2> QED
    BY <2>4, <2>5, Zenon
<1>5. Placed' = Placed
  BY <1>4, Zenon DEF Placed
<1>6. SortType'
  BY <1>1, <1>3, Zenon DEF SortType
<1>7. scan = N + 1 /\ result = "none"
  <2>1. ~(scan <= N) /\ result = "none"
    BY Zenon DEF Stages
  <2> QED
    BY <2>1 DEF SortType
<1>8. Stages'
  BY <1>7, Zenon DEF Stages
<1>9. DegreeInv'
  BY <1>3, <1>5, Zenon DEF DegreeInv, Pending
<1>10. QueueInv' /\ RestInv' /\ CoverInv'
  BY <1>5, Zenon DEF QueueInv, RestInv, CoverInv, Queued
<1>11. FrontInv'
  BY DEF FrontInv
<1>12. DisjointInv'
  BY <1>1, <1>2 DEF DisjointInv
<1>13. VisitInv'
  BY <1>5, Zenon DEF VisitInv
<1>14. WavesRespectDeps'
  <2> SUFFICES ASSUME NEW k \in DOMAIN waves', NEW e \in Edges, e.svc \in waves'[k]
               PROVE  InWaves(e.dep, k - 1)'
    BY <1>3, Zenon DEF WavesRespectDeps
  <2>1. PICK l \in 1 .. k - 1 : e.dep \in waves[l] /\ l \in 1 .. Len(waves)
    <3>1. CASE k \in 1 .. Len(waves)
      <4>1. InWaves(e.dep, k - 1)
        BY <1>1, <3>1, Zenon DEF WavesRespectDeps
      <4> QED
        BY <1>1, <3>1, <4>1 DEF InWaves
    <3>2. CASE k = Len(waves) + 1
      <4>1. e.dep \in Closed
        BY <1>1, <3>2, Zenon DEF FrontInv
      <4>2. PICK l \in DOMAIN waves : e.dep \in waves[l]
        BY <4>1, Zenon DEF Closed
      <4>3. l \in 1 .. k - 1
        BY <1>1, <3>2, <4>2
      <4> QED
        BY <1>1, <4>2, <4>3, Zenon
    <3> QED
      BY <1>2, <3>1, <3>2, Zenon
  <2> QED
    BY <1>1, <2>1, Zenon DEF InWaves
<1>15. SortIsComplete'
  BY <1>7, Zenon DEF SortIsComplete
<1> QED
  BY <1>6, <1>8, <1>9, <1>10, <1>11, <1>12, <1>13, <1>14, <1>15, Zenon
LEMMA SortOkInv == SortInv /\ SortOk => SortInv'
<1> SUFFICES ASSUME SortInv, SortOk PROVE SortInv'
  BY Zenon
<1> USE SortAssumption DEF SortOk, SortIdle
<1> USE DEF SortInv
<1>1. Edges' = Edges /\ Closed' = Closed /\ Placed' = Placed
  BY Zenon DEF Edges, Closed, Placed
<1>2. SortType' /\ Stages'
  BY <1>1 DEF SortType, Stages
<1>3. DegreeInv' /\ QueueInv' /\ RestInv' /\ CoverInv'
  BY <1>1 DEF DegreeInv, Pending, QueueInv, RestInv, CoverInv, Queued
<1>4. FrontInv' /\ DisjointInv' /\ VisitInv'
  BY <1>1, Zenon DEF FrontInv, DisjointInv, VisitInv
<1>5. WavesRespectDeps'
  BY <1>1, Zenon DEF WavesRespectDeps, InWaves
<1>6. Placed = Node
  BY PlacedFinite, NodeFinite, FS_Subset, Zenon DEF VisitInv
<1>7. \A i \in Node : \E k \in DOMAIN waves : i \in waves[k]
  BY <1>6, Zenon DEF Placed, Closed
<1>8. SortIsComplete'
  BY <1>7, Zenon DEF SortIsComplete, DisjointInv
<1> QED
  BY <1>2, <1>3, <1>4, <1>5, <1>8, Zenon

LEMMA SortErrInv == SortInv /\ SortErr => SortInv'
<1> SUFFICES ASSUME SortInv, SortErr PROVE SortInv'
  BY Zenon
<1> USE SortAssumption DEF SortErr, SortIdle
<1> USE DEF SortInv
<1>1. Edges' = Edges /\ Closed' = Closed /\ Placed' = Placed
  BY Zenon DEF Edges, Closed, Placed
<1>2. SortType' /\ Stages'
  BY <1>1 DEF SortType, Stages
<1>3. DegreeInv' /\ QueueInv' /\ RestInv' /\ CoverInv'
  BY <1>1 DEF DegreeInv, Pending, QueueInv, RestInv, CoverInv, Queued
<1>4. FrontInv' /\ DisjointInv' /\ VisitInv'
  BY <1>1, Zenon DEF FrontInv, DisjointInv, VisitInv
<1>5. WavesRespectDeps'
  BY <1>1, Zenon DEF WavesRespectDeps, InWaves
<1>6. Node \ Placed # {}
  BY PlacedFinite, NodeFinite, Zenon DEF VisitInv
<1>7. \A i \in Node \ Placed : \E e \in Edges : e.svc = i /\ e.dep \in Node \ Placed
  <2> SUFFICES ASSUME NEW i \in Node, i \notin Placed
               PROVE  \E e \in Edges : e.svc = i /\ e.dep \in Node \ Placed
    BY Zenon
  <2>1. degrees[i] # 0
    <3>1. ~Queued(i)
      BY DEF Queued
    <3>2. i < scan
      OBVIOUS
    <3> QED
      BY <3>1, <3>2, Zenon DEF CoverInv
  <2>2. Pending(i) # {}
    <3>1. Pending(i) = {} => Cardinality(Pending(i)) = 0
      BY FS_EmptySet, Zenon
    <3> QED
      BY <2>1, <3>1, Zenon DEF DegreeInv
  <2>3. PICK e \in Edges : e.svc = i /\ e.dep \notin Placed
    BY <2>2, Zenon DEF Pending
  <2>4. e.dep \in Node
    BY EdgesFinite, Zenon DEF SortType
  <2> QED
    BY <2>3, <2>4, Zenon
<1>8. SortIsComplete'
  <2>1. Cyclic(Node \ Placed)
    BY <1>6, <1>7, Zenon DEF Cyclic
  <2>2. \E U \in SUBSET Node : Cyclic(U)
    BY <2>1, Zenon
  <2>3. \A U : Cyclic(U) => Cyclic(U)'
    BY <1>1, Zenon DEF Cyclic
  <2> QED
    BY <2>2, <2>3, Zenon DEF SortIsComplete
<1> QED
  BY <1>2, <1>3, <1>4, <1>5, <1>8, Zenon

LEMMA SortStutter == SortInv /\ UNCHANGED sortVars => SortInv'
<1> SUFFICES ASSUME SortInv, UNCHANGED sortVars PROVE SortInv'
  BY Zenon
<1> USE DEF sortVars, SortInv
<1>1. Edges' = Edges /\ Closed' = Closed /\ Placed' = Placed
  BY Zenon DEF Edges, Closed, Placed
<1>2. SortType' /\ Stages'
  BY <1>1, Zenon DEF SortType, Stages
<1>3. DegreeInv' /\ QueueInv' /\ RestInv' /\ CoverInv'
  BY <1>1 DEF DegreeInv, Pending, QueueInv, RestInv, CoverInv, Queued
<1>4. FrontInv' /\ DisjointInv' /\ VisitInv'
  BY <1>1, Zenon DEF FrontInv, DisjointInv, VisitInv
<1>5. WavesRespectDeps'
  BY <1>1, Zenon DEF WavesRespectDeps, InWaves
<1>6. SortIsComplete'
  BY <1>1, Zenon DEF SortIsComplete, Cyclic
<1> QED
  BY <1>2, <1>3, <1>4, <1>5, <1>6, Zenon

LEMMA SortNextInv == SortInv /\ [SortNext]_sortVars => SortInv'
BY SeedFreeInv, SeedBlockedInv, WaveBeginInv, PopInv, RelaxBlockedInv, RelaxFreedInv,
   WaveEndInv, SortOkInv, SortErrInv, SortStutter DEF SortNext

\* wave_sort_services returns every service in exactly one wave, after everything it is
\* ordered after, and it fails only on a cycle; whatever the services and their lists are.
THEOREM SortCorrect == SortSpec => [](WavesRespectDeps /\ SortIsComplete)
<1>1. SortInv => WavesRespectDeps /\ SortIsComplete
  BY Zenon DEF SortInv
<1> QED
  BY <1>1, SortInitInv, SortNextInv, PTL DEF SortSpec

\* No service is lost and none is launched twice, and a sort that fails has met a cycle.
THEOREM SortIsTotal == SortSpec => []SortIsComplete
BY SortCorrect, PTL
-----------------------------------------------------------------------------
(* No service waits longer than it has to.                                 *)

Awaits(i, S) == \E e \in Edges : e.svc = i /\ e.dep \in S
LastWave == waves[Len(waves)]
Between == left = 0 /\ wave = {}

\* What is popped in a wave was freed by the wave before; what is queued meanwhile was freed
\* by this one, which becomes the wave before when it is closed.
EarliestInv ==
  /\ waves # <<>> => /\ \A i \in wave : Awaits(i, LastWave)
                     /\ \A k \in 1 .. left : Awaits(queue[k], LastWave)
  /\ Between /\ waves # <<>> => \A k \in 1 .. Len(queue) : Awaits(queue[k], LastWave)
  /\ ~Between => \A k \in left + 1 .. Len(queue) : Awaits(queue[k], wave)
  /\ WavesAreEarliest

LEMMA EarliestInit == SortInit => EarliestInv
BY DEF SortInit, EarliestInv, Between, WavesAreEarliest

\* The steps that leave the queue, the waves and the counter of pops alone.
LEMMA EarliestKept ==
  ASSUME EarliestInv, UNCHANGED <<entries, queue, left, wave, waves>> PROVE EarliestInv'
<1>1. Edges' = Edges /\ LastWave' = LastWave /\ Between' = Between
  BY Zenon DEF Edges, LastWave, Between
<1>2. \A i, S : Awaits(i, S)' = Awaits(i, S)
  BY <1>1, Zenon DEF Awaits
<1>3. WavesAreEarliest'
  BY <1>1, Zenon DEF WavesAreEarliest, EarliestInv
<1> QED
  BY <1>1, <1>2, <1>3, Zenon DEF EarliestInv

LEMMA EarliestSeed == SortInv /\ EarliestInv /\ SeedFree => EarliestInv'
<1> SUFFICES ASSUME SortInv, EarliestInv, SeedFree PROVE EarliestInv'
  BY Zenon
<1>1. scan <= N /\ left = 0 /\ wave = {} /\ waves = <<>>
  BY SortAssumption DEF SeedFree, SortInv, Stages
<1>2. left' = 0 /\ wave' = {} /\ waves' = <<>>
  BY <1>1, Zenon DEF SeedFree
<1> QED
  BY <1>2 DEF EarliestInv, Between, WavesAreEarliest

LEMMA EarliestBegin == SortInv /\ EarliestInv /\ WaveBegin => EarliestInv'
<1> SUFFICES ASSUME SortInv, EarliestInv, WaveBegin PROVE EarliestInv'
  BY Zenon
<1>1. Edges' = Edges /\ LastWave' = LastWave /\ Between
  BY Zenon DEF Edges, LastWave, Between, WaveBegin
<1>2. \A i, S : Awaits(i, S)' = Awaits(i, S)
  BY <1>1, Zenon DEF Awaits
<1>3. left' = Len(queue) /\ Len(queue) \in Nat /\ Len(queue) > 0 /\ UNCHANGED <<queue, wave, waves>> /\ wave = {}
  BY DEF WaveBegin, SortInv, SortType
<1>4. WavesAreEarliest'
  BY <1>1, <1>3, Zenon DEF WavesAreEarliest, EarliestInv
<1>5. ~Between' /\ left' + 1 .. Len(queue') = {}
  BY <1>3 DEF Between
<1> QED
  BY <1>1, <1>2, <1>3, <1>4, <1>5, Zenon DEF EarliestInv

LEMMA EarliestPop == SortInv /\ EarliestInv /\ Pop => EarliestInv'
<1> SUFFICES ASSUME SortInv, EarliestInv, Pop PROVE EarliestInv'
  BY Zenon
<1>1. /\ Len(queue) \in Nat /\ left \in Nat /\ left > 0 /\ left <= Len(queue) /\ left' = left - 1
      /\ Head(queue) = queue[1] /\ Len(queue') = Len(queue) - 1
      /\ \A k \in 1 .. Len(queue) - 1 : queue'[k] = queue[k + 1]
  BY DEF Pop, SortInv, SortType
<1>2. Edges' = Edges /\ LastWave' = LastWave /\ wave' = wave \cup {Head(queue)} /\ waves' = waves
  BY Zenon DEF Edges, LastWave, Pop
<1>3. \A i, S : Awaits(i, S)' = Awaits(i, S)
  BY <1>2, Zenon DEF Awaits
<1>4. ~Between /\ ~Between'
  <2>1. left # 0
    BY <1>1
  <2>2. wave' # {}
    BY <1>2, Zenon
  <2> QED
    BY <2>1, <2>2, Zenon DEF Between
<1>5. ASSUME waves # <<>> PROVE /\ \A i \in wave' : Awaits(i, LastWave)
                                /\ \A k \in 1 .. left' : Awaits(queue'[k], LastWave)
  <2>1. \A k \in 1 .. left : Awaits(queue[k], LastWave)
    BY <1>5, Zenon DEF EarliestInv
  <2>2. \A k \in 1 .. left' : queue'[k] = queue[k + 1] /\ k + 1 \in 1 .. left
    BY <1>1
  <2> QED
    BY <1>1, <1>2, <1>5, <2>1, <2>2 DEF EarliestInv
<1>6. \A k \in left' + 1 .. Len(queue') : Awaits(queue'[k], wave')
  <2> SUFFICES ASSUME NEW k \in left' + 1 .. Len(queue') PROVE Awaits(queue'[k], wave')
    BY Zenon
  <2>1. queue'[k] = queue[k + 1] /\ k + 1 \in left + 1 .. Len(queue)
    BY <1>1
  <2>2. Awaits(queue[k + 1], wave)
    BY <1>4, <2>1, Zenon DEF EarliestInv
  <2> QED
    BY <1>2, <2>1, <2>2, Zenon DEF Awaits
<1>7. WavesAreEarliest'
  BY <1>2, Zenon DEF WavesAreEarliest, EarliestInv
<1> QED
  BY <1>2, <1>3, <1>4, <1>5, <1>6, <1>7, Zenon DEF EarliestInv

LEMMA EarliestFreed ==
  ASSUME SortInv, EarliestInv, NEW e \in rest, RelaxFreed(e) PROVE EarliestInv'
<1>1. e \in Edges /\ e.svc \in Node /\ e.dep \in wave
  BY EdgesFinite, Zenon DEF SortInv, SortType, RestInv
<1>2. /\ Len(queue) \in Nat /\ Len(queue') = Len(queue) + 1 /\ queue'[Len(queue) + 1] = e.svc
      /\ \A k \in 1 .. Len(queue) : queue'[k] = queue[k]
  BY <1>1, AppendFacts DEF RelaxFreed, SortInv, SortType
<1>3. Edges' = Edges /\ LastWave' = LastWave /\ UNCHANGED <<left, wave, waves>>
  BY Zenon DEF Edges, LastWave, RelaxFreed
<1>4. \A i, S : Awaits(i, S)' = Awaits(i, S)
  BY <1>3, Zenon DEF Awaits
<1>5. ~Between /\ ~Between'
  BY <1>1, <1>3, Zenon DEF Between
<1>6. left \in Nat /\ left <= Len(queue)
  BY Zenon DEF SortInv, SortType
<1>7. \A k \in 1 .. left : queue'[k] = queue[k]
  BY <1>2, <1>6
<1>8. \A k \in left + 1 .. Len(queue') : Awaits(queue'[k], wave)
  <2> SUFFICES ASSUME NEW k \in left + 1 .. Len(queue') PROVE Awaits(queue'[k], wave)
    BY Zenon
  <2>1. CASE k = Len(queue) + 1
    BY <1>1, <1>2, <2>1, Zenon DEF Awaits
  <2>2. CASE k # Len(queue) + 1
    <3>1. k \in left + 1 .. Len(queue) /\ k \in 1 .. Len(queue)
      BY <1>2, <1>6, <2>2
    <3> QED
      BY <1>2, <1>5, <3>1, Zenon DEF EarliestInv
  <2> QED
    BY <2>1, <2>2, Zenon
<1>9. WavesAreEarliest'
  BY <1>3, Zenon DEF WavesAreEarliest, EarliestInv
<1> QED
  BY <1>3, <1>4, <1>5, <1>7, <1>8, <1>9, Zenon DEF EarliestInv

LEMMA EarliestEnd == SortInv /\ EarliestInv /\ WaveEnd => EarliestInv'
<1> SUFFICES ASSUME SortInv, EarliestInv, WaveEnd PROVE EarliestInv'
  BY Zenon
<1>1. wave \in SUBSET Node /\ waves \in Seq(SUBSET Node) /\ waves' = Append(waves, wave) /\ queue' = queue
  BY Zenon DEF WaveEnd, SortInv, SortType
<1>2. /\ Len(waves) \in Nat /\ Len(waves') = Len(waves) + 1 /\ waves'[Len(waves) + 1] = wave
      /\ \A k \in 1 .. Len(waves) : waves'[k] = waves[k]
      /\ DOMAIN waves = 1 .. Len(waves) /\ DOMAIN waves' = 1 .. Len(waves) + 1
  BY <1>1
<1>3. Edges' = Edges /\ LastWave' = wave /\ left = 0 /\ left' = 0 /\ wave' = {} /\ ~Between /\ Between'
  BY <1>2, Zenon DEF Edges, LastWave, Between, WaveEnd
<1>4. \A i, S : Awaits(i, S)' = Awaits(i, S)
  BY <1>3, Zenon DEF Awaits
<1>5. \A k \in 1 .. Len(queue) : Awaits(queue[k], wave)
  BY <1>3 DEF EarliestInv
<1>6. WavesAreEarliest'
  <2> SUFFICES ASSUME NEW k \in DOMAIN waves', k > 1, NEW i \in waves'[k]
               PROVE  Awaits(i, waves'[k - 1])
    BY <1>3, Zenon DEF WavesAreEarliest, Awaits
  <2>1. CASE k \in 1 .. Len(waves)
    <3>1. k - 1 \in 1 .. Len(waves)
      BY <1>2, <2>1
    <3> QED
      BY <1>2, <2>1, <3>1 DEF EarliestInv, WavesAreEarliest, Awaits
  <2>2. CASE k = Len(waves) + 1
    <3>1. waves # <<>> /\ k - 1 = Len(waves) /\ Len(waves) \in 1 .. Len(waves)
      BY <1>2, <2>2
    <3>2. Awaits(i, LastWave)
      BY <1>2, <2>2, <3>1, Zenon DEF EarliestInv
    <3> QED
      BY <1>2, <3>1, <3>2, Zenon DEF LastWave
  <2> QED
    BY <1>2, <2>1, <2>2
<1> QED
  BY <1>1, <1>3, <1>4, <1>5, <1>6 DEF EarliestInv

LEMMA EarliestStep == SortInv /\ EarliestInv /\ [SortNext]_sortVars => EarliestInv'
<1> SUFFICES ASSUME SortInv, EarliestInv, [SortNext]_sortVars PROVE EarliestInv'
  BY Zenon
<1>1. CASE SeedBlocked \/ SortOk \/ SortErr \/ UNCHANGED sortVars
  BY <1>1, EarliestKept, Zenon DEF SeedBlocked, SortOk, SortErr, sortVars
<1>2. ASSUME NEW e \in rest, RelaxBlocked(e) PROVE EarliestInv'
  BY <1>2, EarliestKept, Zenon DEF RelaxBlocked
<1> QED
  BY <1>1, <1>2, EarliestSeed, EarliestBegin, EarliestPop, EarliestFreed, EarliestEnd, Zenon DEF SortNext

\* wave_sort_services puts no service in a later wave than its lists ask for: with
\* WavesRespectDeps, a service stands in exactly the wave that the longest chain of services
\* before it calls for.
THEOREM SortIsEager == SortSpec => []WavesAreEarliest
<1>1. EarliestInv => WavesAreEarliest
  BY Zenon DEF EarliestInv
<1> QED
  BY <1>1, SortInitInv, SortNextInv, EarliestInit, EarliestStep, PTL DEF SortSpec

-----------------------------------------------------------------------------
(* The manager *)


Early == {"bootstrap", "sort", "spawn", "join"}
Settled == {"none", "joined", "lost"}

MType ==
  /\ at \in Nat
  /\ thread \in [Node -> {"none", "starting", "returned", "joined", "lost"}]
  /\ supervisors \in Seq(Name)
  /\ job.op # "none" => job.svc \in Name
  /\ firing \in Units \cup {0} /\ chan \in Seq(Units)
  /\ disp.pc = "lock" => disp.unit \in Units

\* Nothing but boot happens before the control socket and the timers exist.
QuietBoot == main \in Early => mutex = "none" /\ disp.pc = "recv" /\ chan = <<>>

\* Where boot is, and what it has done by then.
Phase ==
  /\ main \in {"bootstrap", "sort"} => \A i \in Node : thread[i] = "none"
  /\ main = "bootstrap" =>
       /\ at \in 1 .. Len(Bootstrap) + 1 /\ Len(supervisors) = at - 1
       /\ \A k \in 1 .. at - 1 : supervisors[k] = Bootstrap[k]
  /\ main \in Early => \A k \in 1 .. Len(supervisors) :
       supervisors[k] \in BootNames \/ (supervisors[k] \in Node /\ thread[supervisors[k]] = "joined")
  /\ main \in {"spawn", "join"} => result = "ok" /\ at \in 1 .. Len(waves) + 1
  /\ main = "join" => at \in 1 .. Len(waves)
  /\ main \notin Early => \A i \in Node : thread[i] \in Settled

\* The threads are those of the waves up to this one, and the earlier ones are joined.
Threads ==
  /\ main \in {"spawn", "join"} => \A i \in Node : InWaves(i, at - 1) => thread[i] \in {"joined", "lost"}
  /\ main = "spawn" => \A i \in Node : thread[i] # "none" => InWaves(i, at - 1)
  /\ main = "join" => \A i \in Node : thread[i] # "none" => InWaves(i, at)

\* A joined service is listed.
JoinedListed ==
  \A i \in Node : thread[i] = "joined" => \E k \in 1 .. Len(supervisors) : supervisors[k] = i

BootInv == Phase /\ Threads /\ JoinedListed /\ BootOrder /\ OneSupervisorPerName /\ BootedInOrder

\* A late activation was the last one.
LateInv == late \in Nat /\ (late > 0 => late = 1 /\ shutdown /\ disp.pc # "lock")

MInv == SortInv /\ MType /\ QuietBoot /\ BootInv /\ LateInv
-----------------------------------------------------------------------------
\* A step that leaves boot, threads and list alone.
Frame ==
  /\ UNCHANGED <<sortVars, thread, supervisors>>
  /\ main \in Early => main' = main /\ at' = at
  /\ main \notin Early => main' \notin Early

FrameActions ==
  \/ StartTimers \/ LaunchDone \/ (\E l \in Launchers : Launch(l))
  \/ (\E k \in SignalKinds : Signal(k)) \/ Pause \/ CheckSpurious \/ CheckRequested
  \/ StopAllLock \/ StopAllStep \/ StopAllDone \/ Execute
  \/ (\E op \in Ops, s \in Name : CtlLock(op, s))
  \/ (\E k \in {"shutdown", "reboot"} : CtlShutdown(k))
  \/ StartListed \/ StartNewFails \/ Stop \/ RestartStop
  \/ (\E u \in Units : TimerCheck(u)) \/ TimerSend
  \/ DispExit \/ DispRecv \/ DispLock

BootActions ==
  \/ BootstrapStart \/ BootstrapDone \/ Sort \/ Sorted \/ SortFailed
  \/ (\E failed \in SUBSET Node : SpawnWave(failed))
  \/ (\E i \in Node : StartReturns(i) \/ StartPanics(i) \/ Join(i))
  \/ WaveComplete \/ WavesLaunched

LEMMA NextActions == Next => FrameActions \/ BootActions \/ StartNew
BY Zenon DEF Next, Boot, StartThreads, MainLoop, Holder, Dispatcher, Environment,
       FrameActions, BootActions

LEMMA FrameIsFrame == FrameActions => Frame
<1> USE DEF Frame, Early, bootVars
<1>1. StartTimers \/ LaunchDone \/ (\E l \in Launchers : Launch(l)) => Frame
  BY Zenon DEF StartTimers, LaunchDone, Launch
<1>2. (\E k \in SignalKinds : Signal(k)) => Frame
  BY Zenon DEF Signal, Wakes
<1>3. Pause \/ CheckSpurious \/ CheckRequested => Frame
  BY Zenon DEF Pause, CheckSpurious, CheckRequested
<1>4. StopAllLock \/ StopAllStep \/ StopAllDone \/ Execute => Frame
  BY Zenon DEF StopAllLock, StopAllStep, StopAllDone, Execute
<1>5. (\E op \in Ops, s \in Name : CtlLock(op, s)) => Frame
  BY Zenon DEF CtlLock
<1>6. (\E k \in {"shutdown", "reboot"} : CtlShutdown(k)) => Frame
  BY Zenon DEF CtlShutdown
<1>7. StartListed \/ StartNewFails \/ Stop \/ RestartStop => Frame
  BY Zenon DEF StartListed, StartNewFails, Stop, RestartStop
<1>8. (\E u \in Units : TimerCheck(u)) \/ TimerSend => Frame
  BY Zenon DEF TimerCheck, TimerSend
<1>9. DispExit \/ DispRecv \/ DispLock => Frame
  BY Zenon DEF DispExit, DispRecv, DispLock
<1> QED
  BY <1>1, <1>2, <1>3, <1>4, <1>5, <1>6, <1>7, <1>8, <1>9, Zenon
     DEF FrameActions

LEMMA FrameInv == BootInv /\ Frame => BootInv'
<1> SUFFICES ASSUME BootInv, Frame PROVE BootInv'
  BY Zenon
<1>1. UNCHANGED <<entries, waves, result, thread, supervisors>>
  BY Zenon DEF Frame, sortVars
<1>2. Phase'
  BY <1>1, Zenon DEF Frame, BootInv, Phase, Early
<1>3. Threads'
  BY <1>1, Zenon DEF Frame, BootInv, Threads, InWaves, Early
<1>4. JoinedListed' /\ BootOrder' /\ OneSupervisorPerName' /\ BootedInOrder'
  BY <1>1, Zenon DEF BootInv, JoinedListed, BootOrder, OneSupervisorPerName, BootedInOrder, Edges, Started
<1> QED
  BY <1>2, <1>3, <1>4, Zenon DEF BootInv

LEMMA SortPart == SortInv /\ Next => SortInv'
<1>1. FrameActions \/ StartNew => UNCHANGED sortVars
  BY FrameIsFrame, Zenon DEF Frame, StartNew
<1>2. BootActions => SortNext \/ UNCHANGED sortVars
  BY Zenon DEF BootActions, BootstrapStart, BootstrapDone, Sort, Sorted, SortFailed, SpawnWave,
         StartReturns, StartPanics, Join, WaveComplete, WavesLaunched
<1> QED
  BY <1>1, <1>2, NextActions, SortNextInv, Zenon
LEMMA ListFacts ==
  ASSUME MType
  PROVE  /\ Len(supervisors) \in Nat /\ DOMAIN supervisors = 1 .. Len(supervisors)
         /\ \A k \in 1 .. Len(supervisors) : supervisors[k] \in Name
BY DEF MType

LEMMA MInitInv == Init => MInv
<1> SUFFICES ASSUME Init PROVE MInv
  BY Zenon
<1> USE DEF Init
<1>1. SortInv
  BY SortInitInv, Zenon
<1>2. MType /\ QuietBoot /\ LateInv
  BY DEF MType, QuietBoot, LateInv, NoJob, Idle
<1>3. Phase /\ Threads
  BY DEF Phase, Threads, Early
<1>4. JoinedListed /\ OneSupervisorPerName /\ BootedInOrder
  BY DEF JoinedListed, OneSupervisorPerName, BootedInOrder
<1>5. BootOrder
  <2>1. \A e \in Edges : e.svc \in Node
    BY Zenon DEF Edges, Known
  <2>2. \A i \in Node : thread[i] = "none"
    BY Zenon
  <2> QED
    BY <2>1, <2>2, Zenon DEF BootOrder
<1> QED
  BY <1>1, <1>2, <1>3, <1>4, <1>5, Zenon DEF MInv, BootInv

LEMMA TypeNext == MType /\ Next => MType'
<1> SUFFICES ASSUME MType, Next PROVE MType'
  BY Zenon
<1> USE DEF MType, bootVars, jobVars, timerVars
<1>1. CASE BootstrapStart
  <2>1. Bootstrap[at] \in Name
    BY <1>1, ManagerAssumption, Zenon DEF BootstrapStart, BootNames
  <2> QED
    BY <1>1, <2>1 DEF BootstrapStart
<1>2. CASE BootstrapDone \/ Sort \/ Sorted \/ SortFailed \/ WaveComplete \/ WavesLaunched
  BY <1>2 DEF BootstrapDone, Sort, Sorted, SortFailed, WaveComplete, WavesLaunched
<1>3. ASSUME NEW failed \in SUBSET Node, SpawnWave(failed) PROVE MType'
  BY <1>3, Zenon DEF SpawnWave
<1>4. ASSUME NEW i \in Node, StartReturns(i) \/ StartPanics(i) PROVE MType'
  BY <1>4, Zenon DEF StartReturns, StartPanics
<1>5. ASSUME NEW i \in Node, Join(i) PROVE MType'
  <2>1. i \in Name
    BY SortAssumption
  <2>2. supervisors' \in Seq(Name)
    BY <1>5, <2>1 DEF Join
  <2>3. thread' \in [Node -> {"none", "starting", "returned", "joined", "lost"}]
    BY <1>5 DEF Join
  <2> QED
    BY <1>5, <2>2, <2>3 DEF Join
<1>6. CASE StartTimers \/ LaunchDone \/ (\E l \in Launchers : Launch(l))
  BY <1>6, Zenon DEF StartTimers, LaunchDone, Launch
<1>7. CASE (\E k \in SignalKinds : Signal(k)) \/ Pause \/ CheckSpurious \/ CheckRequested
  BY <1>7, Zenon DEF Signal, Pause, CheckSpurious, CheckRequested
<1>8. CASE StopAllLock \/ StopAllStep \/ StopAllDone \/ Execute
  BY <1>8 DEF StopAllLock, StopAllStep, StopAllDone, Execute
<1>9. ASSUME NEW op \in Ops, NEW n \in Name, CtlLock(op, n) PROVE MType'
  BY <1>9, Zenon DEF CtlLock
<1>10. CASE \E k \in {"shutdown", "reboot"} : CtlShutdown(k)
  BY <1>10, Zenon DEF CtlShutdown
<1>11. CASE StartListed \/ StartNewFails \/ Stop
  BY <1>11 DEF StartListed, StartNewFails, Stop, Release, NoJob, Idle
<1>12. CASE StartNew
  <2>1. job.svc \in Name
    BY <1>12, Zenon DEF StartNew, Busy
  <2> QED
    BY <1>12, <2>1 DEF StartNew, Release, NoJob, Idle
<1>13. CASE RestartStop
  BY <1>13 DEF RestartStop, Busy
<1>14. ASSUME NEW u \in Units, TimerCheck(u) PROVE MType'
  BY <1>14, Zenon DEF TimerCheck
<1>15. CASE TimerSend
  <2>1. firing \in Units /\ firing' = 0 /\ UNCHANGED <<job, disp, at, thread, supervisors>>
    BY <1>15, Zenon DEF TimerSend
  <2>2. chan' \in Seq(Units)
    BY <1>15, <2>1 DEF TimerSend
  <2> QED
    BY <2>1, <2>2, Zenon
<1>16. CASE DispExit \/ DispRecv
  <2>1. UNCHANGED <<job, firing, at, thread, supervisors>>
    BY <1>16, Zenon DEF DispExit, DispRecv
  <2>2. chan \in Seq(Units) /\ chan # <<>> /\ chan' = Tail(chan)
    BY <1>16, Zenon DEF DispExit, DispRecv
  <2>3. Head(chan) \in Units /\ chan' \in Seq(Units)
    BY <2>2
  <2>4. disp'.pc = "lock" => disp'.unit \in Units
    BY <1>16, <2>3 DEF DispExit, DispRecv
  <2> QED
    BY <2>1, <2>3, <2>4, Zenon
<1>17. CASE DispLock
  BY <1>17, ManagerAssumption DEF DispLock
<1> QED
  BY NextActions, <1>1, <1>2, <1>3, <1>4, <1>5, <1>6, <1>7, <1>8, <1>9, <1>10, <1>11, <1>12,
     <1>13, <1>14, <1>15, <1>16, <1>17, Zenon DEF FrameActions, BootActions

LEMMA QuietNext == QuietBoot /\ Next => QuietBoot'
<1> SUFFICES ASSUME QuietBoot, Next, main' \in Early PROVE QuietBoot'
  BY Zenon DEF QuietBoot
<1> USE DEF QuietBoot, Early, bootVars, jobVars, timerVars
<1>1. CASE BootActions
  BY <1>1 DEF BootActions, BootstrapStart, BootstrapDone, Sort, Sorted, SortFailed, SpawnWave,
              StartReturns, StartPanics, Join, WaveComplete, WavesLaunched
<1>2. CASE StartNew
  BY <1>2, Zenon DEF StartNew, Busy
<1>3. CASE FrameActions
  <2>1. main' = main /\ mutex = "none" /\ disp.pc = "recv" /\ chan = <<>>
    BY <1>3, FrameIsFrame, Zenon DEF Frame
  <2>2. CASE StartTimers \/ LaunchDone \/ (\E l \in Launchers : Launch(l))
    BY <2>1, <2>2, Zenon DEF StartTimers, LaunchDone, Launch
  <2>3. CASE (\E k \in SignalKinds : Signal(k)) \/ (\E k \in {"shutdown", "reboot"} : CtlShutdown(k))
    BY <2>1, <2>3, Zenon DEF Signal, CtlShutdown
  <2>4. CASE \/ Pause \/ CheckSpurious \/ CheckRequested \/ StopAllLock \/ StopAllStep
             \/ StopAllDone \/ Execute
    BY <2>1, <2>4 DEF Pause, CheckSpurious, CheckRequested, StopAllLock, StopAllStep,
                      StopAllDone, Execute
  <2>5. CASE (\E op \in Ops, s \in Name : CtlLock(op, s))
    BY <2>1, <2>5, Zenon DEF CtlLock, Serving
  <2>6. CASE StartListed \/ StartNewFails \/ Stop \/ RestartStop
    BY <2>1, <2>6, Zenon DEF StartListed, StartNewFails, Stop, RestartStop, Busy
  <2>7. CASE (\E u \in Units : TimerCheck(u)) \/ TimerSend
    BY <2>1, <2>7, Zenon DEF TimerCheck, TimerSend, TimersRun, Serving
  <2>8. CASE DispExit \/ DispRecv \/ DispLock
    BY <2>1, <2>8, Zenon DEF DispExit, DispRecv, DispLock
  <2> QED
    BY <1>3, <2>2, <2>3, <2>4, <2>5, <2>6, <2>7, <2>8, Zenon DEF FrameActions
<1> QED
  BY <1>1, <1>2, <1>3, NextActions, Zenon

LEMMA LateNext == LateInv /\ Next => LateInv'
<1> SUFFICES ASSUME LateInv, Next PROVE LateInv'
  BY Zenon
<1> USE DEF LateInv, timerVars, flagVars
<1>1. CASE BootActions
  BY <1>1 DEF BootActions, BootstrapStart, BootstrapDone, Sort, Sorted, SortFailed, SpawnWave,
              StartReturns, StartPanics, Join, WaveComplete, WavesLaunched
<1>2. CASE StartTimers \/ LaunchDone \/ (\E l \in Launchers : Launch(l))
  BY <1>2, Zenon DEF StartTimers, LaunchDone, Launch
<1>3. CASE (\E k \in SignalKinds : Signal(k)) \/ (\E k \in {"shutdown", "reboot"} : CtlShutdown(k))
  <2>1. UNCHANGED <<late, disp>> /\ (shutdown => shutdown')
    BY <1>3, Zenon DEF Signal, CtlShutdown
  <2> QED
    BY <2>1, Zenon
<1>4. CASE \/ Pause \/ CheckSpurious \/ CheckRequested \/ StopAllLock \/ StopAllStep
           \/ StopAllDone \/ Execute
  BY <1>4, Zenon DEF Pause, CheckSpurious, CheckRequested, StopAllLock, StopAllStep, StopAllDone, Execute
<1>5. CASE (\E op \in Ops, s \in Name : CtlLock(op, s)) \/ RestartStop
  BY <1>5, Zenon DEF CtlLock, RestartStop
<1>6. CASE StartListed \/ StartNewFails \/ Stop \/ StartNew
  BY <1>6 DEF StartListed, StartNewFails, Stop, StartNew, Release, Idle
<1>7. CASE (\E u \in Units : TimerCheck(u)) \/ TimerSend
  BY <1>7, Zenon DEF TimerCheck, TimerSend
<1>8. CASE DispExit \/ DispRecv
  BY <1>8 DEF DispExit, DispRecv
<1>9. CASE DispLock
  <2>1. late = 0 /\ late' \in {0, 1} /\ (late' = 1 => shutdown) /\ shutdown' = shutdown
    BY <1>9 DEF DispLock
  <2>2. disp' = [disp EXCEPT !.pc = "start"]
    BY <1>9, Zenon DEF DispLock
  <2>3. late' = 1 => disp'.pc # "lock"
    BY <2>2
  <2> QED
    BY <2>1, <2>3
<1> QED
  BY NextActions, <1>1, <1>2, <1>3, <1>4, <1>5, <1>6, <1>7, <1>8, <1>9, Zenon
     DEF FrameActions
-----------------------------------------------------------------------------
(* Boot, action by action.                                                 *)

LEMMA BootstrapStartInv == MInv /\ BootstrapStart => BootInv'
<1> SUFFICES ASSUME MInv, BootstrapStart PROVE BootInv'
  BY Zenon
<1> USE DEF MInv, BootInv
<1> DEFINE b == Bootstrap[at]
<1>1. /\ main = "bootstrap" /\ main' = main /\ at \in 1 .. Len(Bootstrap) /\ at' = at + 1
      /\ supervisors' = Append(supervisors, b) /\ UNCHANGED <<sortVars, thread>>
  BY DEF BootstrapStart
<1>2. b \in BootNames /\ b \in Name /\ b \notin Node
  BY <1>1, ManagerAssumption DEF BootNames
<1>3. supervisors \in Seq(Name) /\ Len(supervisors) = at - 1
      /\ \A k \in 1 .. at - 1 : supervisors[k] = Bootstrap[k]
  BY <1>1, Zenon DEF MType, Phase
<1>4. /\ Len(supervisors') = at
      /\ \A k \in 1 .. at : supervisors'[k] = Bootstrap[k]
  <2>1. Len(supervisors') = Len(supervisors) + 1 /\ supervisors'[Len(supervisors) + 1] = b
        /\ \A k \in 1 .. Len(supervisors) : supervisors'[k] = supervisors[k]
    BY <1>1, <1>2, <1>3, AppendFacts
  <2> QED
    BY <1>1, <1>3, <2>1
<1>5. \A i \in Node : thread[i] = "none"
  BY <1>1, Zenon DEF Phase
<1>6. DOMAIN supervisors' = 1 .. at
  BY <1>1, <1>2, <1>3, <1>4
<1>7. Phase'
  <2>1. \A k \in 1 .. at : supervisors'[k] \in BootNames
    <3> SUFFICES ASSUME NEW k \in 1 .. at PROVE supervisors'[k] \in BootNames
      BY Zenon
    <3>1. supervisors'[k] = Bootstrap[k]
      BY <1>4, Zenon
    <3>2. DOMAIN Bootstrap = 1 .. Len(Bootstrap) /\ Len(Bootstrap) \in Nat
      OBVIOUS
    <3>3. k \in DOMAIN Bootstrap
      BY <1>1, <3>2
    <3> QED
      BY <3>1, <3>3, Zenon DEF BootNames
  <2> QED
    BY <1>1, <1>4, <1>5, <2>1 DEF Phase, Early
<1>8. Threads' /\ JoinedListed'
  BY <1>1, <1>5, Zenon DEF Threads, JoinedListed
<1>9. BootOrder' /\ BootedInOrder'
  BY <1>1, <1>5, Zenon DEF BootOrder, BootedInOrder, sortVars, Edges, Known
<1>10. OneSupervisorPerName'
  <2>1. DOMAIN Bootstrap = 1 .. Len(Bootstrap) /\ Len(Bootstrap) \in Nat /\ at \in Nat
    BY DEF MType
  <2>2. \A k \in 1 .. at : k \in DOMAIN Bootstrap
    BY <1>1, <2>1
  <2> SUFFICES ASSUME NEW i \in 1 .. at, NEW j \in 1 .. at, supervisors'[i] = supervisors'[j]
               PROVE  i = j
    BY <1>6, Zenon DEF OneSupervisorPerName
  <2>3. Bootstrap[i] = Bootstrap[j]
    BY <1>4, Zenon
  <2> QED
    BY <2>2, <2>3, ManagerAssumption, Zenon
<1> QED
  BY <1>7, <1>8, <1>9, <1>10, Zenon

\* The steps between the phases touch neither the threads nor the list.
LEMMA PhaseStepInv ==
  MInv /\ (BootstrapDone \/ Sorted \/ SortFailed \/ WavesLaunched) => BootInv'
<1> SUFFICES ASSUME MInv, BootstrapDone \/ Sorted \/ SortFailed \/ WavesLaunched PROVE BootInv'
  BY Zenon
<1> USE DEF MInv, BootInv
<1>1. UNCHANGED <<sortVars, thread, supervisors>>
  BY Zenon DEF BootstrapDone, Sorted, SortFailed, WavesLaunched, bootVars
<1>2. JoinedListed' /\ BootOrder' /\ OneSupervisorPerName' /\ BootedInOrder'
  BY <1>1 DEF JoinedListed, BootOrder, OneSupervisorPerName, BootedInOrder, sortVars, Edges, Known,
              Started
<1>3. UNCHANGED <<waves, result>>
  BY <1>1, Zenon DEF sortVars
<1>4. Len(waves) \in Nat /\ DOMAIN waves = 1 .. Len(waves)
  BY DEF SortInv, SortType
<1>5. CASE BootstrapDone
  <2>1. main = "bootstrap" /\ main' = "sort"
    BY <1>5, Zenon DEF BootstrapDone
  <2> QED
    BY <1>1, <1>2, <2>1, Zenon DEF Phase, Threads, Early
<1>6. CASE Sorted
  <2>1. main = "sort" /\ main' = "spawn" /\ at' = 1 /\ result = "ok"
    BY <1>6, Zenon DEF Sorted
  <2>2. \A i \in Node : thread[i] = "none"
    BY <2>1, Zenon DEF Phase
  <2>3. Threads'
    <3>1. \A i \in Node : ~InWaves(i, at - 1)'
      BY <2>1 DEF InWaves
    <3>2. \A i \in Node : thread'[i] = "none"
      BY <1>1, <2>2, Zenon
    <3> QED
      BY <2>1, <3>1, <3>2, Zenon DEF Threads
  <2> QED
    BY <1>1, <1>2, <1>3, <1>4, <2>1, <2>2, <2>3 DEF Phase, Early
<1>7. CASE SortFailed
  <2>1. main = "sort" /\ main' = "serve"
    BY <1>7, Zenon DEF SortFailed
  <2> QED
    BY <1>1, <1>2, <2>1, Zenon DEF Phase, Threads, Early, Settled
<1>8. CASE WavesLaunched
  <2>1. main = "spawn" /\ main' = "serve"
    BY <1>8, Zenon DEF WavesLaunched
  <2>2. \A i \in Node : thread[i] \in Settled
    BY <2>1, Zenon DEF Threads, Settled
  <2> QED
    BY <1>1, <1>2, <2>1, <2>2, Zenon DEF Phase, Threads, Early, Settled
<1> QED
  BY <1>5, <1>6, <1>7, <1>8, Zenon

LEMMA SortStepInv == MInv /\ Sort => BootInv'
<1> SUFFICES ASSUME MInv, Sort PROVE BootInv'
  BY Zenon
<1> USE DEF MInv, BootInv
<1>1. main = "sort" /\ UNCHANGED <<main, at, thread, supervisors>>
  BY Zenon DEF Sort, bootVars
<1>2. \A i \in Node : thread[i] = "none"
  BY <1>1, Zenon DEF Phase
<1>3. Phase'
  BY <1>1, <1>2, Zenon DEF Phase, Early
<1>4. Threads' /\ JoinedListed' /\ OneSupervisorPerName'
  BY <1>1, <1>2, Zenon DEF Threads, JoinedListed, OneSupervisorPerName
<1>5. BootOrder' /\ BootedInOrder'
  BY <1>1, <1>2, Zenon DEF BootOrder, BootedInOrder, Edges, Known
<1> QED
  BY <1>3, <1>4, <1>5, Zenon

\* Threads are only spawned for a wave whose dependencies lie in joined waves.
LEMMA SpawnWaveInv ==
  ASSUME MInv, NEW failed \in SUBSET Node, SpawnWave(failed)
  PROVE  BootInv'
<1> USE DEF MInv, BootInv
<1>1. /\ main = "spawn" /\ main' = "join" /\ at' = at /\ UNCHANGED <<sortVars, supervisors>>
      /\ at \in DOMAIN waves /\ failed \subseteq waves[at]
      /\ thread' = [i \in Node |-> IF i \in failed THEN "lost"
                                   ELSE IF i \in waves[at] THEN "starting" ELSE thread[i]]
  BY Zenon DEF SpawnWave
<1>2. DOMAIN waves = 1 .. Len(waves) /\ Len(waves) \in Nat /\ at \in 1 .. Len(waves)
  BY <1>1 DEF SortInv, SortType
<1>3. UNCHANGED <<entries, waves, result>>
  BY <1>1, Zenon DEF sortVars
<1>4. \A i \in Node : i \in waves[at] => ~InWaves(i, at - 1) /\ thread[i] = "none"
  <2>1. \A i \in Node : i \in waves[at] => ~InWaves(i, at - 1)
    BY <1>2 DEF SortInv, DisjointInv, InWaves
  <2> QED
    BY <1>1, <2>1, Zenon DEF Threads
<1>5. \A i \in Node : thread[i] # "none" => thread'[i] = thread[i] /\ thread[i] \in {"joined", "lost"}
  BY <1>1, <1>4, Zenon DEF Threads
<1>6. \A i \in Node : thread'[i] # "none" => i \in waves[at] \/ thread[i] # "none"
  BY <1>1, Zenon
<1>7. \A i \in Node : thread'[i] = "joined" <=> thread[i] = "joined"
  BY <1>1, <1>4, Zenon
<1>8. Phase'
  <2>1. \A k \in 1 .. Len(supervisors) :
          supervisors[k] \in BootNames \/ (supervisors[k] \in Node /\ thread'[supervisors[k]] = "joined")
    BY <1>1, <1>7, Zenon DEF Phase, Early
  <2> QED
    BY <1>1, <1>2, <1>3, <2>1, Zenon DEF Phase, Early
<1>9. Threads'
  <2>1. \A i \in Node : InWaves(i, at - 1) => thread'[i] \in {"joined", "lost"}
    BY <1>1, <1>5, Zenon DEF Threads
  <2>2. \A i \in Node : thread'[i] # "none" => InWaves(i, at)
    BY <1>1, <1>2, <1>6 DEF Threads, InWaves
  <2>3. \A i, k : InWaves(i, k)' <=> InWaves(i, k)
    BY <1>3, Zenon DEF InWaves
  <2> QED
    BY <1>1, <2>1, <2>2, <2>3, Zenon DEF Threads
<1>10. JoinedListed' /\ OneSupervisorPerName'
  BY <1>1, <1>7, Zenon DEF JoinedListed, OneSupervisorPerName
<1>11. BootedInOrder'
  BY <1>1, <1>3, <1>7, Zenon DEF BootedInOrder, Edges, Known
<1>12. BootOrder'
  <2> SUFFICES ASSUME NEW e \in Edges, thread'[e.svc] # "none"
               PROVE  thread'[e.dep] \in {"returned", "joined", "lost"}
    BY <1>3, Zenon DEF BootOrder, Edges, Known, Started
  <2>1. e.svc \in Node /\ e.dep \in Node
    BY Zenon DEF Edges, Known
  <2>2. CASE e.svc \in waves[at]
    <3>1. InWaves(e.dep, at - 1)
      BY <1>1, <2>2, Zenon DEF SortInv, WavesRespectDeps
    <3>2. thread[e.dep] \in {"joined", "lost"}
      BY <1>1, <2>1, <3>1, Zenon DEF Threads
    <3> QED
      BY <1>5, <2>1, <3>2, Zenon
  <2>3. CASE thread[e.svc] # "none"
    <3>1. thread[e.dep] \in {"returned", "joined", "lost"}
      BY <2>3, Zenon DEF BootOrder, Started
    <3> QED
      BY <1>5, <2>1, <3>1, Zenon
  <2> QED
    BY <1>6, <2>1, <2>2, <2>3, Zenon
<1> QED
  BY <1>8, <1>9, <1>10, <1>11, <1>12, Zenon

\* What Phase and Threads come to while the threads of a wave are joined.
FromBoot(s) == s \in BootNames \/ (s \in Node /\ thread[s] = "joined")

Joining ==
  /\ result = "ok" /\ at \in 1 .. Len(waves)
  /\ \A k \in 1 .. Len(supervisors) : FromBoot(supervisors[k])
  /\ \A i \in Node : InWaves(i, at - 1) => thread[i] \in {"joined", "lost"}
  /\ \A i \in Node : thread[i] # "none" => InWaves(i, at)

LEMMA JoiningNow == BootInv /\ main = "join" => Joining
<1> SUFFICES ASSUME BootInv, main = "join" PROVE Joining
  BY Zenon
<1>1. Phase /\ Threads
  BY Zenon DEF BootInv
<1>2. result = "ok" /\ at \in 1 .. Len(waves)
  BY <1>1, Zenon DEF Phase
<1>3. \A k \in 1 .. Len(supervisors) : FromBoot(supervisors[k])
  BY <1>1, Zenon DEF Phase, Early, FromBoot
<1>4. /\ \A i \in Node : InWaves(i, at - 1) => thread[i] \in {"joined", "lost"}
      /\ \A i \in Node : thread[i] # "none" => InWaves(i, at)
  BY <1>1, Zenon DEF Threads
<1> QED
  BY <1>2, <1>3, <1>4, Zenon DEF Joining

LEMMA JoiningNext ==
  ASSUME main' = "join", Len(waves') \in Nat, Joining'
  PROVE  Phase' /\ Threads'
<1>1. /\ result' = "ok" /\ at' \in 1 .. Len(waves')
      /\ \A k \in 1 .. Len(supervisors') : FromBoot(supervisors[k])'
  BY Zenon DEF Joining
<1>2. /\ \A i \in Node : InWaves(i, at - 1)' => thread'[i] \in {"joined", "lost"}
      /\ \A i \in Node : thread'[i] # "none" => InWaves(i, at)'
  BY Zenon DEF Joining
<1>3. Threads'
  BY <1>2, Zenon DEF Threads
<1>4. at' \in 1 .. Len(waves') + 1
  BY <1>1
<1>5. Phase'
  BY <1>1, <1>4, Zenon DEF Phase, Early, FromBoot
<1> QED
  BY <1>3, <1>5, Zenon

\* start() returns or panics: the thread was spawned, and nothing waits less than before.
LEMMA StartEndsInv ==
  ASSUME MInv, NEW i \in Node, StartReturns(i) \/ StartPanics(i)
  PROVE  BootInv'
<1>1. PICK v \in {"returned", "lost"} : thread' = [thread EXCEPT ![i] = v]
  BY Zenon DEF StartReturns, StartPanics
<1>2. thread[i] = "starting" /\ UNCHANGED <<sortVars, main, at, supervisors>>
  BY Zenon DEF StartReturns, StartPanics
<1>3. UNCHANGED <<entries, waves, result>> /\ Len(waves') \in Nat
  BY <1>2 DEF sortVars, MInv, SortInv, SortType
<1>4. thread \in [Node -> {"none", "starting", "returned", "joined", "lost"}]
  BY Zenon DEF MInv, MType
<1>5. /\ \A j \in Node : j # i => thread'[j] = thread[j]
      /\ \A j \in Node : thread'[j] = "joined" <=> thread[j] = "joined"
      /\ \A j \in Node : thread'[j] = "none" <=> thread[j] = "none"
      /\ \A j \in Node : thread[j] \in {"returned", "joined", "lost"}
                         => thread'[j] \in {"returned", "joined", "lost"}
  BY <1>1, <1>2, <1>4, Zenon
<1>6. main = "join"
  <2>1. main \in {"spawn", "join"}
    BY <1>2, Zenon DEF MInv, BootInv, Phase, Settled, Early
  <2>2. main = "spawn" => thread[i] \in {"joined", "lost"}
    BY <1>2, Zenon DEF MInv, BootInv, Threads
  <2> QED
    BY <1>2, <2>1, <2>2, Zenon
<1>7. Joining
  BY <1>6, JoiningNow, Zenon DEF MInv
<1>8. Phase' /\ Threads'
  <2>1. \A s : FromBoot(s)' <=> FromBoot(s)
    BY <1>5, Zenon DEF FromBoot
  <2>2. \A j, k : InWaves(j, k)' <=> InWaves(j, k)
    BY <1>3, Zenon DEF InWaves
  <2>3. \A j \in Node : InWaves(j, at - 1) => j # i
    BY <1>2, <1>7, Zenon DEF Joining
  <2>4. \A j \in Node : InWaves(j, at - 1) => thread'[j] \in {"joined", "lost"}
    BY <1>5, <1>7, <2>3, Zenon DEF Joining
  <2>5. \A j \in Node : thread'[j] # "none" => InWaves(j, at)
    BY <1>5, <1>7, Zenon DEF Joining
  <2>6. Joining'
    BY <1>2, <1>3, <1>7, <2>1, <2>2, <2>4, <2>5, Zenon DEF Joining
  <2> QED
    BY <1>2, <1>3, <1>6, <2>6, JoiningNext, Zenon
<1>9. Edges' = Edges /\ \A e \in Edges : e.svc \in Node /\ e.dep \in Node
  BY <1>3, Zenon DEF Edges, Known
<1>10. JoinedListed'
  BY <1>2, <1>5, Zenon DEF MInv, BootInv, JoinedListed
<1>11. OneSupervisorPerName'
  BY <1>2, Zenon DEF MInv, BootInv, OneSupervisorPerName
<1>12. BootedInOrder'
  <2>1. BootedInOrder
    BY Zenon DEF MInv, BootInv
  <2>2. \A e \in Edges : /\ thread'[e.svc] = "joined" <=> thread[e.svc] = "joined"
                         /\ thread'[e.dep] = "joined" <=> thread[e.dep] = "joined"
    BY <1>5, <1>9, Zenon
  <2> QED
    BY <1>2, <1>9, <2>1, <2>2, Zenon DEF BootedInOrder
<1>13. BootOrder'
  <2>1. BootOrder
    BY Zenon DEF MInv, BootInv
  <2> SUFFICES ASSUME NEW e \in Edges, thread'[e.svc] # "none"
               PROVE  thread'[e.dep] \in {"returned", "joined", "lost"}
    BY <1>9, Zenon DEF BootOrder, Started
  <2>2. thread[e.dep] \in {"returned", "joined", "lost"}
    BY <1>5, <1>9, <2>1, Zenon DEF BootOrder, Started
  <2> QED
    BY <1>5, <1>9, <2>2, Zenon
<1> QED
  BY <1>8, <1>10, <1>11, <1>12, <1>13, Zenon DEF BootInv

\* The list grows by a supervisor whose name is not in it.
LEMMA AppendList ==
  ASSUME MType, OneSupervisorPerName, NEW s \in Name, s \notin Listed,
         supervisors' = Append(supervisors, s)
  PROVE  /\ OneSupervisorPerName'
         /\ DOMAIN supervisors' = 1 .. Len(supervisors) + 1
         /\ Len(supervisors') = Len(supervisors) + 1
         /\ \A k \in 1 .. Len(supervisors) : supervisors'[k] = supervisors[k] /\ supervisors[k] # s
         /\ supervisors'[Len(supervisors) + 1] = s
<1>1. /\ Len(supervisors) \in Nat /\ DOMAIN supervisors = 1 .. Len(supervisors)
      /\ supervisors \in Seq(Name)
  BY DEF MType
<1>2. /\ Len(supervisors') = Len(supervisors) + 1 /\ DOMAIN supervisors' = 1 .. Len(supervisors) + 1
      /\ supervisors'[Len(supervisors) + 1] = s
      /\ \A k \in 1 .. Len(supervisors) : supervisors'[k] = supervisors[k]
  BY <1>1
<1>3. \A k \in 1 .. Len(supervisors) : supervisors[k] # s
  BY <1>1, Zenon DEF Listed
<1>4. OneSupervisorPerName'
  <2> SUFFICES ASSUME NEW i \in 1 .. Len(supervisors) + 1, NEW j \in 1 .. Len(supervisors) + 1,
                      supervisors'[i] = supervisors'[j]
               PROVE  i = j
    BY <1>2, Zenon DEF OneSupervisorPerName
  <2>1. CASE i = Len(supervisors) + 1
    BY <1>1, <1>2, <1>3, <2>1
  <2>2. CASE j = Len(supervisors) + 1
    BY <1>1, <1>2, <1>3, <2>2
  <2>3. CASE i \in 1 .. Len(supervisors) /\ j \in 1 .. Len(supervisors)
    BY <1>1, <1>2, <2>3, Zenon DEF OneSupervisorPerName
  <2> QED
    BY <1>1, <2>1, <2>2, <2>3
<1> QED
  BY <1>2, <1>3, <1>4, Zenon

\* A joined service goes to the end of the list, behind everything it is ordered after;
\* what is ordered after it is in a later wave and not listed yet.
LEMMA JoinInv ==
  ASSUME MInv, NEW i \in Node, Join(i)
  PROVE  BootInv'
<1>1. /\ main = "join" /\ i \in waves[at] /\ thread[i] = "returned"
      /\ supervisors' = Append(supervisors, i) /\ thread' = [thread EXCEPT ![i] = "joined"]
      /\ UNCHANGED <<sortVars, main, at>>
  BY Zenon DEF Join
<1>2. UNCHANGED <<entries, waves, result>> /\ Len(waves') \in Nat
  BY <1>1 DEF sortVars, MInv, SortInv, SortType
<1>3. thread \in [Node -> {"none", "starting", "returned", "joined", "lost"}]
  BY Zenon DEF MInv, MType
<1>4. thread'[i] = "joined" /\ \A j \in Node : j # i => thread'[j] = thread[j]
  BY <1>1, <1>3, Zenon
<1>5. Joining
  BY <1>1, JoiningNow, Zenon DEF MInv
<1>6. /\ OneSupervisorPerName' /\ DOMAIN supervisors' = 1 .. Len(supervisors) + 1
      /\ Len(supervisors') = Len(supervisors) + 1 /\ Len(supervisors) \in Nat
      /\ \A k \in 1 .. Len(supervisors) : supervisors'[k] = supervisors[k] /\ supervisors[k] # i
      /\ supervisors'[Len(supervisors) + 1] = i
  <2>1. MType /\ OneSupervisorPerName
    BY Zenon DEF MInv, BootInv
  <2>2. ~FromBoot(i)
    BY <1>1, ManagerAssumption, Zenon DEF FromBoot
  <2>3. i \notin Listed
    BY <1>5, <2>1, <2>2, ListFacts, Zenon DEF Listed, Joining
  <2>4. i \in Name
    BY SortAssumption, Zenon
  <2> QED
    BY <1>1, <2>1, <2>3, <2>4, AppendList, ListFacts, Zenon
<1>7. Phase' /\ Threads'
  <2>1. \A s : FromBoot(s) => FromBoot(s)'
    BY <1>4, Zenon DEF FromBoot
  <2>2. FromBoot(i)'
    BY <1>4, Zenon DEF FromBoot
  <2>3. ASSUME NEW k \in 1 .. Len(supervisors') PROVE FromBoot(supervisors[k])'
    <3>1. CASE k = Len(supervisors) + 1
      BY <1>6, <2>2, <3>1, Zenon DEF FromBoot
    <3>2. CASE k \in 1 .. Len(supervisors)
      <4>1. FromBoot(supervisors[k]) /\ supervisors'[k] = supervisors[k]
        BY <1>5, <1>6, <3>2, Zenon DEF Joining
      <4> QED
        BY <1>4, <4>1, Zenon DEF FromBoot
    <3> QED
      BY <1>6, <3>1, <3>2
  <2>4. \A j, k : InWaves(j, k)' <=> InWaves(j, k)
    BY <1>2, Zenon DEF InWaves
  <2>5. \A j \in Node : InWaves(j, at - 1) => thread'[j] \in {"joined", "lost"}
    BY <1>4, <1>5, Zenon DEF Joining
  <2>6. \A j \in Node : thread'[j] # "none" => InWaves(j, at)
    <3>1. thread[i] # "none"
      BY <1>1, Zenon
    <3> QED
      BY <1>4, <1>5, <3>1, Zenon DEF Joining
  <2>7. Joining'
    BY <1>1, <1>2, <1>5, <2>3, <2>4, <2>5, <2>6, Zenon DEF Joining
  <2> QED
    BY <1>1, <1>2, <2>7, JoiningNext, Zenon
<1>8. Edges' = Edges /\ \A e \in Edges : e.svc \in Node /\ e.dep \in Node
  BY <1>2, Zenon DEF Edges, Known
<1>9. JoinedListed'
  <2>1. JoinedListed
    BY Zenon DEF MInv, BootInv
  <2> SUFFICES ASSUME NEW j \in Node, thread'[j] = "joined"
               PROVE  \E k \in 1 .. Len(supervisors) + 1 : supervisors'[k] = j
    BY <1>6, Zenon DEF JoinedListed
  <2>2. CASE j = i
    BY <1>6, <2>2
  <2>3. CASE j # i
    <3>1. PICK k \in 1 .. Len(supervisors) : supervisors[k] = j
      BY <1>4, <2>1, <2>3, Zenon DEF JoinedListed
    <3> QED
      BY <1>6, <3>1
  <2> QED
    BY <2>2, <2>3, Zenon
<1>10. BootOrder'
  <2>1. BootOrder
    BY Zenon DEF MInv, BootInv
  <2> SUFFICES ASSUME NEW e \in Edges, thread'[e.svc] # "none"
               PROVE  thread'[e.dep] \in {"returned", "joined", "lost"}
    BY <1>8, Zenon DEF BootOrder, Started
  <2>2. thread[e.svc] # "none"
    BY <1>1, <1>4, <1>8, Zenon
  <2>3. thread[e.dep] \in {"returned", "joined", "lost"}
    BY <2>1, <2>2, Zenon DEF BootOrder, Started
  <2> QED
    BY <1>4, <1>8, <2>3, Zenon
<1>11. BootedInOrder'
  <2> SUFFICES ASSUME NEW e \in Edges, NEW k \in 1 .. Len(supervisors) + 1,
                      NEW l \in 1 .. Len(supervisors) + 1,
                      thread'[e.svc] = "joined", thread'[e.dep] = "joined",
                      supervisors'[k] = e.dep, supervisors'[l] = e.svc
               PROVE  k < l
    BY <1>6, <1>8, Zenon DEF BootedInOrder
  <2>1. e.svc \in Node /\ e.dep \in Node
    BY <1>8, Zenon
  <2>2. DOMAIN waves = 1 .. Len(waves) /\ Len(waves) \in Nat /\ at \in 1 .. Len(waves)
    <3>1. at \in 1 .. Len(waves)
      BY <1>5, Zenon DEF Joining
    <3>2. DOMAIN waves = 1 .. Len(waves) /\ Len(waves) \in Nat
      BY DEF MInv, SortInv, SortType
    <3> QED
      BY <3>1, <3>2, Zenon
  <2>3. e.dep # i \/ thread[e.svc] = "none"
    <3> SUFFICES ASSUME e.dep = i, thread[e.svc] # "none" PROVE FALSE
      BY Zenon
    <3>1. InWaves(e.svc, at)
      BY <1>5, <2>1, Zenon DEF Joining
    <3>2. PICK m \in 1 .. at : e.svc \in waves[m]
      BY <3>1, Zenon DEF InWaves
    <3>3. InWaves(e.dep, m - 1)
      <4>1. m \in DOMAIN waves
        BY <2>2
      <4>2. WavesRespectDeps
        BY Zenon DEF MInv, SortInv
      <4> QED
        BY <3>2, <4>1, <4>2, Zenon DEF WavesRespectDeps
    <3>4. PICK n \in 1 .. m - 1 : i \in waves[n]
      BY <3>3, Zenon DEF InWaves
    <3>5. n \in DOMAIN waves /\ at \in DOMAIN waves /\ n # at
      BY <2>2, <3>2, <3>4
    <3> QED
      BY <1>1, <3>4, <3>5, Zenon DEF MInv, SortInv, DisjointInv
  <2>4. e.dep # i
    <3>1. e.dep = i => e.svc = i
      BY <1>4, <2>1, <2>3, Zenon
    <3>2. e.dep = i => thread[e.svc] = "none"
      BY <2>3, Zenon
    <3> QED
      BY <1>1, <3>1, <3>2, Zenon
  <2>5. k \in 1 .. Len(supervisors) /\ supervisors[k] = e.dep
    BY <1>6, <2>4
  <2>6. CASE l = Len(supervisors) + 1
    BY <1>6, <2>5, <2>6
  <2>7. CASE l \in 1 .. Len(supervisors)
    <3>1. supervisors[l] = e.svc /\ e.svc # i
      BY <1>6, <2>7, Zenon
    <3>2. thread[e.svc] = "joined" /\ thread[e.dep] = "joined"
      BY <1>4, <2>1, <2>4, <3>1, Zenon
    <3> QED
      <4>1. BootedInOrder /\ MType
        BY Zenon DEF MInv, BootInv
      <4>2. DOMAIN supervisors = 1 .. Len(supervisors)
        BY <4>1, ListFacts, Zenon
      <4> QED
        BY <2>5, <2>7, <3>1, <3>2, <4>1, <4>2, Zenon DEF BootedInOrder
  <2> QED
    BY <1>6, <2>6, <2>7
<1> QED
  BY <1>6, <1>7, <1>9, <1>10, <1>11, Zenon DEF BootInv

LEMMA WaveCompleteInv == MInv /\ WaveComplete => BootInv'
<1> SUFFICES ASSUME MInv, WaveComplete PROVE BootInv'
  BY Zenon
<1>1. /\ main = "join" /\ main' = "spawn" /\ at' = at + 1
      /\ \A i \in waves[at] : thread[i] \in {"joined", "lost"}
      /\ UNCHANGED <<sortVars, thread, supervisors>>
  BY Zenon DEF WaveComplete
<1>2. UNCHANGED <<entries, waves, result>> /\ Len(waves) \in Nat
  BY <1>1 DEF sortVars, MInv, SortInv, SortType
<1>3. Joining
  BY <1>1, JoiningNow, Zenon DEF MInv
<1>4. at \in 1 .. Len(waves) /\ at' \in 1 .. Len(waves) + 1 /\ at' - 1 = at
  BY <1>1, <1>2, <1>3 DEF Joining
<1>5. Edges' = Edges
  BY <1>2, Zenon DEF Edges, Known
<1>6. JoinedListed' /\ OneSupervisorPerName'
  BY <1>1, Zenon DEF MInv, BootInv, JoinedListed, OneSupervisorPerName
<1>7. BootOrder' /\ BootedInOrder'
  BY <1>1, <1>5, Zenon DEF MInv, BootInv, BootOrder, BootedInOrder, Started
<1>8. Phase'
  <2>1. \A k \in 1 .. Len(supervisors) : FromBoot(supervisors[k])
    BY <1>3, Zenon DEF Joining
  <2>2. result = "ok"
    BY <1>3, Zenon DEF Joining
  <2> QED
    BY <1>1, <1>2, <1>4, <2>1, <2>2, Zenon DEF Phase, Early, FromBoot
<1>9. Threads'
  <2>1. \A i \in Node : InWaves(i, at) => InWaves(i, at - 1) \/ i \in waves[at]
    BY <1>4 DEF InWaves
  <2>2. \A i \in Node : InWaves(i, at) => thread[i] \in {"joined", "lost"}
    BY <1>1, <1>3, <2>1, Zenon DEF Joining
  <2>3. \A i \in Node : thread[i] # "none" => InWaves(i, at)
    BY <1>3, Zenon DEF Joining
  <2>4. \A i \in Node : InWaves(i, at - 1)' <=> InWaves(i, at)
    BY <1>2, <1>4, Zenon DEF InWaves
  <2> QED
    BY <1>1, <2>2, <2>3, <2>4, Zenon DEF Threads
<1> QED
  BY <1>6, <1>7, <1>8, <1>9, Zenon DEF BootInv

\* A start on demand appends a service that is not listed, hence none that boot has joined.
LEMMA StartNewInv == MInv /\ StartNew => BootInv'
<1> SUFFICES ASSUME MInv, StartNew PROVE BootInv'
  BY Zenon
<1> DEFINE s == job.svc
<1>1. /\ s \notin Listed /\ supervisors' = Append(supervisors, s) /\ mutex # "none"
      /\ job.op = "start" /\ UNCHANGED <<sortVars, main, at, thread>>
  BY Zenon DEF StartNew, Busy, bootVars
<1>2. s \in Name
  BY <1>1, Zenon DEF MInv, MType
<1>3. main \notin Early
  BY <1>1, Zenon DEF MInv, QuietBoot
<1>4. /\ OneSupervisorPerName' /\ DOMAIN supervisors' = 1 .. Len(supervisors) + 1
      /\ Len(supervisors') = Len(supervisors) + 1 /\ Len(supervisors) \in Nat
      /\ \A k \in 1 .. Len(supervisors) : supervisors'[k] = supervisors[k] /\ supervisors[k] # s
      /\ supervisors'[Len(supervisors) + 1] = s
  <2>1. MType /\ OneSupervisorPerName
    BY Zenon DEF MInv, BootInv
  <2> QED
    BY <1>1, <1>2, <2>1, AppendList, ListFacts, Zenon
<1>5. Phase' /\ Threads'
  BY <1>1, <1>3, Zenon DEF MInv, BootInv, Phase, Threads, Early
<1>6. JoinedListed'
  <2>1. JoinedListed
    BY Zenon DEF MInv, BootInv
  <2> SUFFICES ASSUME NEW i \in Node, thread[i] = "joined"
               PROVE  \E k \in 1 .. Len(supervisors) + 1 : supervisors'[k] = i
    BY <1>1, <1>4, Zenon DEF JoinedListed
  <2>2. PICK k \in 1 .. Len(supervisors) : supervisors[k] = i
    BY <2>1, Zenon DEF JoinedListed
  <2> QED
    BY <1>4, <2>2
<1>7. BootOrder'
  BY <1>1, Zenon DEF MInv, BootInv, BootOrder, sortVars, Edges, Known, Started
<1>8. \A i \in Node : thread[i] = "joined" => i # s
  BY <1>4, Zenon DEF MInv, BootInv, JoinedListed
<1>9. Edges' = Edges
  BY <1>1, Zenon DEF Edges, Known, sortVars
<1>10. BootedInOrder'
  <2> SUFFICES ASSUME NEW e \in Edges, NEW k \in 1 .. Len(supervisors) + 1,
                      NEW l \in 1 .. Len(supervisors) + 1,
                      thread[e.svc] = "joined", thread[e.dep] = "joined",
                      supervisors'[k] = e.dep, supervisors'[l] = e.svc
               PROVE  k < l
    BY <1>1, <1>4, <1>9 DEF BootedInOrder
  <2>1. e.svc # s /\ e.dep # s
    BY <1>8, Zenon DEF Edges, Known
  <2>2. k \in 1 .. Len(supervisors) /\ l \in 1 .. Len(supervisors)
    BY <1>4, <2>1
  <2>3. supervisors[k] = e.dep /\ supervisors[l] = e.svc
    BY <1>4, <2>2, Zenon
  <2> QED
    <3>1. BootedInOrder /\ MType
      BY Zenon DEF MInv, BootInv
    <3>2. DOMAIN supervisors = 1 .. Len(supervisors)
      BY <3>1, ListFacts, Zenon
    <3> QED
      BY <2>2, <2>3, <3>1, <3>2, Zenon DEF BootedInOrder
<1> QED
  BY <1>4, <1>5, <1>6, <1>7, <1>10, Zenon DEF BootInv

LEMMA MNextInv == MInv /\ [Next]_vars => MInv'
<1> SUFFICES ASSUME MInv, [Next]_vars PROVE MInv'
  BY Zenon
<1>1. CASE Next
  <2>1. MType' /\ QuietBoot' /\ LateInv'
    BY <1>1, TypeNext, QuietNext, LateNext, Zenon DEF MInv
  <2>2. SortInv'
    BY <1>1, SortPart, Zenon DEF MInv
  <2>3. BootInv'
    <3>1. CASE FrameActions
      BY <3>1, FrameIsFrame, FrameInv, Zenon DEF MInv
    <3>2. CASE StartNew
      BY <3>2, StartNewInv, Zenon
    <3>3. CASE BootActions
      BY <3>3, BootstrapStartInv, PhaseStepInv, SortStepInv, SpawnWaveInv, StartEndsInv, JoinInv,
         WaveCompleteInv DEF BootActions
    <3> QED
      BY <1>1, NextActions, <3>1, <3>2, <3>3, Zenon
  <2> QED
    BY <2>1, <2>2, <2>3, Zenon DEF MInv
<1>2. CASE UNCHANGED vars
  <2>1. UNCHANGED <<sortVars, main, at, thread, supervisors>>
        /\ UNCHANGED <<mutex, job, firing, chan, disp, late, shutdown>>
    BY <1>2, Zenon DEF vars, bootVars, jobVars, timerVars, flagVars
  <2>2. Frame
    BY <2>1, Zenon DEF Frame
  <2>3. BootInv'
    BY <2>2, FrameInv, Zenon DEF MInv
  <2>4. SortInv'
    BY <2>1, SortStutter, Zenon DEF MInv
  <2>5. MType' /\ QuietBoot' /\ LateInv'
    BY <2>1, Zenon DEF MInv, MType, QuietBoot, LateInv
  <2> QED
    BY <2>3, <2>4, <2>5, Zenon DEF MInv
<1> QED
  BY <1>1, <1>2, Zenon

LEMMA ManagerInvariant == Spec => []MInv
  BY MInitInv, MNextInv, PTL DEF Spec

\* BootOrder for every catalog: start_all never calls a service's start() before that of
\* what it is ordered after has returned, whichever threads fail to spawn or panic.
THEOREM BootInOrder == Spec => []BootOrder
<1>1. MInv => BootOrder
  BY Zenon DEF MInv, BootInv
<1> QED
  BY <1>1, ManagerInvariant, PTL

\* However boot, clients and timers share the manager's mutex, the list has one supervisor
\* per name, and those that boot has joined are in dependency order.
THEOREM ListIsSound == Spec => [](OneSupervisorPerName /\ BootedInOrder)
<1>1. MInv => OneSupervisorPerName /\ BootedInOrder
  BY Zenon DEF MInv, BootInv
<1> QED
  BY <1>1, ManagerInvariant, PTL

\* The timer dispatcher begins at most one activation after SHUTDOWN_REQUESTED is set.
THEOREM LateActivationBound == Spec => []OneLateActivation
<1>1. MInv => OneLateActivation
  BY DEF MInv, LateInv, OneLateActivation
<1> QED
  BY <1>1, ManagerInvariant, PTL
=============================================================================
