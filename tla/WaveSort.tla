------------------------------ MODULE WaveSort ------------------------------
(***************************************************************************)
(* wave_sort_services (services/dependency.rs): Kahn's algorithm, cut into *)
(* waves.  Everything in one wave may be started at the same time.         *)
(*                                                                         *)
(* A service is its index in the slice.  An entry says that svc names dep  *)
(* at place `at' of its `after' and `dependencies' lists, chained; the     *)
(* same name may stand there more than once.  The services of a wave are a *)
(* set: their order in the Vec is the order in which threads are joined.   *)
(***************************************************************************)
EXTENDS Naturals, Sequences, FiniteSets

CONSTANTS N,         \* services.len()
          Name,      \* every service name, also the ones that are not sorted
          Place,     \* places in the chained lists of a service
          Catalogs   \* the sets of entries a run starts from

Node == 1 .. N
EntryType == [svc : Name, dep : Name, at : Place]

ASSUME SortAssumption == /\ N \in Nat
                         /\ Node \subseteq Name
                         /\ \A c \in Catalogs : c \subseteq EntryType /\ IsFiniteSet(c)

VARIABLES entries,   \* what the service files say
          degrees,   \* per service: entries not yet resolved
          scan,      \* next index the initial filter looks at
          queue,
          left,      \* pops left in this wave (the for loop over wave_size)
          rest,      \* entries of the popped service's adjacency list to walk
          wave,      \* the wave being collected
          waves,
          visited,
          result     \* "none", "ok" or "err"

sortVars == <<entries, degrees, scan, queue, left, rest, wave, waves, visited, result>>

\* name_to_idx.get(dep): names that are not among the services are ignored.
Known(e) == e.svc \in Node /\ e.dep \in Node
Edges == {e \in entries : Known(e)}

SortInit ==
  /\ entries \in Catalogs
  /\ degrees = [i \in Node |-> Cardinality({e \in Edges : e.svc = i})]
  /\ scan = 1 /\ queue = <<>> /\ left = 0
  /\ rest = {} /\ wave = {} /\ waves = <<>>
  /\ visited = 0 /\ result = "none"

\* The initial queue: every index with in-degree 0, in order.
SeedFree ==
  /\ scan \in Node /\ degrees[scan] = 0
  /\ queue' = Append(queue, scan)
  /\ scan' = scan + 1
  /\ UNCHANGED <<entries, degrees, left, rest, wave, waves, visited, result>>

SeedBlocked ==
  /\ scan \in Node /\ degrees[scan] # 0
  /\ scan' = scan + 1
  /\ UNCHANGED <<entries, degrees, queue, left, rest, wave, waves, visited, result>>

\* Mutant: a wave is one service.
WaveBeginOne ==
  /\ scan = N + 1 /\ result = "none" /\ left = 0 /\ rest = {} /\ wave = {}
  /\ queue # <<>>
  /\ left' = 1
  /\ UNCHANGED <<entries, degrees, scan, queue, rest, wave, waves, visited, result>>

\* The head of the while loop, with an empty wave: wave_size = queue.len().
WaveBegin ==
  /\ scan = N + 1 /\ result = "none" /\ left = 0 /\ rest = {} /\ wave = {}
  /\ queue # <<>>
  /\ left' = Len(queue)
  /\ UNCHANGED <<entries, degrees, scan, queue, rest, wave, waves, visited, result>>

Pop ==
  /\ left > 0 /\ rest = {}
  /\ queue' = Tail(queue)
  /\ left' = left - 1
  /\ wave' = wave \cup {Head(queue)}
  /\ visited' = visited + 1
  /\ rest' = {e \in Edges : e.dep = Head(queue)}
  /\ UNCHANGED <<entries, degrees, scan, waves, result>>

\* One neighbour, in the order of the adjacency list: degrees[neighbor] -= 1.
Nearest(e) == e \in rest /\ \A f \in rest : e.svc <= f.svc

RelaxBlocked(e) ==
  /\ Nearest(e)
  /\ degrees[e.svc] # 1
  /\ degrees' = [degrees EXCEPT ![e.svc] = @ - 1]
  /\ rest' = rest \ {e}
  /\ UNCHANGED <<entries, scan, queue, left, wave, waves, visited, result>>

\* Mutant: a neighbour is queued without a look at what is left of its degree.
RelaxFreedAny(e) ==
  /\ Nearest(e)
  /\ degrees' = [degrees EXCEPT ![e.svc] = @ - 1]
  /\ queue' = Append(queue, e.svc)
  /\ rest' = rest \ {e}
  /\ UNCHANGED <<entries, scan, left, wave, waves, visited, result>>

RelaxFreed(e) ==
  /\ Nearest(e)
  /\ degrees[e.svc] = 1
  /\ degrees' = [degrees EXCEPT ![e.svc] = @ - 1]
  /\ queue' = Append(queue, e.svc)
  /\ rest' = rest \ {e}
  /\ UNCHANGED <<entries, scan, left, wave, waves, visited, result>>

WaveEnd ==
  /\ left = 0 /\ rest = {} /\ wave # {}
  /\ waves' = Append(waves, wave)
  /\ wave' = {}
  /\ UNCHANGED <<entries, degrees, scan, queue, left, rest, visited, result>>

SortIdle == scan = N + 1 /\ result = "none" /\ left = 0 /\ rest = {} /\ wave = {} /\ queue = <<>>

\* Mutant: visited is not compared with n.
SortOkAlways ==
  /\ SortIdle
  /\ result' = "ok"
  /\ UNCHANGED <<entries, degrees, scan, queue, left, rest, wave, waves, visited>>

SortOk ==
  /\ SortIdle /\ visited = N
  /\ result' = "ok"
  /\ UNCHANGED <<entries, degrees, scan, queue, left, rest, wave, waves, visited>>

SortErr ==
  /\ SortIdle /\ visited # N
  /\ result' = "err"
  /\ UNCHANGED <<entries, degrees, scan, queue, left, rest, wave, waves, visited>>

SortNext == \/ SeedFree \/ SeedBlocked \/ WaveBegin \/ Pop \/ WaveEnd \/ SortOk \/ SortErr
            \/ \E e \in rest : RelaxBlocked(e) \/ RelaxFreed(e)

SortSpec == SortInit /\ [][SortNext]_sortVars
-----------------------------------------------------------------------------
InWaves(i, k) == \E l \in 1 .. k : i \in waves[l]

\* Whatever a service is ordered after is in an earlier wave than the service itself:
\* when start_all launches a wave, everything it waits for has been launched.
WavesRespectDeps ==
  \A k \in DOMAIN waves : \A e \in Edges : e.svc \in waves[k] => InWaves(e.dep, k - 1)

\* No service is launched later than it has to be: one that is not in the first wave
\* has something it is ordered after in the wave just before.
WavesAreEarliest ==
  \A k \in DOMAIN waves : k > 1 =>
    \A i \in waves[k] : \E e \in Edges : e.svc = i /\ e.dep \in waves[k - 1]

\* A set of services each of which is ordered after another one of the set.
Cyclic(U) == U # {} /\ \A i \in U : \E e \in Edges : e.svc = i /\ e.dep \in U

\* The sort succeeds with every service in exactly one wave, or it fails and there is a cycle.
SortIsComplete ==
  /\ result = "ok" => \A i \in Node : \E k \in DOMAIN waves :
                        i \in waves[k] /\ \A l \in DOMAIN waves : i \in waves[l] => l = k
  /\ result = "err" => \E U \in SUBSET Node : Cyclic(U)
=============================================================================
