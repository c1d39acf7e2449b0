-------------------------- MODULE MCServiceManager --------------------------
(* Instances of ServiceManager for TLC. *)
EXTENDS ServiceManager

E(s, d, p) == [svc |-> s, dep |-> d, at |-> p]

MCBootstrap == <<11>>

\* Every way in which four services can be ordered after others, one that waits for
\* itself, lists that name a service twice, and names that are not sorted.
AllGraphs ==
  {{E(p[1], p[2], 1) : p \in g} : g \in SUBSET {p \in (1 .. 4) \X (1 .. 4) : p[1] # p[2]}}
  \cup { {E(2, 1, 1), E(2, 1, 2), E(3, 2, 1), E(3, 1, 2), E(1, 11, 1)},
         {E(2, 1, 1), E(2, 1, 2), E(1, 2, 2), E(21, 3, 1), E(3, 21, 1)},
         {E(2, 2, 1), E(3, 1, 1), E(4, 3, 1)} }

\* One service after the other, after which a launcher comes; and a cycle, which leaves
\* both to be started on demand.
SomeGraphs == { {E(2, 1, 1), E(21, 2, 1), E(1, 11, 1)}, {E(2, 1, 1), E(1, 2, 1)} }
=============================================================================
