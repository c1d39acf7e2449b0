---------------------------- MODULE LaunchProofs ----------------------------
(***************************************************************************)
(* What a service has when its program starts to run, for every unit,      *)
(* whatever calls fail on the way and whatever the other threads of PID 1  *)
(* do meanwhile: its confinement, its sockets, and its arguments.          *)
(***************************************************************************)
EXTENDS Activation, LaunchLemmas

------------------------------------------------------------------------------
(* PID 1: its descriptors through the steps of start() *)

Table(i) ==
  /\ {"faults", "fds", "slice", "limits", "owner", "filter", "pipes", "others"} \subseteq DOMAIN i
  /\ i.fds \in [Fd -> Entry \cup {None}]
  /\ i.pipes \in Nat

\* What no step of any thread does to the sockets of a start and to the write end of its log.
Keeps(i, e) ==
  /\ Table(e)
  /\ \A f \in Fd : i.fds[f] # None /\ i.fds[f][1] \in {"socket", "writer"} => e.fds[f] = i.fds[f]

\* A call that has nothing to do with descriptors.
Same(i, e) ==
  /\ {"faults", "fds", "slice", "limits", "owner", "filter", "pipes", "others"} \subseteq DOMAIN e
  /\ e.fds = i.fds /\ e.pipes = i.pipes
SameAll(i, R) == \A r \in R : Same(i, r.k)

LEMMA SameSame ==
  ASSUME NEW i, Table(i)
  PROVE  Same(i, i)
BY Zenon DEF Same, Table

LEMMA SameOn ==
  ASSUME NEW i, NEW e, NEW d, Same(i, e), Same(e, d)
  PROVE  Same(i, d)
BY Zenon DEF Same

LEMMA SameKeeps ==
  ASSUME NEW i, NEW e, Table(i), Same(i, e)
  PROVE  Table(e) /\ Keeps(i, e)
BY Zenon DEF Same, Table, Keeps

LEMMA CallSame ==
  ASSUME NEW j, NEW can, NEW i, Same(j, j), Same(j, i)
  PROVE  SameAll(j, Call(j, can, i))
<1>1. Same(j, [j EXCEPT !.faults = @ - 1])
  BY Zenon DEF Same
<1>2. \A r \in Call(j, can, i) : r.k \in {i, j, [j EXCEPT !.faults = @ - 1]}
  BY DEF Call, Ok, Err
<1> QED
  BY <1>1, <1>2, Zenon DEF SameAll

LEMMA IgnoredSame ==
  ASSUME NEW j, NEW R, SameAll(j, R)
  PROVE  SameAll(j, Ignored(R)) /\ \A r \in Ignored(R) : r.ok
<1>1. \A r \in Ignored(R) : \E q \in R : r = [k |-> q.k, ok |-> TRUE, val |-> None]
  BY Zenon DEF Ignored, Always, Ok
<1> QED
  BY <1>1 DEF SameAll

LEMMA WhenSame ==
  ASSUME NEW c, NEW j, NEW R, Same(j, j), SameAll(j, R)
  PROVE  SameAll(j, When(c, j, R))
BY DEF When, Ok, SameAll

LEMMA StepsSame ==
  ASSUME NEW kind, NEW v, NEW uid, NEW j, NEW s, NEW f, Len(s) \in Nat, Same(j, j),
         Steps(kind, v, uid, j, s, f),
         \A n \in 1 .. Len(s) : \A R : SameAll(j, R) => SameAll(j, ThenOf(kind, v, uid, R, s[n]))
  PROVE  SameAll(j, f[Len(s)])
<1> DEFINE T == {n \in Nat : n <= Len(s) /\ ~SameAll(j, f[n])}
<1> SUFFICES ASSUME T # {} PROVE FALSE
  OBVIOUS
<1>1. PICK m \in T : \A y \in T : m <= y
  BY NatLeast, Zenon
<1>2. m # 0
  BY DEF Steps, SameAll, Ok
<1>3. m - 1 \in Nat /\ m - 1 <= Len(s) /\ ~(m <= m - 1) /\ m \in 1 .. Len(s)
  BY <1>2
<1>4. SameAll(j, f[m - 1])
  BY <1>1, <1>3, Zenon
<1> QED
  BY <1>3, <1>4, Zenon DEF Steps

LEMMA CgroupSame ==
  ASSUME NEW j, Same(j, j)
  PROVE  SameAll(j, ApplyCgroupConfig(j))
<1>1. PICK f : ApplyCgroupConfig(j) = f[Len(CgroupFiles)] /\ Steps("cgroup", None, None, j, CgroupFiles, f)
  BY CgroupUnfolds, Zenon
<1>2. Len(CgroupFiles) \in Nat
  BY Zenon DEF CgroupFiles
<1>3. ASSUME NEW n \in 1 .. Len(CgroupFiles), NEW R, SameAll(j, R)
      PROVE  SameAll(j, ThenOf("cgroup", None, None, R, CgroupFiles[n]))
  <2> DEFINE x == CgroupFiles[n]
             W(i) == Call(i, i.slice, [i EXCEPT !.limits = @ \cup {x}])
  <2> SUFFICES ASSUME NEW r \in ThenOf("cgroup", None, None, R, x) PROVE Same(j, r.k)
    BY Zenon DEF SameAll
  <2>1. PICK q \in R : r = q \/ r \in Ignored(W(q.k))
    BY Zenon DEF ThenOf, Then
  <2>2. Same(j, q.k)
    BY <1>3, Zenon DEF SameAll
  <2>3. Same(q.k, q.k) /\ Same(q.k, [q.k EXCEPT !.limits = @ \cup {x}])
    BY <2>2, Zenon DEF Same
  <2>4. SameAll(q.k, Ignored(W(q.k)))
    BY <2>3, CallSame, IgnoredSame, Zenon
  <2> QED
    BY <2>1, <2>2, <2>4, SameOn, Zenon DEF SameAll
<1> QED
  BY <1>1, <1>2, <1>3, StepsSame, Zenon

LEMMA LimitSame ==
  ASSUME NEW j, Same(j, j),
         NEW s \in {"cgroup_config", "cpu_quota", "tasks_max", "memory_swap_max", "io_weight", "io_latency"}
  PROVE  SameAll(j, ApplyLimit(j, s))
<1>1. ASSUME NEW i, Same(i, i), NEW x PROVE SameAll(i, WriteLimit(i, x))
  <2>1. Same(i, [i EXCEPT !.limits = @ \cup {x}])
    BY <1>1, Zenon DEF Same
  <2>2. SameAll(i, Call(i, TRUE, [i EXCEPT !.limits = @ \cup {x}]))
    BY <1>1, <2>1, CallSame, Zenon
  <2>3. CASE i.slice
    BY <2>2, <2>3, Zenon DEF WriteLimit
  <2>4. CASE ~i.slice
    BY <1>1, <2>4 DEF WriteLimit, Ok, SameAll
  <2> QED
    BY <2>3, <2>4, Zenon
<1>2. SameAll(j, ApplyCpuQuota(j))
  BY <1>1 DEF ApplyCpuQuota, Err, SameAll
<1>3. SameAll(j, ApplyTasksMax(j)) /\ SameAll(j, ApplyMemorySwapMax(j))
  BY <1>1, Zenon DEF ApplyTasksMax, ApplyMemorySwapMax
<1>4. ASSUME NEW x, NEW q \in Call(j, TRUE, j), NEW r, r = q \/ r \in WriteLimit(q.k, x) PROVE Same(j, r.k)
  <2>1. Same(j, q.k)
    BY CallSame, Zenon DEF SameAll
  <2>2. Same(q.k, q.k)
    BY <2>1, Zenon DEF Same
  <2>3. SameAll(q.k, WriteLimit(q.k, x))
    BY <1>1, <2>2, Zenon
  <2> QED
    BY <1>4, <2>1, <2>3, SameOn, Zenon DEF SameAll
<1>5. SameAll(j, ApplyIoDeviceWeight(j))
  <2>1. CASE "no_cgroup2" \in u.set
    BY <2>1 DEF ApplyIoDeviceWeight, Ok, SameAll
  <2>2. CASE "no_cgroup2" \notin u.set
    <3>1. \A r \in ApplyIoDeviceWeight(j) : \E q \in Call(j, TRUE, j) : r = q \/ r \in WriteLimit(q.k, "io_weight")
      BY <2>2, Zenon DEF ApplyIoDeviceWeight, Then
    <3> QED
      BY <1>4, <3>1, Zenon DEF SameAll
  <2> QED
    BY <2>1, <2>2, Zenon
<1>6. SameAll(j, ApplyIoDeviceLatency(j))
  <2>1. CASE "no_cgroup2" \in u.set
    BY <2>1 DEF ApplyIoDeviceLatency, Ok, SameAll
  <2>2. CASE "no_cgroup2" \notin u.set
    <3>1. \A r \in ApplyIoDeviceLatency(j) : \E q \in Call(j, TRUE, j) : r = q \/ r \in WriteLimit(q.k, "io_latency")
      BY <2>2, Zenon DEF ApplyIoDeviceLatency, Then
    <3> QED
      BY <1>4, <3>1, Zenon DEF SameAll
  <2> QED
    BY <2>1, <2>2, Zenon
<1> QED
  BY <1>2, <1>3, <1>5, <1>6, CgroupSame, Zenon DEF ApplyLimit

LEMMA LimitsSame ==
  ASSUME NEW j, Same(j, j)
  PROVE  SameAll(j, ApplyLimits(j))
<1>1. PICK f : ApplyLimits(j) = f[Len(LimitSteps)] /\ Steps("limits", u, None, j, LimitSteps, f)
  BY LimitsUnfolds, Zenon
<1>2. Len(LimitSteps) \in Nat
  BY Zenon DEF LimitSteps
<1>3. ASSUME NEW n \in 1 .. Len(LimitSteps), NEW R, SameAll(j, R)
      PROVE  SameAll(j, ThenOf("limits", u, None, R, LimitSteps[n]))
  <2> DEFINE x == LimitSteps[n]
  <2>1. x \in {"cgroup_config", "cpu_quota", "tasks_max", "memory_swap_max", "io_weight", "io_latency"}
    BY DEF LimitSteps
  <2> HIDE DEF x
  <2> SUFFICES ASSUME NEW r \in ThenOf("limits", u, None, R, x) PROVE Same(j, r.k)
    BY Zenon DEF SameAll, x
  <2>2. PICK q \in R : r = q \/ r \in When(x \in u.set, q.k, Ignored(ApplyLimit(q.k, x)))
    BY Zenon DEF ThenOf, Then
  <2>3. Same(j, q.k) /\ Same(q.k, q.k)
    BY <1>3, Zenon DEF SameAll, Same
  <2>4. SameAll(q.k, When(x \in u.set, q.k, Ignored(ApplyLimit(q.k, x))))
    BY <2>1, <2>3, LimitSame, IgnoredSame, WhenSame, Zenon
  <2> QED
    BY <2>2, <2>3, <2>4, SameOn, Zenon DEF SameAll
<1> QED
  BY <1>1, <1>2, <1>3, StepsSame, Zenon

\* What is looked up for the unit's user.
LEMMA CredentialsSame ==
  ASSUME NEW j, Same(j, j), u.user \in Users
  PROVE  \A r \in ResolveCredentials(j) : Same(j, r.k) /\ (r.ok /\ u.user = "user" => r.val = "user")
<1>1. CASE u.user \in {"root", "dynamic"}
  <2>1. ResolveCredentials(j) = Ok(j, "root")
    BY <1>1, Zenon DEF ResolveCredentials
  <2> QED
    BY <1>1, <2>1 DEF Ok
<1>2. CASE u.user = "unknown"
  BY <1>2 DEF ResolveCredentials, Err
<1>3. CASE u.user = "user"
  <2> SUFFICES ASSUME NEW r \in ResolveCredentials(j) PROVE Same(j, r.k) /\ (r.ok => r.val = "user")
    BY Zenon
  <2>1. PICK q \in Call(j, TRUE, j) : IF q.ok THEN r = [k |-> q.k, ok |-> TRUE, val |-> "user"] ELSE r = q
    BY <1>3, Zenon DEF ResolveCredentials, Then, Ok
  <2>2. Same(j, q.k)
    BY CallSame, Zenon DEF SameAll
  <2>3. CASE q.ok
    BY <2>1, <2>2, <2>3
  <2>4. CASE ~q.ok
    BY <2>1, <2>2, <2>4, Zenon
  <2> QED
    BY <2>3, <2>4, Zenon
<1> QED
  BY <1>1, <1>2, <1>3, Zenon DEF Users

LEMMA DynamicSame ==
  ASSUME NEW j, Same(j, j)
  PROVE  SameAll(j, AllocateDynamicUid(j))
<1> SUFFICES ASSUME NEW r \in AllocateDynamicUid(j) PROVE Same(j, r.k)
  BY Zenon DEF SameAll
<1>1. PICK q \in Call(j, "uids_used" \notin u.set, j) : r.k = q.k
  BY DEF AllocateDynamicUid, Then, Ok
<1> QED
  BY <1>1, CallSame, Zenon DEF SameAll

\* The first part of start() opens nothing, and resolves the user.
LEMMA PrepareSame ==
  ASSUME NEW i, Same(i, i), u.user \in Users
  PROVE  \A r \in Prepare(i) : Same(i, r.k) /\ (r.ok /\ u.user = "user" => r.val = "user")
<1> DEFINE Filter(e) == When("ip_filter" \in u.set, e, Ignored(ApplyIpFilter(e)))
           Dir(e, uid) == When("directory" \in u.set, e, Ignored(EnsureServiceDirectory(e, uid)))
           User(e) == IF u.user = "dynamic" THEN OrElse(AllocateDynamicUid(e), LAMBDA g : Ok(g, "root"))
                      ELSE ResolveCredentials(e)
           F5(e, uid) == Then(Filter(e), LAMBDA f, w : Ok(f, uid))
           F4(e, uid) == Then(Dir(e, uid), LAMBDA g, v : F5(g, uid))
           F3(e, uid) == Then(ApplyLimits(e), LAMBDA g, z : F4(g, uid))
           F2(e, uid) == Then(Ignored(CreateServiceCgroup(e)), LAMBDA g, y : F3(g, uid))
           F1(e) == Then(User(e), LAMBDA g, uid : F2(g, uid))
<1>1. Prepare(i) = F1(i)
  BY Zenon DEF Prepare
<1>2. ASSUME NEW e, NEW uid, NEW r \in F5(e, uid)
      PROVE  \E q \in Filter(e) : IF q.ok THEN r = [k |-> q.k, ok |-> TRUE, val |-> uid] ELSE r = q
  BY Zenon DEF Then, Ok
<1>3. ASSUME NEW e, NEW uid, NEW r \in F4(e, uid)
      PROVE  \E q \in Dir(e, uid) : IF q.ok THEN r \in F5(q.k, uid) ELSE r = q
  BY Zenon DEF Then
<1>4. ASSUME NEW e, NEW uid, NEW r \in F3(e, uid)
      PROVE  \E q \in ApplyLimits(e) : IF q.ok THEN r \in F4(q.k, uid) ELSE r = q
  BY Zenon DEF Then
<1>5. ASSUME NEW e, NEW uid, NEW r \in F2(e, uid)
      PROVE  \E q \in Ignored(CreateServiceCgroup(e)) : IF q.ok THEN r \in F3(q.k, uid) ELSE r = q
  BY Zenon DEF Then
<1>6. ASSUME NEW e, NEW r \in F1(e)
      PROVE  \E q \in User(e) : IF q.ok THEN r \in F2(q.k, q.val) ELSE r = q
  BY Zenon DEF Then
<1>8. ASSUME NEW e, Same(e, e)
      PROVE  SameAll(e, Filter(e))
  <2>1. \A g : Same(e, g) => Same(g, g) /\ Same(g, [g EXCEPT !.filter = "bpf"]) /\ Same(g, [g EXCEPT !.filter = "nft"])
    BY Zenon DEF Same
  <2>2. \A g : Same(e, g) => SameAll(g, AttachBpfIpFilter(g)) /\ SameAll(g, ApplyNftIpFilter(g))
    BY <2>1, CallSame, Zenon DEF AttachBpfIpFilter, ApplyNftIpFilter
  <2>3. SameAll(e, ApplyIpFilter(e))
    <3> SUFFICES ASSUME NEW r \in ApplyIpFilter(e) PROVE Same(e, r.k)
      BY Zenon DEF SameAll
    <3>1. PICK q \in AttachBpfIpFilter(e) : r = q \/ r \in ApplyNftIpFilter(q.k)
      BY Zenon DEF ApplyIpFilter, OrElse
    <3>2. Same(e, q.k)
      BY <1>8, <2>2, Zenon DEF SameAll
    <3> QED
      BY <2>2, <3>1, <3>2, SameOn, Zenon DEF SameAll
  <2> QED
    BY <1>8, <2>3, IgnoredSame, WhenSame, Zenon
<1>9. ASSUME NEW e, Same(e, e), NEW uid
      PROVE  SameAll(e, Dir(e, uid))
  <2>1. \A g : Same(e, g) => Same(g, g) /\ Same(g, [g EXCEPT !.owner = uid])
    BY Zenon DEF Same
  <2>2. \A g : Same(e, g) => SameAll(g, Call(g, TRUE, [g EXCEPT !.owner = uid]))
    BY <2>1, CallSame, Zenon
  <2>3. SameAll(e, EnsureServiceDirectory(e, uid))
    <3> SUFFICES ASSUME NEW r \in EnsureServiceDirectory(e, uid) PROVE Same(e, r.k)
      BY Zenon DEF SameAll
    <3>1. PICK q \in Call(e, TRUE, e) : r = q \/ r \in Call(q.k, TRUE, [q.k EXCEPT !.owner = uid])
      BY Zenon DEF EnsureServiceDirectory, Then
    <3>2. Same(e, q.k)
      BY <1>9, CallSame, Zenon DEF SameAll
    <3> QED
      BY <2>2, <3>1, <3>2, SameOn, Zenon DEF SameAll
  <2> QED
    BY <1>9, <2>3, IgnoredSame, WhenSame, Zenon
<1>10. ASSUME NEW e, Same(e, e)
       PROVE  SameAll(e, Ignored(CreateServiceCgroup(e)))
  <2>1. Same(e, [e EXCEPT !.slice = "no_cgroup2" \notin u.set])
    BY <1>10, Zenon DEF Same
  <2> QED
    BY <1>10, <2>1, CallSame, IgnoredSame, WhenSame, Zenon DEF CreateServiceCgroup
<1>11. ASSUME NEW e, Same(e, e)
       PROVE  \A r \in User(e) : Same(e, r.k) /\ (r.ok /\ u.user = "user" => r.val = "user")
  <2>1. CASE u.user = "dynamic"
    <3> SUFFICES ASSUME NEW r \in User(e) PROVE Same(e, r.k)
      BY <2>1, Zenon
    <3>1. PICK q \in AllocateDynamicUid(e) : r.k = q.k
      BY <2>1 DEF OrElse, Ok
    <3> QED
      BY <1>11, <3>1, DynamicSame, Zenon DEF SameAll
  <2>2. CASE u.user # "dynamic"
    <3>1. User(e) = ResolveCredentials(e)
      BY <2>2, Zenon
    <3> HIDE DEF User
    <3> QED
      BY <1>11, <3>1, CredentialsSame, Zenon
  <2> QED
    BY <2>1, <2>2, Zenon
<1> HIDE DEF Filter, Dir, User, F5, F4, F3, F2, F1
<1>12. ASSUME NEW e, Same(e, e), NEW uid, NEW r \in F5(e, uid)
       PROVE  Same(e, r.k) /\ (r.ok => r.val = uid)
  <2>1. PICK q \in Filter(e) : IF q.ok THEN r = [k |-> q.k, ok |-> TRUE, val |-> uid] ELSE r = q
    BY <1>2, <1>12
  <2>2. Same(e, q.k)
    BY <1>8, <1>12, Zenon DEF SameAll
  <2>3. CASE q.ok
    BY <2>1, <2>2, <2>3
  <2>4. CASE ~q.ok
    BY <2>1, <2>2, <2>4, Zenon
  <2> QED
    BY <2>3, <2>4, Zenon
<1>13. ASSUME NEW e, Same(e, e), NEW uid, NEW r \in F4(e, uid)
       PROVE  Same(e, r.k) /\ (r.ok => r.val = uid)
  <2>1. PICK q \in Dir(e, uid) : IF q.ok THEN r \in F5(q.k, uid) ELSE r = q
    BY <1>3, <1>13
  <2>2. Same(e, q.k) /\ Same(q.k, q.k)
    BY <1>9, <1>13, Zenon DEF SameAll, Same
  <2> QED
    BY <1>12, <2>1, <2>2, SameOn
<1>14. ASSUME NEW e, Same(e, e), NEW uid, NEW r \in F3(e, uid)
       PROVE  Same(e, r.k) /\ (r.ok => r.val = uid)
  <2>1. PICK q \in ApplyLimits(e) : IF q.ok THEN r \in F4(q.k, uid) ELSE r = q
    BY <1>4, <1>14
  <2>2. Same(e, q.k) /\ Same(q.k, q.k)
    BY <1>14, LimitsSame, Zenon DEF SameAll, Same
  <2> QED
    BY <1>13, <2>1, <2>2, SameOn
<1>15. ASSUME NEW e, Same(e, e), NEW uid, NEW r \in F2(e, uid)
       PROVE  Same(e, r.k) /\ (r.ok => r.val = uid)
  <2>1. PICK q \in Ignored(CreateServiceCgroup(e)) : IF q.ok THEN r \in F3(q.k, uid) ELSE r = q
    BY <1>5, <1>15
  <2>2. Same(e, q.k) /\ Same(q.k, q.k)
    BY <1>10, <1>15, Zenon DEF SameAll, Same
  <2> QED
    BY <1>14, <2>1, <2>2, SameOn
<1>16. ASSUME NEW e, Same(e, e), NEW r \in F1(e)
       PROVE  Same(e, r.k) /\ (r.ok /\ u.user = "user" => r.val = "user")
  <2>1. PICK q \in User(e) : IF q.ok THEN r \in F2(q.k, q.val) ELSE r = q
    BY <1>6, <1>16
  <2>2. Same(e, q.k) /\ Same(q.k, q.k) /\ (q.ok /\ u.user = "user" => q.val = "user")
    BY <1>11, <1>16, Zenon DEF Same
  <2> QED
    BY <1>15, <2>1, <2>2, SameOn
<1> QED
  BY <1>1, <1>16, Zenon

LEMMA LowestIsFree ==
  ASSUME NEW i, Free(i) # {}
  PROVE  Lowest(Free(i)) \in Free(i)
<1>1. Free(i) \subseteq Nat
  BY LaunchAssumption DEF Free, Fd
<1>2. \E f \in Free(i) : \A g \in Free(i) : f <= g
  BY <1>1, NatLeast, Zenon
<1> QED
  BY <1>2, Zenon DEF Lowest

LEMMA KeepsOn ==
  ASSUME NEW i, NEW e, NEW d, Keeps(i, e), Keeps(e, d)
  PROVE  Keeps(i, d)
BY Zenon DEF Keeps

\* A new descriptor takes a number that was free.
LEMMA NewFdKeeps ==
  ASSUME NEW i, Table(i), NEW what \in Entry, NEW r \in NewFd(i, what)
  PROVE  /\ Keeps(i, r.k)
         /\ r.ok => r.val \in Fd /\ i.fds[r.val] = None /\ r.k.fds = [i.fds EXCEPT ![r.val] = what]
<1>1. Same(i, i)
  BY SameSame, Zenon
<1>2. CASE Free(i) = {}
  <2>1. r.k = i /\ ~r.ok
    BY <1>2 DEF NewFd, Err
  <2> QED
    BY <1>1, <2>1, SameKeeps, Zenon
<1>3. CASE Free(i) # {}
  <2> DEFINE f == Lowest(Free(i))
             e == [i EXCEPT !.fds[f] = what]
  <2>1. f \in Fd /\ i.fds[f] = None
    BY <1>3, LowestIsFree, Zenon DEF Free
  <2>2. e.fds = [i.fds EXCEPT ![f] = what] /\ Table(e)
    BY <2>1, Zenon DEF Table
  <2>3. Keeps(i, e)
    BY <2>1, <2>2, Zenon DEF Keeps, Table
  <2>4. PICK q \in Call(i, TRUE, e) : IF q.ok THEN r = [k |-> q.k, ok |-> TRUE, val |-> f] ELSE r = q
    BY <1>3, Zenon DEF NewFd, Then, Ok
  <2> HIDE DEF f, e
  <2>5. \/ q = [k |-> e, ok |-> TRUE, val |-> None]
        \/ q = [k |-> [i EXCEPT !.faults = @ - 1], ok |-> FALSE, val |-> None]
    BY Zenon DEF Call, Ok, Err
  <2>6. CASE q = [k |-> e, ok |-> TRUE, val |-> None]
    BY <2>1, <2>2, <2>3, <2>4, <2>6
  <2>7. CASE q = [k |-> [i EXCEPT !.faults = @ - 1], ok |-> FALSE, val |-> None]
    <3>1. Same(i, q.k) /\ r.k = q.k /\ ~r.ok
      BY <1>1, <2>4, <2>7, Zenon DEF Same
    <3> QED
      BY <3>1, SameKeeps, Zenon
  <2> QED
    BY <2>5, <2>6, <2>7, Zenon
<1> QED
  BY <1>2, <1>3, Zenon

\* The log of a service: what is closed again on failure is the read end alone.
LEMMA LoggerKeeps ==
  ASSUME NEW i, Table(i), NEW r \in CreateServiceLogger(i)
  PROVE  /\ r.ok /\ Keeps(i, r.k)
         /\ r.val # None => r.val \in Fd /\ r.k.fds[r.val] # None /\ r.k.fds[r.val][1] = "writer"
<1>1. CASE "console" \in u.set
  <2>1. r = [k |-> i, ok |-> TRUE, val |-> None]
    BY <1>1, Zenon DEF CreateServiceLogger, Ok
  <2> QED
    BY <2>1, SameSame, SameKeeps, Zenon
<1> DEFINE n == i.pipes + 1
           e == [i EXCEPT !.pipes = n]
           R(j) == NewFd(j, <<"reader", n>>)
           W(j) == NewFd(j, <<"writer", n>>)
           P == Then(R(e), LAMBDA g, x : W(g))
           Z(j) == CloseAll(j, {f \in Fd : j.fds[f] = <<"reader", n>>})
<1>2. CASE "console" \notin u.set
  <2>1. \A p \in P : \E q \in R(e) : IF q.ok THEN p \in W(q.k) ELSE p = q
    BY Zenon DEF Then
  <2>2. \E p \in P : IF p.ok THEN r = p ELSE r = [k |-> Z(p.k), ok |-> TRUE, val |-> None]
    BY <1>2, Zenon DEF CreateServiceLogger, OrElse, Ok
  <2>3. <<"reader", n>> \in Entry /\ <<"writer", n>> \in Entry /\ n \in Nat
    BY DEF Table, Entry
  <2>4. Table(e) /\ Keeps(i, e)
    BY <2>3, Zenon DEF Table, Keeps
  <2>5. ASSUME NEW j, Table(j) PROVE Keeps(j, Z(j))
    <3>1. Z(j).fds = [f \in Fd |-> IF j.fds[f] = <<"reader", n>> THEN None ELSE j.fds[f]]
      BY <2>5, Zenon DEF CloseAll, Table
    <3>2. Table(Z(j))
      BY <2>5, <3>1, Zenon DEF CloseAll, Table
    <3>3. ASSUME NEW f \in Fd, j.fds[f][1] \in {"socket", "writer"} PROVE j.fds[f] # <<"reader", n>>
      BY <3>3
    <3> QED
      BY <3>1, <3>2, <3>3, Zenon DEF Keeps
  <2>6. \A j : Table(j) => \A x \in R(j) : Keeps(j, x.k)
    BY <2>3, NewFdKeeps, Zenon
  <2>7. \A j : Table(j) => \A x \in W(j) :
          Keeps(j, x.k) /\ (x.ok => x.val \in Fd /\ x.k.fds = [j.fds EXCEPT ![x.val] = <<"writer", n>>])
    BY <2>3, NewFdKeeps, Zenon
  <2> HIDE DEF P, R, W, Z, e, n
  <2>8. PICK p \in P : IF p.ok THEN r = p ELSE r = [k |-> Z(p.k), ok |-> TRUE, val |-> None]
    BY <2>2, Zenon
  <2>9. PICK q \in R(e) : IF q.ok THEN p \in W(q.k) ELSE p = q
    BY <2>1, Zenon
  <2>10. Keeps(i, q.k) /\ Table(q.k)
    BY <2>4, <2>6, KeepsOn, Zenon DEF Keeps
  <2>11. CASE p.ok
    <3>1. r = p
      BY <2>8, <2>11, Zenon
    <3>2. q.ok /\ p \in W(q.k)
      BY <2>9, <2>11, Zenon
    <3>3. Keeps(q.k, p.k) /\ p.val \in Fd /\ p.k.fds = [q.k.fds EXCEPT ![p.val] = <<"writer", n>>]
      BY <2>7, <2>10, <2>11, <3>2, Zenon
    <3>4. p.k.fds[p.val] = <<"writer", n>>
      BY <2>10, <3>3, Zenon DEF Table
    <3>5. <<"writer", n>> # None
      BY <2>3, LaunchAssumption, Zenon
    <3>6. Keeps(i, p.k)
      BY <2>10, <3>3, KeepsOn, Zenon
    <3> QED
      BY <2>11, <3>1, <3>3, <3>4, <3>5, <3>6, SMTT(30)
  <2>12. CASE ~p.ok
    <3>1. Keeps(i, p.k)
      BY <2>7, <2>9, <2>10, KeepsOn, Zenon
    <3>2. Keeps(i, Z(p.k))
      BY <2>5, <3>1, KeepsOn, Zenon DEF Keeps
    <3>3. r = [k |-> Z(p.k), ok |-> TRUE, val |-> None]
      BY <2>8, <2>12, Zenon
    <3> QED
      BY <3>2, <3>3, Zenon
  <2> QED
    BY <2>11, <2>12, Zenon
<1> QED
  BY <1>1, <1>2, Zenon

LEMMA NotifyKeeps ==
  ASSUME NEW i, Table(i), NEW r \in NotifyServerNew(i)
  PROVE  Keeps(i, r.k)
<1>1. CASE "notify" \notin u.set
  <2>1. r = [k |-> i, ok |-> TRUE, val |-> FALSE]
    BY <1>1, Zenon DEF NotifyServerNew, Ok, OrElse, Then
  <2> QED
    BY <2>1, SameSame, SameKeeps, Zenon
<1>2. CASE "notify" \in u.set
  <2>1. PICK q \in NewFd(i, <<"notify", 0>>) : r.k = q.k
    BY <1>2 DEF NotifyServerNew, OrElse, Then, Ok
  <2>2. <<"notify", 0>> \in Entry
    BY Zenon DEF Entry
  <2> QED
    BY <2>1, <2>2, NewFdKeeps, Zenon
<1> QED
  BY <1>1, <1>2, Zenon

LEMMA SocketKeeps ==
  ASSUME NEW i, Table(i), NEW n \in Nat, NEW r \in NewSocket(i, n)
  PROVE  /\ Keeps(i, r.k)
         /\ r.ok => r.val \in Fd /\ i.fds[r.val] = None /\ r.k.fds = [i.fds EXCEPT ![r.val] = <<"socket", n>>]
<1>1. CASE u.sockets[n] = "bad"
  <2>1. r.k = i /\ ~r.ok
    BY <1>1 DEF NewSocket, Err
  <2> QED
    BY <2>1, SameSame, SameKeeps, Zenon
<1>2. CASE u.sockets[n] # "bad"
  <2>1. r \in NewFd(i, <<"socket", n>>) /\ <<"socket", n>> \in Entry
    BY <1>2, Zenon DEF NewSocket, Entry
  <2> QED
    BY <2>1, NewFdKeeps, Zenon
<1> QED
  BY <1>1, <1>2, Zenon

LEMMA ForkSame ==
  ASSUME NEW i, Table(i)
  PROVE  /\ \A r \in StartServiceAs(i) : Same(i, r.k) /\ (r.ok => Resolves)
         /\ SameAll(i, AssignPidToCgroup(i))
<1>1. Same(i, i)
  BY SameSame, Zenon
<1>2. SameAll(i, Call(i, TRUE, i))
  BY <1>1, CallSame, Zenon
<1>3. ASSUME NEW r \in StartServiceAs(i) PROVE Same(i, r.k) /\ (r.ok => Resolves)
  <2>1. CASE Resolves
    BY <1>2, <2>1, Zenon DEF StartServiceAs, SameAll
  <2>2. CASE ~Resolves
    BY <1>1, <2>2 DEF StartServiceAs, Err
  <2> QED
    BY <2>1, <2>2, Zenon
<1>4. ASSUME NEW r \in AssignPidToCgroup(i) PROVE Same(i, r.k)
  <2>1. CASE i.slice
    <3> DEFINE P == Then(Call(i, TRUE, i), LAMBDA g, x : Ok(g, TRUE))
    <3>1. ASSUME NEW p \in P PROVE \E q \in Call(i, TRUE, i) : p = IF q.ok THEN [k |-> q.k, ok |-> TRUE, val |-> TRUE] ELSE q
      BY Zenon DEF Then, Ok
    <3>2. \E p \in P : r = IF p.ok THEN p ELSE [k |-> p.k, ok |-> TRUE, val |-> FALSE]
      BY <2>1, Zenon DEF AssignPidToCgroup, OrElse, Ok
    <3> HIDE DEF P
    <3>3. PICK p \in P : r.k = p.k
      BY <3>2
    <3>4. PICK q \in Call(i, TRUE, i) : p = IF q.ok THEN [k |-> q.k, ok |-> TRUE, val |-> TRUE] ELSE q
      BY <3>1, Zenon
    <3>5. p.k = q.k
      BY <3>4, Zenon
    <3> QED
      BY <1>2, <3>3, <3>5, Zenon DEF SameAll
  <2>2. CASE ~i.slice
    BY <1>1, <2>2 DEF AssignPidToCgroup, Ok, OrElse, Then
  <2> QED
    BY <2>1, <2>2, Zenon
<1> QED
  BY <1>3, <1>4, Zenon DEF SameAll

------------------------------------------------------------------------------
(* The invariant of a launch *)

\* Sockets that are open, in the order of the unit, and the write end of a log.
Held(fds, socks, log) ==
  /\ socks \in Seq(Fd) /\ log \in Fd \cup {None}
  /\ log # None => fds[log] # None /\ fds[log][1] = "writer"
  /\ \A n \in DOMAIN socks : fds[socks[n]] # None /\ fds[socks[n]][1] = "socket"
  /\ \A n, m \in DOMAIN socks : n < m => fds[socks[n]][2] < fds[socks[m]][2]

StartInv ==
  /\ {"pc", "uid", "log", "notify", "socks", "next"} \subseteq DOMAIN st
  /\ st.next \in Nat
  /\ st.pc \in {"pre", "prepare", "log", "notify"} => st.socks = <<>>
  /\ st.pc \in {"notify", "sockets"} => Held(k.fds, st.socks, st.log)
  /\ st.pc = "sockets" => \A n \in DOMAIN st.socks : k.fds[st.socks[n]][2] < st.next
  /\ st.pc \in {"log", "notify", "sockets"} /\ u.user = "user" => st.uid = "user"

\* Why a process that was forked is what its unit asks for: it has yet to run its preparation, and
\* has what start() or the monitor collected for it, or it ran all of it.
ChildInv ==
  /\ {"at", "slice", "n", "by", "uid", "pipe", "j"} \subseteq DOMAIN child
  /\ child.at = "new" =>
       /\ Whole(child.j) /\ child.j.fds \in [Fd -> Entry \cup {None}]
       /\ Held(child.j.fds, child.j.socks, child.j.log)
       /\ u.user = "user" => child.uid = "user"
  /\ child.at \in {"new", "exec"} => Resolves
  /\ ConfinedAtExec
  /\ SocketsInOrder

LaunchInv == Table(k) /\ u.user \in Users /\ Quotes(u) /\ StartInv /\ ChildInv

LEMMA HeldKept ==
  ASSUME NEW i, NEW e, Keeps(i, e), NEW socks, NEW log, Held(i.fds, socks, log)
  PROVE  Held(e.fds, socks, log) /\ \A n \in DOMAIN socks : e.fds[socks[n]] = i.fds[socks[n]]
<1>1. \A n \in DOMAIN socks : socks[n] \in Fd
  BY DEF Held
<1>2. \A n \in DOMAIN socks : e.fds[socks[n]] = i.fds[socks[n]]
  BY <1>1, Zenon DEF Held, Keeps
<1>3. log # None => e.fds[log] = i.fds[log]
  BY Zenon DEF Held, Keeps
<1> QED
  BY <1>2, <1>3, Zenon DEF Held

\* One more socket.
LEMMA HeldMore ==
  ASSUME NEW i, Table(i), NEW e, Keeps(i, e), NEW socks, NEW log, Held(i.fds, socks, log), NEW n \in Nat,
         \A m \in DOMAIN socks : i.fds[socks[m]][2] < n,
         NEW f \in Fd, e.fds = [i.fds EXCEPT ![f] = <<"socket", n>>]
  PROVE  /\ Held(e.fds, Append(socks, f), log)
         /\ \A m \in DOMAIN Append(socks, f) : e.fds[Append(socks, f)[m]][2] < n + 1
<1> DEFINE s == Append(socks, f)
           l == Len(socks) + 1
<1>1. socks \in Seq(Fd) /\ s \in Seq(Fd) /\ DOMAIN socks = 1 .. Len(socks) /\ DOMAIN s = 1 .. l /\ Len(socks) \in Nat
  BY DEF Held
<1>2. Held(e.fds, socks, log) /\ \A m \in DOMAIN socks : e.fds[socks[m]] = i.fds[socks[m]]
  BY HeldKept
<1>3. e.fds[f] = <<"socket", n>> /\ <<"socket", n>> \in Entry
  BY Zenon DEF Table, Entry
<1>4. e.fds[f] # None /\ e.fds[f][1] = "socket" /\ e.fds[f][2] = n
  BY <1>3, LaunchAssumption
<1>5. \A m \in 1 .. l : (m = l /\ s[m] = f) \/ (m \in DOMAIN socks /\ s[m] = socks[m])
  BY <1>1
<1>6. \A m \in DOMAIN socks : e.fds[socks[m]][2] \in Nat /\ e.fds[socks[m]][2] < n
  <2> SUFFICES ASSUME NEW m \in DOMAIN socks PROVE e.fds[socks[m]][2] \in Nat /\ e.fds[socks[m]][2] < n
    BY Zenon
  <2>1. socks[m] \in Fd /\ i.fds[socks[m]] # None
    BY DEF Held
  <2>2. i.fds[socks[m]] \in Entry
    BY <2>1, Zenon DEF Table
  <2> QED
    BY <1>2, <2>2, Zenon DEF Entry
<1> HIDE DEF s, l
<1>7. \A m \in DOMAIN s : e.fds[s[m]] # None /\ e.fds[s[m]][1] = "socket" /\ e.fds[s[m]][2] < n + 1
  BY <1>1, <1>2, <1>4, <1>5, <1>6, SMTT(30) DEF Held
<1>8. ASSUME NEW a \in DOMAIN s, NEW b \in DOMAIN s, a < b PROVE e.fds[s[a]][2] < e.fds[s[b]][2]
  <2>1. a \in DOMAIN socks /\ s[a] = socks[a]
    BY <1>1, <1>5, <1>8 DEF l
  <2>2. CASE b = l
    BY <1>4, <1>5, <1>6, <1>1, <2>1, <2>2, SMTT(30) DEF l
  <2>3. CASE b # l
    BY <1>1, <1>2, <1>5, <1>8, <2>1, <2>3, Zenon DEF Held
  <2> QED
    BY <2>2, <2>3, Zenon
<1>9. Held(e.fds, s, log)
  BY <1>1, <1>2, <1>7, <1>8, Zenon DEF Held
<1> QED
  BY <1>7, <1>9, Zenon DEF s

\* What other threads do to the descriptors meanwhile, and the start that goes on.
LEMMA StartKept ==
  ASSUME StartInv, Keeps(k, k'), UNCHANGED <<u, st>>
  PROVE  Table(k') /\ StartInv'
<1>1. ASSUME Held(k.fds, st.socks, st.log)
      PROVE  Held(k'.fds, st.socks, st.log) /\ \A n \in DOMAIN st.socks : k'.fds[st.socks[n]] = k.fds[st.socks[n]]
  BY <1>1, HeldKept
<1> QED
  BY <1>1, Zenon DEF StartInv, Keeps

LEMMA ReturnKept ==
  ASSUME NEW i, Table(i), Return(i)
  PROVE  Table(k') /\ StartInv'
<1> DEFINE S == {f \in Fd : i.fds[f] # None /\ i.fds[f][1] \in {"socket", "notify"}}
<1>1. k' = CloseAll(i, S) /\ st' = Idle
  BY Zenon DEF Return
<1> HIDE DEF S
<1>2. k'.fds = [f \in Fd |-> IF f \in S THEN None ELSE i.fds[f]] /\ k'.pipes = i.pipes
  BY <1>1, Zenon DEF CloseAll, Table
<1>3. Table(k')
  BY <1>1, <1>2, Zenon DEF CloseAll, Table
<1> QED
  BY <1>1, <1>3, Zenon DEF StartInv, Idle

LEMMA ChildKept ==
  ASSUME ChildInv, UNCHANGED <<u, child>>
  PROVE  ChildInv'
BY Zenon DEF ChildInv, ConfinedAtExec, SocketsInOrder, Resolves

\* A new process: what it inherits is what the start holds.
LEMMA ForkMakesChild ==
  ASSUME NEW fds \in [Fd -> Entry \cup {None}], NEW socks, NEW log, Held(fds, socks, log), NEW uid, NEW faults,
         u.user = "user" => uid = "user", Resolves, u' = u,
         {"at", "slice", "n", "by", "uid", "pipe", "j"} \subseteq DOMAIN child',
         child'.at = "new", child'.uid = uid, child'.j = NewChild(faults, "root", fds, log, socks)
  PROVE  ChildInv'
<1>1. /\ Whole(child'.j) /\ child'.j.fds = fds
      /\ child'.j.socks = socks /\ child'.j.log = log
  BY SMTT(30) DEF NewChild, Whole
<1>2. Resolves'
  BY Zenon DEF Resolves
<1>3. ConfinedAtExec' /\ SocketsInOrder'
  BY Zenon DEF ConfinedAtExec, SocketsInOrder
<1> QED
  BY <1>1, <1>2, <1>3, Zenon DEF ChildInv
\* A child that ran its preparation: what start() collected arrives.
LEMMA ChildRunsKept ==
  ASSUME ChildInv, ChildRuns
  PROVE  ChildInv'
<1> DEFINE j == child.j
<1>1. PICK i \in RunChild(u, child.uid, j) : child' = [child EXCEPT !.at = IF i.dead THEN "dead" ELSE "exec", !.j = i]
  BY Zenon DEF ChildRuns
<1>2. /\ child.at = "new" /\ Whole(j) /\ j.fds \in [Fd -> Entry \cup {None}] /\ Held(j.fds, j.socks, j.log)
      /\ u.user = "user" => child.uid = "user"
      /\ Resolves /\ u' = u
      /\ {"at", "slice", "n", "by", "uid", "pipe", "j"} \subseteq DOMAIN child
  BY Zenon DEF ChildInv, ChildRuns
<1> HIDE DEF j
<1>3. child'.j = i /\ DOMAIN child' = DOMAIN child
  BY <1>1, <1>2, Zenon
<1>4. CASE i.dead
  <2>1. child'.at = "dead"
    BY <1>1, <1>2, <1>4, Zenon
  <2> QED
    BY <1>2, <1>3, <2>1, Zenon DEF ChildInv, ConfinedAtExec, SocketsInOrder
<1>5. CASE ~i.dead
  <2>1. child'.at = "exec"
    BY <1>1, <1>2, <1>5, Zenon
  <2>2. Ready(13, u, child.uid, i) /\ i.socks = j.socks /\ i.fds = Moved(Unlogged(j), j.socks)
    BY <1>2, <1>5, ChildIsReady
  <2>3. ConfinedAtExec'
    BY <1>2, <1>3, <2>1, <2>2 DEF ConfinedAtExec, Ready, Fatal
  <2>4. Resolves'
    BY <1>2, Zenon DEF Resolves
  <2>5. SocketsInOrder'
    <3> SUFFICES ASSUME Ascending(j.socks)
                 PROVE  \A n \in DOMAIN j.socks :
                          /\ i.fds[2 + n][1] = "socket"
                          /\ \A m \in DOMAIN j.socks : n < m => i.fds[2 + n][2] < i.fds[2 + m][2]
      BY <1>3, <2>2, Zenon DEF SocketsInOrder, Ascending
    <3>1. /\ Unlogged(j) \in [Fd -> Entry \cup {None}]
          /\ \A n \in DOMAIN j.socks : Unlogged(j)[j.socks[n]] = j.fds[j.socks[n]]
      <4>1. CASE j.log = None
        BY <1>2, <4>1, Zenon DEF Unlogged
      <4>2. CASE j.log # None
        <5>1. Unlogged(j) = [j.fds EXCEPT ![j.log] = None] /\ j.log \in Fd
          BY <1>2, <4>2, Zenon DEF Unlogged, Held
        <5>2. \A n \in DOMAIN j.socks : j.socks[n] \in Fd /\ j.socks[n] # j.log
          BY <1>2, <4>2, SMTT(30) DEF Held
        <5> QED
          BY <1>2, <5>1, <5>2, Zenon
      <4> QED
        BY <4>1, <4>2, Zenon
    <3>2. j.socks \in Seq(Fd) /\ \A n \in DOMAIN j.socks : Unlogged(j)[j.socks[n]] # None
      BY <1>2, <3>1, Zenon DEF Held
    <3>3. \A n \in DOMAIN j.socks : i.fds[2 + n] = j.fds[j.socks[n]]
      <4> DEFINE D == Entry \cup {None}
                 a == Unlogged(j)
                 s == j.socks
      <4>1. a \in [Fd -> D] /\ s \in Seq(Fd) /\ Ascending(s) /\ \A n \in DOMAIN s : a[s[n]] # None
        BY <3>1, <3>2, Zenon
      <4> HIDE DEF D, a, s
      <4>2. \A n \in DOMAIN s : Moved(a, s)[2 + n] = a[s[n]]
        BY <4>1, DupInOrder, Zenon
      <4> QED
        BY <2>2, <3>1, <4>2, Zenon DEF a, s
    <3> QED
      BY <1>2, <3>3, Zenon DEF Held
  <2> QED
    BY <1>2, <1>3, <2>1, <2>3, <2>4, <2>5, Zenon DEF ChildInv
<1> QED
  BY <1>4, <1>5, Zenon

\* The steps of start()
LEMMA PreKept ==
  ASSUME LaunchInv, StartPre
  PROVE  LaunchInv'
<1> DEFINE P == When("exec_start_pre" \in u.set, k, Call(k, TRUE, k))
<1>1. Same(k, k) /\ Table(k)
  BY SameSame, Zenon DEF LaunchInv
<1>2. SameAll(k, P)
  BY <1>1, CallSame, WhenSame, Zenon
<1>3. PICK r \in P : (k' = r.k /\ st' = [st EXCEPT !.pc = "prepare"]) \/ Return(r.k)
  BY Zenon DEF StartPre
<1> HIDE DEF P
<1>4. Same(k, r.k) /\ Table(r.k)
  BY <1>1, <1>2, SameKeeps, Zenon DEF SameAll
<1>5. ChildInv' /\ (u.user \in Users /\ Quotes(u))'
  BY ChildKept, Zenon DEF LaunchInv, StartPre, Quotes
<1>6. CASE k' = r.k /\ st' = [st EXCEPT !.pc = "prepare"]
  <2>1. st.pc = "pre" /\ u' = u
    BY Zenon DEF StartPre
  <2>2. StartInv'
    BY <1>6, <2>1, Zenon DEF LaunchInv, StartInv
  <2> QED
    BY <1>4, <1>5, <1>6, <2>2, Zenon DEF LaunchInv
<1>7. CASE Return(r.k)
  BY <1>4, <1>5, <1>7, ReturnKept, Zenon DEF LaunchInv
<1> QED
  BY <1>3, <1>6, <1>7, Zenon

LEMMA PrepareKept ==
  ASSUME LaunchInv, StartPrepare
  PROVE  LaunchInv'
<1>1. Same(k, k)
  BY SameSame, Zenon DEF LaunchInv
<1>2. PICK r \in Prepare(k) : \/ r.ok /\ k' = r.k /\ st' = [st EXCEPT !.pc = "log", !.uid = r.val]
                              \/ Return(r.k)
  BY Zenon DEF StartPrepare
<1>3. Same(k, r.k) /\ (r.ok /\ u.user = "user" => r.val = "user")
  BY <1>1, PrepareSame, Zenon DEF LaunchInv
<1>4. Table(r.k)
  BY <1>3, SameKeeps, Zenon DEF LaunchInv
<1>5. ChildInv' /\ (u.user \in Users /\ Quotes(u))'
  BY ChildKept, Zenon DEF LaunchInv, StartPrepare, Quotes
<1>6. CASE r.ok /\ k' = r.k /\ st' = [st EXCEPT !.pc = "log", !.uid = r.val]
  <2>1. st.pc = "prepare" /\ u' = u
    BY Zenon DEF StartPrepare
  <2>2. StartInv'
    BY <1>3, <1>6, <2>1, Zenon DEF LaunchInv, StartInv
  <2> QED
    BY <1>4, <1>5, <1>6, <2>2, Zenon DEF LaunchInv
<1>7. CASE Return(r.k)
  BY <1>4, <1>5, <1>7, ReturnKept, Zenon DEF LaunchInv
<1> QED
  BY <1>2, <1>6, <1>7, Zenon

LEMMA LogKept ==
  ASSUME LaunchInv, StartLog
  PROVE  LaunchInv'
<1>1. PICK r \in CreateServiceLogger(k) : k' = r.k /\ st' = [st EXCEPT !.pc = "notify", !.log = r.val]
  BY Zenon DEF StartLog
<1>2. /\ Keeps(k, r.k)
      /\ r.val # None => r.val \in Fd /\ r.k.fds[r.val] # None /\ r.k.fds[r.val][1] = "writer"
  BY LoggerKeeps, Zenon DEF LaunchInv
<1>3. ChildInv' /\ (u.user \in Users /\ Quotes(u))'
  BY ChildKept, Zenon DEF LaunchInv, StartLog, Quotes
<1>4. st.pc = "log" /\ u' = u /\ st.socks = <<>>
  BY Zenon DEF StartLog, LaunchInv, StartInv
<1>5. Held(r.k.fds, <<>>, r.val)
  BY <1>2 DEF Held
<1>6. StartInv'
  BY <1>1, <1>4, <1>5, Zenon DEF LaunchInv, StartInv
<1> QED
  BY <1>1, <1>2, <1>3, <1>6, Zenon DEF LaunchInv, Keeps

LEMMA NotifyKept ==
  ASSUME LaunchInv, StartNotify
  PROVE  LaunchInv'
<1>1. PICK r \in NotifyServerNew(k) : k' = r.k /\ st' = [st EXCEPT !.pc = "sockets", !.notify = r.val]
  BY Zenon DEF StartNotify
<1>2. Keeps(k, r.k)
  BY NotifyKeeps, Zenon DEF LaunchInv
<1>3. ChildInv' /\ (u.user \in Users /\ Quotes(u))'
  BY ChildKept, Zenon DEF LaunchInv, StartNotify, Quotes
<1>4. st.pc = "notify" /\ u' = u /\ st.socks = <<>> /\ Held(k.fds, st.socks, st.log)
  BY Zenon DEF StartNotify, LaunchInv, StartInv
<1>5. Held(r.k.fds, st.socks, st.log)
  BY <1>2, <1>4, HeldKept, Zenon
<1>6. StartInv'
  BY <1>1, <1>4, <1>5 DEF LaunchInv, StartInv
<1> QED
  BY <1>1, <1>2, <1>3, <1>6, Zenon DEF LaunchInv, Keeps

LEMMA SocketKept ==
  ASSUME LaunchInv, StartSocket
  PROVE  LaunchInv'
<1>1. PICK r \in NewSocket(k, st.next) :
        k' = r.k /\ st' = [st EXCEPT !.next = @ + 1, !.socks = IF r.ok THEN Append(@, r.val) ELSE @]
  BY Zenon DEF StartSocket
<1>2. /\ st.next \in Nat /\ Table(k) /\ st.pc = "sockets" /\ u' = u
      /\ {"pc", "uid", "log", "notify", "socks", "next"} \subseteq DOMAIN st
      /\ Held(k.fds, st.socks, st.log) /\ \A n \in DOMAIN st.socks : k.fds[st.socks[n]][2] < st.next
      /\ u.user = "user" => st.uid = "user"
  BY Zenon DEF StartSocket, LaunchInv, StartInv
<1>3. /\ Keeps(k, r.k)
      /\ r.ok => r.val \in Fd /\ r.k.fds = [k.fds EXCEPT ![r.val] = <<"socket", st.next>>]
  BY <1>2, SocketKeeps
<1>4. ChildInv' /\ (u.user \in Users /\ Quotes(u))'
  BY ChildKept, Zenon DEF LaunchInv, StartSocket, Quotes
<1>5. /\ st'.next = st.next + 1 /\ DOMAIN st' = DOMAIN st /\ st'.pc = "sockets" /\ st'.uid = st.uid /\ st'.log = st.log
      /\ st'.socks = IF r.ok THEN Append(st.socks, r.val) ELSE st.socks
  BY <1>1, <1>2, Zenon
<1>6. Held(r.k.fds, st'.socks, st.log) /\ \A n \in DOMAIN st'.socks : r.k.fds[st'.socks[n]][2] < st.next + 1
  <2>1. CASE r.ok
    <3>1. r.val \in Fd /\ r.k.fds = [k.fds EXCEPT ![r.val] = <<"socket", st.next>>]
      BY <1>3, <2>1, Zenon
    <3>2. /\ Held(r.k.fds, Append(st.socks, r.val), st.log)
          /\ \A m \in DOMAIN Append(st.socks, r.val) : r.k.fds[Append(st.socks, r.val)[m]][2] < st.next + 1
      BY <1>2, <1>3, <3>1, HeldMore, Zenon
    <3>3. st'.socks = Append(st.socks, r.val)
      BY <1>5, <2>1, Zenon
    <3> QED
      BY <3>2, <3>3, Zenon
  <2>2. CASE ~r.ok
    <3>1. Held(r.k.fds, st.socks, st.log) /\ \A n \in DOMAIN st.socks : r.k.fds[st.socks[n]] = k.fds[st.socks[n]]
      BY <1>2, <1>3, HeldKept, SMTT(30)
    <3>2. \A n \in DOMAIN st.socks : k.fds[st.socks[n]][2] \in Nat
      <4> SUFFICES ASSUME NEW n \in DOMAIN st.socks PROVE k.fds[st.socks[n]][2] \in Nat
        BY Zenon
      <4>1. st.socks[n] \in Fd /\ k.fds[st.socks[n]] # None
        BY <1>2, SMTT(30) DEF Held
      <4>2. k.fds[st.socks[n]] \in Entry
        BY <1>2, <4>1, Zenon DEF Table
      <4> QED
        BY <4>2, Zenon DEF Entry
    <3>3. \A n \in DOMAIN st.socks : k.fds[st.socks[n]][2] < st.next + 1
      BY <1>2, <3>2, SMTT(30)
    <3> QED
      BY <1>5, <2>2, <3>1, <3>3, Zenon
  <2> QED
    BY <2>1, <2>2, Zenon
<1>7. StartInv'
  BY <1>1, <1>2, <1>5, <1>6 DEF StartInv
<1> QED
  BY <1>1, <1>3, <1>4, <1>7, Zenon DEF LaunchInv, Keeps

LEMMA ForkKept ==
  ASSUME LaunchInv, StartFork
  PROVE  LaunchInv'
<1>1. PICK r \in StartServiceAs(k) :
        \/ /\ r.ok /\ k' = r.k
           /\ child' = [at |-> "new", slice |-> FALSE, n |-> child.n + 1, by |-> "start", uid |-> st.uid,
                        pipe |-> PipeOf(k, st.log),
                        j |-> NewChild(r.k.faults, "root", r.k.fds, st.log, st.socks)]
           /\ st' = [st EXCEPT !.pc = "assign"]
        \/ Return(r.k) /\ child' = child
  BY Zenon DEF StartFork
<1>2. /\ st.next \in Nat /\ Table(k) /\ st.pc = "sockets" /\ u' = u
      /\ {"pc", "uid", "log", "notify", "socks", "next"} \subseteq DOMAIN st
      /\ Held(k.fds, st.socks, st.log)
      /\ u.user = "user" => st.uid = "user"
  BY Zenon DEF StartFork, LaunchInv, StartInv
<1>3. Same(k, r.k) /\ (r.ok => Resolves) /\ Table(r.k) /\ r.k.fds = k.fds
  BY <1>2, ForkSame, SameKeeps, Zenon DEF Same
<1>4. (u.user \in Users /\ Quotes(u))'
  BY <1>2, Zenon DEF LaunchInv, Quotes
<1>5. ASSUME r.ok, k' = r.k, st' = [st EXCEPT !.pc = "assign"],
             child' = [at |-> "new", slice |-> FALSE, n |-> child.n + 1, by |-> "start", uid |-> st.uid,
                       pipe |-> PipeOf(k, st.log),
                       j |-> NewChild(r.k.faults, "root", r.k.fds, st.log, st.socks)]
      PROVE  LaunchInv'
  <2>1. StartInv'
    BY <1>2, <1>5, Zenon DEF StartInv
  <2>2. /\ {"at", "slice", "n", "by", "uid", "pipe", "j"} \subseteq DOMAIN child'
        /\ child'.at = "new" /\ child'.uid = st.uid
        /\ child'.j = NewChild(r.k.faults, "root", k.fds, st.log, st.socks)
    BY <1>3, <1>5, Zenon
  <2>3. Resolves /\ k.fds \in [Fd -> Entry \cup {None}]
    BY <1>2, <1>3, <1>5, Zenon DEF Table
  <2>4. ChildInv'
    BY <1>2, <2>2, <2>3, ForkMakesChild, Zenon
  <2> QED
    BY <1>3, <1>4, <1>5, <2>1, <2>4, Zenon DEF LaunchInv
<1>6. ASSUME Return(r.k), child' = child
      PROVE  LaunchInv'
  BY <1>2, <1>3, <1>4, <1>6, ReturnKept, ChildKept, Zenon DEF LaunchInv
<1> QED
  BY <1>1, <1>5, <1>6, Zenon

LEMMA AssignKept ==
  ASSUME LaunchInv, StartAssign
  PROVE  LaunchInv'
<1> DEFINE e == CloseAll(k, {st.log} \cap Fd)
<1>1. PICK r \in AssignPidToCgroup(e) : k' = r.k /\ child' = [child EXCEPT !.slice = r.val]
  BY Zenon DEF StartAssign
<1>2. Table(k) /\ st.pc = "assign" /\ st' = [st EXCEPT !.pc = "ready"] /\ u' = u
  BY Zenon DEF StartAssign, LaunchInv
<1>3. Table(e)
  <2>1. e.fds = [f \in Fd |-> IF f \in {st.log} \cap Fd THEN None ELSE k.fds[f]]
    BY <1>2, Zenon DEF CloseAll, Table
  <2> QED
    BY <1>2, <2>1, Zenon DEF CloseAll, Table
<1> HIDE DEF e
<1>4. Table(k')
  BY <1>1, <1>3, ForkSame, SameKeeps, Zenon DEF SameAll
<1>5. StartInv'
  BY <1>2, Zenon DEF LaunchInv, StartInv
<1>6. /\ DOMAIN child' = DOMAIN child
      /\ child'.at = child.at /\ child'.uid = child.uid /\ child'.j = child.j
  BY <1>1, Zenon DEF LaunchInv, ChildInv
<1>7. ChildInv'
  BY <1>2, <1>6, Zenon DEF LaunchInv, ChildInv, ConfinedAtExec, SocketsInOrder, Resolves
<1> QED
  BY <1>2, <1>4, <1>5, <1>7, Zenon DEF LaunchInv, Quotes

\* The waits of start(), and its end.
LEMMA WaitsKept ==
  ASSUME LaunchInv, StartReady \/ WaitMessage \/ WaitTimeout
  PROVE  LaunchInv'
<1> DEFINE S == {f \in Fd : k.fds[f] # None /\ k.fds[f][1] = "notify"}
<1>1. /\ UNCHANGED <<u, child>>
      /\ k' = k \/ k' = CloseAll(k, S)
      /\ st.pc \in {"ready", "wait"}
      /\ \/ st' = st
         \/ \E pc \in {"oneshot", "wait", "threads"} : st' = [st EXCEPT !.pc = pc]
         \/ st' = [st EXCEPT !.pc = "threads", !.notify = FALSE]
  BY Zenon DEF StartReady, WaitMessage, WaitTimeout, WaitOver
<1> HIDE DEF S
<1>2. StartInv'
  BY <1>1, Zenon DEF LaunchInv, StartInv
<1>3. Table(k')
  <2>1. CASE k' = k
    BY <2>1, Zenon DEF LaunchInv, Table
  <2>2. CASE k' = CloseAll(k, S)
    <3>1. Table(k) /\ k'.fds = [f \in Fd |-> IF f \in S THEN None ELSE k.fds[f]] /\ k'.pipes = k.pipes
      BY <2>2, Zenon DEF CloseAll, Table, LaunchInv
    <3> QED
      BY <2>2, <3>1, Zenon DEF CloseAll, Table
  <2> QED
    BY <1>1, <2>1, <2>2
<1> QED
  BY <1>1, <1>2, <1>3, ChildKept, Zenon DEF LaunchInv, Quotes

LEMMA ThreadsKept ==
  ASSUME LaunchInv, StartThreads
  PROVE  LaunchInv'
<1>1. UNCHANGED <<u, child>> /\ st.pc = "threads"
  BY Zenon DEF StartThreads
<1>2. PICK r \in (IF u.restart THEN Call(k, TRUE, k) ELSE Ok(k, None)) :
        (k' = r.k /\ st' = [st EXCEPT !.pc = "post"]) \/ Return(r.k)
  BY Zenon DEF StartThreads
<1>3. Same(k, k) /\ Table(k)
  BY SameSame, Zenon DEF LaunchInv
<1>4. SameAll(k, Call(k, TRUE, k))
  BY <1>3, CallSame, Zenon
<1>5. Same(k, r.k)
  <2>1. CASE u.restart
    BY <1>4, <2>1, Zenon DEF SameAll
  <2>2. CASE ~u.restart
    BY <1>3, <2>2 DEF Ok
  <2> QED
    BY <2>1, <2>2, Zenon
<1>6. Table(r.k)
  BY <1>3, <1>5, SameKeeps, Zenon
<1>7. CASE k' = r.k /\ st' = [st EXCEPT !.pc = "post"]
  <2>1. StartInv'
    BY <1>1, <1>7, Zenon DEF LaunchInv, StartInv
  <2> QED
    BY <1>1, <1>6, <1>7, <2>1, ChildKept, Zenon DEF LaunchInv, Quotes
<1>8. CASE Return(r.k)
  BY <1>1, <1>6, <1>8, ReturnKept, ChildKept, Zenon DEF LaunchInv, Quotes
<1> QED
  BY <1>2, <1>7, <1>8, Zenon

LEMMA ReturnsKept ==
  ASSUME LaunchInv, StartOneshot \/ StartPost
  PROVE  LaunchInv'
<1>1. UNCHANGED <<u, child>> /\ Table(k) /\ Return(k)
  BY Zenon DEF StartOneshot, StartPost, LaunchInv
<1> QED
  BY <1>1, ReturnKept, ChildKept, Zenon DEF LaunchInv, Quotes

\* What the restart monitor collects for a new process.
LEMMA RelaunchCollects ==
  ASSUME Table(k), u.user \in Users, StartInv, Relaunch
  PROVE  /\ Keeps(k, k')
         /\ \/ child' = child
            \/ \E uid, w, slice, faults, pipe :
                 /\ child' = [at |-> "new", slice |-> slice, n |-> child.n + 1, by |-> "monitor", uid |-> uid,
                             pipe |-> pipe, j |-> NewChild(faults, "root", k'.fds, w, <<>>)]
                 /\ u.user = "user" => uid = "user"
                 /\ w # None => w \in Fd /\ k'.fds[w] # None /\ k'.fds[w][1] = "writer"
                 /\ Resolves
<1> DEFINE F4(e, uid, w) == Then(AssignPidToCgroup(e), LAMBDA g, slice : Ok(g, <<uid, w, slice>>))
           F3(e, uid, w) == Then(StartServiceAs(e), LAMBDA g, x : F4(g, uid, w))
           F2(e, uid) == Then(CreateServiceLogger(e), LAMBDA g, w : F3(g, uid, w))
           F1 == Then(ResolveCredentials(k), LAMBDA g, uid : F2(g, uid))
<1>1. \E r \in F1 :
        /\ k' = r.k
        /\ IF r.ok
           THEN child' = [at |-> "new", slice |-> r.val[3], n |-> child.n + 1, by |-> "monitor", uid |-> r.val[1],
                          pipe |-> PipeOf(r.k, r.val[2]),
                          j |-> NewChild(r.k.faults, "root", r.k.fds, r.val[2], <<>>)]
           ELSE child' = child
  BY Zenon DEF Relaunch
<1>2. ASSUME NEW e, NEW uid, NEW w, NEW r \in F4(e, uid, w)
      PROVE  \E q \in AssignPidToCgroup(e) : IF q.ok THEN r = [k |-> q.k, ok |-> TRUE, val |-> <<uid, w, q.val>>] ELSE r = q
  BY Zenon DEF Then, Ok
<1>3. ASSUME NEW e, NEW uid, NEW w, NEW r \in F3(e, uid, w)
      PROVE  \E q \in StartServiceAs(e) : IF q.ok THEN r \in F4(q.k, uid, w) ELSE r = q
  BY Zenon DEF Then
<1>4. ASSUME NEW e, NEW uid, NEW r \in F2(e, uid)
      PROVE  \E q \in CreateServiceLogger(e) : IF q.ok THEN r \in F3(q.k, uid, q.val) ELSE r = q
  BY Zenon DEF Then
<1>5. ASSUME NEW r \in F1
      PROVE  \E q \in ResolveCredentials(k) : IF q.ok THEN r \in F2(q.k, q.val) ELSE r = q
  BY Zenon DEF Then
<1> HIDE DEF F1, F2, F3, F4
<1>6. ASSUME NEW e, Table(e), NEW uid, NEW w, NEW r \in F4(e, uid, w)
      PROVE  Same(e, r.k) /\ (r.ok => \E slice : r.val = <<uid, w, slice>>)
  <2>1. PICK q \in AssignPidToCgroup(e) : IF q.ok THEN r = [k |-> q.k, ok |-> TRUE, val |-> <<uid, w, q.val>>] ELSE r = q
    BY <1>2, <1>6
  <2>2. Same(e, q.k)
    BY <1>6, ForkSame, Zenon DEF SameAll
  <2>3. CASE q.ok
    BY <2>1, <2>2, <2>3
  <2>4. CASE ~q.ok
    BY <2>1, <2>2, <2>4, Zenon
  <2> QED
    BY <2>3, <2>4, Zenon
<1>7. ASSUME NEW e, Table(e), NEW uid, NEW w, NEW r \in F3(e, uid, w)
      PROVE  Same(e, r.k) /\ (r.ok => Resolves /\ \E slice : r.val = <<uid, w, slice>>)
  <2>1. PICK q \in StartServiceAs(e) : IF q.ok THEN r \in F4(q.k, uid, w) ELSE r = q
    BY <1>3, <1>7
  <2>2. Same(e, q.k) /\ (q.ok => Resolves) /\ Table(q.k)
    BY <1>7, ForkSame, SameKeeps, Zenon
  <2>3. CASE q.ok
    BY <1>6, <2>1, <2>2, <2>3, SameOn, SMTT(30)
  <2>4. CASE ~q.ok
    BY <2>1, <2>2, <2>4, Zenon
  <2> QED
    BY <2>3, <2>4, Zenon
<1>8. ASSUME NEW e, Table(e), NEW uid, NEW r \in F2(e, uid)
      PROVE  /\ Keeps(e, r.k)
             /\ r.ok => /\ Resolves
                        /\ \E w, slice : /\ r.val = <<uid, w, slice>>
                                         /\ w # None => w \in Fd /\ r.k.fds[w] # None /\ r.k.fds[w][1] = "writer"
  <2>1. PICK q \in CreateServiceLogger(e) : IF q.ok THEN r \in F3(q.k, uid, q.val) ELSE r = q
    BY <1>4, <1>8
  <2>2. /\ q.ok /\ Keeps(e, q.k) /\ Table(q.k)
        /\ q.val # None => q.val \in Fd /\ q.k.fds[q.val] # None /\ q.k.fds[q.val][1] = "writer"
    BY <1>8, LoggerKeeps, Zenon DEF Keeps
  <2>3. Same(q.k, r.k) /\ (r.ok => Resolves /\ \E slice : r.val = <<uid, q.val, slice>>)
    BY <1>7, <2>1, <2>2, SMTT(30)
  <2>4. Keeps(e, r.k) /\ r.k.fds = q.k.fds
    BY <2>2, <2>3, SameKeeps, KeepsOn, Zenon DEF Same
  <2> QED
    BY <2>2, <2>3, <2>4, Zenon
<1>9. PICK r \in F1 :
        /\ k' = r.k
        /\ IF r.ok
           THEN child' = [at |-> "new", slice |-> r.val[3], n |-> child.n + 1, by |-> "monitor", uid |-> r.val[1],
                          pipe |-> PipeOf(r.k, r.val[2]),
                          j |-> NewChild(r.k.faults, "root", r.k.fds, r.val[2], <<>>)]
           ELSE child' = child
  BY <1>1, Zenon
<1>10. PICK q \in ResolveCredentials(k) : IF q.ok THEN r \in F2(q.k, q.val) ELSE r = q
  BY <1>5, Zenon
<1>11. Same(k, q.k) /\ (q.ok /\ u.user = "user" => q.val = "user") /\ Table(q.k) /\ Keeps(k, q.k)
  BY CredentialsSame, SameSame, SameKeeps, Zenon
<1>12. CASE r.ok
  <2>1. q.ok /\ r \in F2(q.k, q.val)
    BY <1>10, <1>12, Zenon
  <2>2. PICK w, slice : /\ r.val = <<q.val, w, slice>>
                        /\ w # None => w \in Fd /\ r.k.fds[w] # None /\ r.k.fds[w][1] = "writer"
    BY <1>8, <1>11, <1>12, <2>1, SMTT(30)
  <2>3. Keeps(q.k, r.k) /\ Resolves
    BY <1>8, <1>11, <1>12, <2>1, Zenon
  <2>4. Keeps(k, k')
    BY <1>9, <1>11, <2>3, KeepsOn, Zenon
  <2>5. r.val[1] = q.val /\ r.val[2] = w /\ r.val[3] = slice
    BY <2>2
  <2>6. child' = [at |-> "new", slice |-> slice, n |-> child.n + 1, by |-> "monitor", uid |-> q.val,
                  pipe |-> PipeOf(r.k, w), j |-> NewChild(r.k.faults, "root", k'.fds, w, <<>>)]
    BY <1>9, <1>12, <2>5, Zenon
  <2> QED
    BY <1>9, <1>11, <2>1, <2>2, <2>3, <2>4, <2>6, Zenon
<1>13. CASE ~r.ok
  <2>1. Keeps(k, r.k)
    BY <1>8, <1>10, <1>11, KeepsOn, Zenon
  <2> QED
    BY <1>9, <1>13, <2>1, Zenon
<1> QED
  BY <1>12, <1>13, Zenon

LEMMA RelaunchKept ==
  ASSUME LaunchInv, Relaunch
  PROVE  LaunchInv'
<1>1. UNCHANGED <<u, st>>
  BY Zenon DEF Relaunch
<1>2. Keeps(k, k')
  BY RelaunchCollects, Zenon DEF LaunchInv
<1>3. Table(k') /\ StartInv'
  BY <1>1, <1>2, StartKept, Zenon DEF LaunchInv
<1>4. ChildInv'
  <2>1. CASE child' = child
    BY <1>1, <2>1, ChildKept, Zenon DEF LaunchInv
  <2>2. CASE child' # child
    <3>1. PICK uid, w, slice, faults, pipe :
            /\ child' = [at |-> "new", slice |-> slice, n |-> child.n + 1, by |-> "monitor", uid |-> uid,
                        pipe |-> pipe, j |-> NewChild(faults, "root", k'.fds, w, <<>>)]
            /\ u.user = "user" => uid = "user"
            /\ w # None => w \in Fd /\ k'.fds[w] # None /\ k'.fds[w][1] = "writer"
            /\ Resolves
      BY <2>2, RelaunchCollects, Zenon DEF LaunchInv
    <3>2. Held(k'.fds, <<>>, w) /\ k'.fds \in [Fd -> Entry \cup {None}]
      BY <1>3, <3>1, SMTT(30) DEF Held, Table
    <3>3. /\ {"at", "slice", "n", "by", "uid", "pipe", "j"} \subseteq DOMAIN child'
          /\ child'.at = "new" /\ child'.uid = uid
          /\ child'.j = NewChild(faults, "root", k'.fds, w, <<>>)
      BY <3>1, Zenon
    <3> QED
      BY <1>1, <3>1, <3>2, <3>3, ForkMakesChild, Zenon
  <2> QED
    BY <2>1, <2>2, Zenon
<1> QED
  BY <1>1, <1>3, <1>4, Zenon DEF LaunchInv, Quotes

LEMMA OthersKept ==
  ASSUME LaunchInv, LoggerEnds \/ OtherThread
  PROVE  LaunchInv'
<1>1. UNCHANGED <<u, st, child>> /\ Table(k)
  BY Zenon DEF LoggerEnds, OtherThread, LaunchInv
<1>2. ASSUME NEW f \in Fd, k.fds[f] # None => k.fds[f][1] \notin {"socket", "writer"}, k' = CloseAll(k, {f})
      PROVE  Keeps(k, k')
  <2>1. k'.fds = [g \in Fd |-> IF g = f THEN None ELSE k.fds[g]]
    BY <1>1, <1>2, Zenon DEF CloseAll, Table
  <2>2. Table(k')
    BY <1>1, <1>2, <2>1, Zenon DEF CloseAll, Table
  <2> QED
    BY <1>2, <2>1, <2>2, Zenon DEF Keeps
<1>3. ASSUME LoggerEnds PROVE Keeps(k, k')
  <2>1. PICK f \in Fd : k.fds[f][1] = "reader" /\ k' = CloseAll(k, {f})
    BY <1>3, Zenon DEF LoggerEnds
  <2> QED
    BY <1>2, <2>1, Zenon
<1>4. ASSUME OtherThread PROVE Keeps(k, k')
  <2>1. CASE \E f \in Fd : k.fds[f] = <<"other", 0>> /\ k' = CloseAll(k, {f})
    <3>1. PICK f \in Fd : k.fds[f] = <<"other", 0>> /\ k' = CloseAll(k, {f})
      BY <2>1, Zenon
    <3>2. k.fds[f][1] = "other"
      BY <3>1
    <3> QED
      BY <1>2, <3>1, <3>2, Zenon
  <2>2. CASE Free(k) # {} /\ k' = [k EXCEPT !.fds[Lowest(Free(k))] = <<"other", 0>>, !.others = @ + 1]
    <3>1. Lowest(Free(k)) \in Fd /\ k.fds[Lowest(Free(k))] = None
      BY <2>2, LowestIsFree, Zenon DEF Free
    <3>2. k'.fds = [k.fds EXCEPT ![Lowest(Free(k))] = <<"other", 0>>] /\ <<"other", 0>> \in Entry
      BY <1>1, <2>2, Zenon DEF Table, Entry
    <3>3. Table(k')
      BY <1>1, <2>2, <3>1, <3>2, Zenon DEF Table
    <3> QED
      BY <1>1, <3>1, <3>2, <3>3, Zenon DEF Keeps, Table
  <2> QED
    BY <1>4, <2>1, <2>2, Zenon DEF OtherThread
<1>5. Keeps(k, k')
  BY <1>3, <1>4, Zenon
<1> QED
  BY <1>1, <1>5, StartKept, ChildKept, Zenon DEF LaunchInv, Quotes

LEMMA ServiceKept ==
  ASSUME LaunchInv, MonitorExit \/ ServiceExits \/ ServiceNotifies \/ ChildRuns
  PROVE  LaunchInv'
<1>1. UNCHANGED <<u, k, st>>
  BY Zenon DEF MonitorExit, ServiceExits, ServiceNotifies, ChildRuns
<1>2. ChildInv'
  <2>1. CASE MonitorExit \/ ServiceNotifies
    BY <1>1, <2>1, ChildKept, Zenon DEF MonitorExit, ServiceNotifies, LaunchInv
  <2>2. CASE ServiceExits
    <3>1. child' = [child EXCEPT !.at = "dead"]
      BY <2>2, Zenon DEF ServiceExits
    <3>2. DOMAIN child' = DOMAIN child /\ child'.at = "dead"
      BY <3>1, Zenon DEF LaunchInv, ChildInv
    <3> QED
      BY <3>2, Zenon DEF LaunchInv, ChildInv, ConfinedAtExec, SocketsInOrder
  <2>3. CASE ChildRuns
    BY <2>3, ChildRunsKept, Zenon DEF LaunchInv
  <2> QED
    BY <2>1, <2>2, <2>3, Zenon
<1>3. StartInv' /\ Table(k') /\ (u.user \in Users /\ Quotes(u))'
  BY <1>1, Zenon DEF LaunchInv, StartInv, Table, Quotes
<1> QED
  BY <1>2, <1>3, Zenon DEF LaunchInv

LEMMA LaunchInit1 ==
  ASSUME k' = NewKernel, st' = Idle, child' = NoChild
  PROVE  Table(k') /\ StartInv' /\ ChildInv'
<1>1. Table(k')
  BY Zenon DEF Table, NewKernel
<1>2. StartInv'
  BY Zenon DEF StartInv, Idle
<1>3. ChildInv'
  BY Zenon DEF ChildInv, NoChild, ConfinedAtExec, SocketsInOrder
<1> QED
  BY <1>1, <1>2, <1>3, Zenon

LEMMA LaunchInitially ==
  ASSUME Init
  PROVE  LaunchInv
<1>1. k = NewKernel /\ st = Idle /\ child = NoChild
  BY Zenon DEF Init, LaunchInit
<1>2. u.user \in Users /\ Quotes(u)
  BY WorkloadAssumption, QuotingAssumption, Zenon DEF Init
<1>3. Table(k)
  BY <1>1, Zenon DEF Table, NewKernel
<1>4. StartInv
  BY <1>1, Zenon DEF StartInv, Idle
<1>5. ChildInv
  BY <1>1, Zenon DEF ChildInv, NoChild, ConfinedAtExec, SocketsInOrder
<1> QED
  BY <1>2, <1>3, <1>4, <1>5, Zenon DEF LaunchInv

\* The invariant is inductive: one case per action.
LEMMA LaunchInductive ==
  ASSUME LaunchInv, [Next]_vars
  PROVE  LaunchInv'
<1>1. ASSUME UNCHANGED <<u, k, st, child>> PROVE LaunchInv'
  BY <1>1, ChildKept, Zenon DEF LaunchInv, StartInv, Table, Quotes
<1>2. CASE UNCHANGED vars
  BY <1>1, <1>2, Zenon DEF vars, lvars
<1>3. CASE TimerStep
  BY <1>1, <1>3, Zenon DEF TimerStep, lvars
<1>4. CASE Dispatch
  <2>1. CASE UNCHANGED lvars
    BY <1>1, <2>1, Zenon DEF lvars
  <2>2. CASE Begin
    <3>1. UNCHANGED <<u, k, child>> /\ (st' = Idle \/ st' = [Idle EXCEPT !.pc = "pre"])
      BY <2>2, Zenon DEF Begin
    <3>2. StartInv'
      BY <3>1 DEF StartInv, Idle
    <3> QED
      BY <3>1, <3>2, ChildKept, Zenon DEF LaunchInv, Table, Quotes
  <2> QED
    BY <1>4, <2>1, <2>2, Zenon DEF Dispatch, DispatchRecv, DispatchStart
<1>5. CASE LaunchStep
  <2>1. CASE StartPre \/ StartPrepare \/ StartLog \/ StartNotify \/ StartSocket \/ StartFork \/ StartAssign
    BY <2>1, PreKept, PrepareKept, LogKept, NotifyKept, SocketKept, ForkKept, AssignKept, Zenon
  <2>2. CASE StartReady \/ WaitMessage \/ WaitTimeout \/ StartOneshot \/ StartThreads \/ StartPost
    BY <2>2, WaitsKept, ThreadsKept, ReturnsKept, Zenon
  <2>3. CASE MonitorExit \/ Relaunch \/ ChildRuns \/ ServiceExits \/ ServiceNotifies \/ LoggerEnds \/ OtherThread
    BY <2>3, RelaunchKept, ServiceKept, OthersKept, Zenon
  <2>4. CASE WatchdogMarks \/ HealthGivesUp \/ FollowerEnds
    BY <1>1, <2>4, Zenon DEF WatchdogMarks, HealthGivesUp, FollowerEnds
  <2> QED
    BY <1>5, <2>1, <2>2, <2>3, <2>4, Zenon DEF LaunchStep, LaunchNext, StartSteps
<1>6. CASE Reboot
  BY <1>6, LaunchInit1, Zenon DEF Reboot, LaunchInv, Quotes
<1>7. CASE ClientLocks \/ ClientUnlocks
  BY <1>1, <1>7, Zenon DEF ClientLocks, ClientUnlocks, lvars
<1> QED
  BY <1>2, <1>3, <1>4, <1>5, <1>6, <1>7, Zenon DEF Next

\* LaunchInv holds throughout, for every unit, fire, crash and restart.
THEOREM LaunchHolds == Spec => []LaunchInv
<1>1. Init => LaunchInv
  BY LaunchInitially, Zenon
<1>2. LaunchInv /\ [Next]_vars => LaunchInv'
  BY LaunchInductive, Zenon
<1> QED
  BY <1>1, <1>2, PTL DEF Spec

\* No service runs with less confinement than its unit asks for in the settings that
\* start_service_as treats as fatal, whichever calls fail and however often the restart monitor
\* or the next fire starts it again.
THEOREM ServiceIsConfined == Spec => []ConfinedAtExec
<1>1. LaunchInv => ConfinedAtExec
  BY Zenon DEF LaunchInv, ChildInv
<1> QED
  BY <1>1, LaunchHolds, PTL

\* Activation sockets arrive from descriptor 3 on in the order of the unit, whatever other threads
\* of PID 1 open and close while start() collects them: every start keeps the sockets it holds, the
\* log pipe is none of them, and the dup2 loop of start_service_as overwrites none it still needs.
THEOREM SocketsArriveInOrder == Spec => []SocketsInOrder
<1>1. LaunchInv => SocketsInOrder
  BY Zenon DEF LaunchInv, ChildInv
<1> QED
  BY <1>1, LaunchHolds, PTL

\* A service runs with the arguments its command line was written for, whatever characters they
\* consist of and in whichever of its ways a shell would read each of them is quoted, except that
\* split_command_line loses every empty one; separate args are passed whole.
THEOREM ArgvIsAsQuoted == Spec => []ArgvAsQuoted
<1>1. LaunchInv => ArgvAsQuoted
  <2> SUFFICES ASSUME LaunchInv, child.at = "exec"
               PROVE  ResolveCommandArgv(u.command, u.args) = IF u.args = <<>> THEN NonEmpty(u.argv) ELSE u.argv
    BY Zenon DEF ArgvAsQuoted
  <2>1. Quotes(u) /\ ResolveCommandArgv(u.command, u.args) # Fail
    BY Zenon DEF LaunchInv, ChildInv, Resolves
  <2>2. CASE u.args # <<>>
    BY <2>1, <2>2, Zenon DEF Quotes, ResolveCommandArgv
  <2>3. CASE u.args = <<>>
    <3>1. ResolveCommandArgv(u.command, u.args) = SplitCommandLine(u.command)
      BY <2>3, Zenon DEF ResolveCommandArgv
    <3>2. /\ u.argv \in Seq(Seq(STRING))
          /\ \E styles \in [DOMAIN u.argv -> Styles] :
               /\ \A i \in DOMAIN u.argv : CanQuote(styles[i], u.argv[i])
               /\ u.command = QuoteLine(styles, u.argv)
      BY <2>1, <2>3, <3>1, Zenon DEF Quotes
    <3>3. PICK styles \in [DOMAIN u.argv -> Styles] :
            /\ \A i \in DOMAIN u.argv : CanQuote(styles[i], u.argv[i])
            /\ u.command = QuoteLine(styles, u.argv)
      BY <3>2, Zenon
    <3> DEFINE a == u.argv
    <3>4. a \in Seq(Seq(STRING)) /\ styles \in [DOMAIN a -> Styles] /\ \A i \in DOMAIN a : CanQuote(styles[i], a[i])
      BY <3>2, <3>3, Zenon
    <3> HIDE DEF a
    <3>5. SplitCommandLine(QuoteLine(styles, a)) = IF NonEmpty(a) = <<>> THEN Fail ELSE NonEmpty(a)
      BY <3>4, LineIsSplit, Zenon
    <3> QED
      BY <2>1, <2>3, <3>1, <3>3, <3>5, Zenon DEF a
  <2> QED
    BY <2>2, <2>3, Zenon
<1> QED
  BY <1>1, LaunchHolds, PTL
=============================================================================
