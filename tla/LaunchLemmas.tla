---------------------------- MODULE LaunchLemmas ----------------------------
(***************************************************************************)
(* What the operators of a launch do, for every unit and whatever calls    *)
(* fail: the child process between fork and exec (Sandbox), and the words  *)
(* of a command line (CommandLine).                                        *)
(***************************************************************************)
EXTENDS Launch, TLAPS

LOCAL INSTANCE WellFoundedInduction

\* A set of numbers that is not empty has a least one: what holds of no least number holds of none.
LEMMA NatLeast ==
  ASSUME NEW T, T \subseteq Nat, T # {}
  PROVE  \E x \in T : \A y \in T : x <= y
<1> DEFINE R == OpToRel(<, Nat)
<1>1. IsWellFoundedOn(R, Nat)
  BY NatLessThanWellFounded, Zenon
<1>2. PICK x \in T : \A y \in T : ~ (<<y, x>> \in R)
  BY <1>1, WFMin, Zenon
<1>3. \A y \in T : y < x => <<y, x>> \in R
  BY Zenon DEF OpToRel
<1> HIDE DEF R
<1>4. \A y \in T : ~(y < x)
  BY <1>2, <1>3, Zenon
<1> QED
  BY <1>4

------------------------------------------------------------------------------
(* The calls of a sequence, one after the other *)

\* One more call after those with the results R, by where in the launch it is made.
ThenOf(kind, v, uid, R, x) ==
  CASE kind = "all" -> Then(R, LAMBDA i, y : Mount(i, x))
    [] kind = "each" -> Then(R, LAMBDA i, y : Ignored(Mount(i, x)))
    [] kind = "sandbox" ->
         Then(R, LAMBDA i, y : When(x \in v.sandbox, i, Then(Setup(v, i, x), LAMBDA g, z : Ok(Did(g, x), None))))
    [] kind = "hardening" -> Then(R, LAMBDA i, y : Harden(v, i, x))
    [] kind = "child" -> Then(R, LAMBDA i, y : ChildStep(v, uid, i, x))
    [] kind = "cgroup" -> Then(R, LAMBDA i, y : Ignored(Call(i, i.slice, [i EXCEPT !.limits = @ \cup {x}])))
    [] kind = "limits" -> Then(R, LAMBDA i, y : When(x \in v.set, i, Ignored(ApplyLimit(i, x))))
AfterAt(kind, v, uid, j, s, f, n) == IF n = 0 THEN Ok(j, None) ELSE ThenOf(kind, v, uid, f[n - 1], s[n])
After(kind, v, uid, j, s, m, f) == f = [n \in 0 .. m |-> AfterAt(kind, v, uid, j, s, f, n)]

\* A sequence of calls has results.
LEMMA AfterExists ==
  ASSUME NEW kind, NEW v, NEW uid, NEW j, NEW s, NEW n \in Nat
  PROVE  \E f : After(kind, v, uid, j, s, n, f)
<1> DEFINE A(f, i) == AfterAt(kind, v, uid, j, s, f, i)
           T == {m \in Nat : ~ \E f : After(kind, v, uid, j, s, m, f)}
<1> SUFFICES ASSUME T # {} PROVE FALSE
  BY Zenon
<1>1. PICK m \in T : \A y \in T : m <= y
  BY NatLeast, Zenon
<1>2. CASE m = 0
  <2> DEFINE f == [i \in 0 .. 0 |-> Ok(j, None)]
  <2>1. f = [i \in 0 .. m |-> A(f, i)]
    BY <1>2 DEF AfterAt
  <2> QED
    BY <2>1, Zenon DEF After
<1>3. CASE m # 0
  <2>1. m - 1 \in Nat /\ ~(m <= m - 1) /\ m \in Nat
    BY <1>3
  <2>2. PICK f : After(kind, v, uid, j, s, m - 1, f)
    BY <1>1, <2>1, Zenon
  <2> DEFINE g == [i \in 0 .. m |-> IF i = m THEN A(f, m) ELSE f[i]]
  <2>3. \A i \in 0 .. m : g[i] = A(g, i)
    <3> SUFFICES ASSUME NEW i \in 0 .. m PROVE g[i] = A(g, i)
      BY Zenon
    <3>1. CASE i = m
      <4>1. g[i] = A(f, m) /\ g[m - 1] = f[m - 1]
        BY <2>1, <3>1
      <4> QED
        BY <2>1, <3>1, <4>1, Zenon DEF AfterAt
    <3>2. CASE i # m
      <4>1. i \in 0 .. m - 1 /\ g[i] = f[i] /\ (i # 0 => g[i - 1] = f[i - 1])
        BY <2>1, <3>2
      <4>2. f[i] = A(f, i)
        BY <2>2, <4>1, Zenon DEF After
      <4> QED
        BY <4>1, <4>2, Zenon DEF AfterAt
    <3> QED
      BY <3>1, <3>2, Zenon
  <2>4. g = [i \in 0 .. m |-> g[i]]
    BY Zenon
  <2> HIDE DEF g
  <2>5. After(kind, v, uid, j, s, m, g)
    BY <2>3, <2>4, Zenon DEF After
  <2> QED
    BY <2>5, Zenon
<1> QED
  BY <1>2, <1>3, Zenon

\* The results after each of the calls of s, of which the last are those of the sequence.
Steps(kind, v, uid, j, s, f) ==
  /\ f[0] = Ok(j, None)
  /\ \A n \in 1 .. Len(s) : f[n] = ThenOf(kind, v, uid, f[n - 1], s[n])

LEMMA AfterSteps ==
  ASSUME NEW kind, NEW v, NEW uid, NEW j, NEW s, NEW f, Len(s) \in Nat, After(kind, v, uid, j, s, Len(s), f)
  PROVE  Steps(kind, v, uid, j, s, f)
<1>1. \A n \in 0 .. Len(s) : f[n] = AfterAt(kind, v, uid, j, s, f, n)
  BY Zenon DEF After
<1> QED
  BY <1>1 DEF AfterAt, Steps

LEMMA MountAllUnfolds ==
  ASSUME NEW j, NEW s, Len(s) \in Nat
  PROVE  \E f : MountAll(j, s) = f[Len(s)] /\ Steps("all", None, None, j, s, f)
<1> DEFINE P(f) == f = [n \in 0 .. Len(s) |-> IF n = 0 THEN Ok(j, None)
                                              ELSE Then(f[n - 1], LAMBDA i, y : Mount(i, s[n]))]
           f == CHOOSE f : P(f)
<1>1. Len(s) \in Nat
  BY Zenon
<1>2. PICK e : After("all", None, None, j, s, Len(s), e)
  BY <1>1, AfterExists, Zenon
<1>3. P(e)
  BY <1>2, Zenon DEF After, AfterAt, ThenOf
<1>4. P(f)
  BY <1>3, Zenon
<1>5. MountAll(j, s) = f[Len(s)]
  BY Zenon DEF MountAll, Calls
<1> HIDE DEF f
<1>6. After("all", None, None, j, s, Len(s), f)
  BY <1>4, Zenon DEF After, AfterAt, ThenOf
<1> QED
  BY <1>1, <1>5, <1>6, AfterSteps, Zenon

LEMMA MountEachUnfolds ==
  ASSUME NEW j, NEW s, Len(s) \in Nat
  PROVE  \E f : MountEach(j, s) = f[Len(s)] /\ Steps("each", None, None, j, s, f)
<1> DEFINE P(f) == f = [n \in 0 .. Len(s) |-> IF n = 0 THEN Ok(j, None)
                                              ELSE Then(f[n - 1], LAMBDA i, y : Ignored(Mount(i, s[n])))]
           f == CHOOSE f : P(f)
<1>1. Len(s) \in Nat
  BY Zenon
<1>2. PICK e : After("each", None, None, j, s, Len(s), e)
  BY <1>1, AfterExists, Zenon
<1>3. P(e)
  BY <1>2, Zenon DEF After, AfterAt, ThenOf
<1>4. P(f)
  BY <1>3, Zenon
<1>5. MountEach(j, s) = f[Len(s)]
  BY Zenon DEF MountEach, Calls
<1> HIDE DEF f
<1>6. After("each", None, None, j, s, Len(s), f)
  BY <1>4, Zenon DEF After, AfterAt, ThenOf
<1> QED
  BY <1>1, <1>5, <1>6, AfterSteps, Zenon

LEMMA SandboxUnfolds ==
  ASSUME NEW v, NEW j
  PROVE  \E f : ApplySandbox(v, j) = f[Len(SandboxOrder)] /\ Steps("sandbox", v, None, j, SandboxOrder, f)
<1> DEFINE P(f) == f = [n \in 0 .. Len(SandboxOrder) |-> IF n = 0 THEN Ok(j, None)
                                              ELSE Then(f[n - 1], LAMBDA i, y : 
  When(SandboxOrder[n] \in v.sandbox, i, Then(Setup(v, i, SandboxOrder[n]), LAMBDA g, z : Ok(Did(g, SandboxOrder[n]), None))))]
           f == CHOOSE f : P(f)
<1>1. Len(SandboxOrder) \in Nat
  BY Zenon DEF SandboxOrder
<1>2. PICK e : After("sandbox", v, None, j, SandboxOrder, Len(SandboxOrder), e)
  BY <1>1, AfterExists, Zenon
<1>3. P(e)
  BY <1>2, Zenon DEF After, AfterAt, ThenOf
<1>4. P(f)
  BY <1>3, Zenon
<1>5. ApplySandbox(v, j) = f[Len(SandboxOrder)]
  BY Zenon DEF ApplySandbox, Calls
<1> HIDE DEF f
<1>6. After("sandbox", v, None, j, SandboxOrder, Len(SandboxOrder), f)
  BY <1>4, Zenon DEF After, AfterAt, ThenOf
<1> QED
  BY <1>1, <1>5, <1>6, AfterSteps, Zenon

LEMMA HardeningUnfolds ==
  ASSUME NEW v, NEW j
  PROVE  \E f : ApplyChildHardening(v, j) = f[Len(HardeningSteps)] /\ Steps("hardening", v, None, j, HardeningSteps, f)
<1> DEFINE P(f) == f = [n \in 0 .. Len(HardeningSteps) |-> IF n = 0 THEN Ok(j, None)
                                              ELSE Then(f[n - 1], LAMBDA i, y : Harden(v, i, HardeningSteps[n]))]
           f == CHOOSE f : P(f)
<1>1. Len(HardeningSteps) \in Nat
  BY Zenon DEF HardeningSteps
<1>2. PICK e : After("hardening", v, None, j, HardeningSteps, Len(HardeningSteps), e)
  BY <1>1, AfterExists, Zenon
<1>3. P(e)
  BY <1>2, Zenon DEF After, AfterAt, ThenOf
<1>4. P(f)
  BY <1>3, Zenon
<1>5. ApplyChildHardening(v, j) = f[Len(HardeningSteps)]
  BY Zenon DEF ApplyChildHardening, Calls
<1> HIDE DEF f
<1>6. After("hardening", v, None, j, HardeningSteps, Len(HardeningSteps), f)
  BY <1>4, Zenon DEF After, AfterAt, ThenOf
<1> QED
  BY <1>1, <1>5, <1>6, AfterSteps, Zenon

LEMMA ChildUnfolds ==
  ASSUME NEW v, NEW uid, NEW j
  PROVE  \E f : RunChild(v, uid, j) = {r.k : r \in f[Len(ChildOrder)]} /\ Steps("child", v, uid, j, ChildOrder, f)
<1> DEFINE P(f) == f = [n \in 0 .. Len(ChildOrder) |-> IF n = 0 THEN Ok(j, None)
                                              ELSE Then(f[n - 1], LAMBDA i, y : ChildStep(v, uid, i, ChildOrder[n]))]
           f == CHOOSE f : P(f)
<1>1. Len(ChildOrder) \in Nat
  BY Zenon DEF ChildOrder
<1>2. PICK e : After("child", v, uid, j, ChildOrder, Len(ChildOrder), e)
  BY <1>1, AfterExists, Zenon
<1>3. P(e)
  BY <1>2, Zenon DEF After, AfterAt, ThenOf
<1>4. P(f)
  BY <1>3, Zenon
<1>5. RunChild(v, uid, j) = {r.k : r \in f[Len(ChildOrder)]}
  BY Zenon DEF RunChild, Calls
<1> HIDE DEF f
<1>6. After("child", v, uid, j, ChildOrder, Len(ChildOrder), f)
  BY <1>4, Zenon DEF After, AfterAt, ThenOf
<1> QED
  BY <1>1, <1>5, <1>6, AfterSteps, Zenon

LEMMA CgroupUnfolds ==
  ASSUME NEW j
  PROVE  \E f : ApplyCgroupConfig(j) = f[Len(CgroupFiles)] /\ Steps("cgroup", None, None, j, CgroupFiles, f)
<1> DEFINE P(f) == f = [n \in 0 .. Len(CgroupFiles) |-> IF n = 0 THEN Ok(j, None)
                                              ELSE Then(f[n - 1], LAMBDA i, y : 
  Ignored(Call(i, i.slice, [i EXCEPT !.limits = @ \cup {CgroupFiles[n]}])))]
           f == CHOOSE f : P(f)
<1>1. Len(CgroupFiles) \in Nat
  BY Zenon DEF CgroupFiles
<1>2. PICK e : After("cgroup", None, None, j, CgroupFiles, Len(CgroupFiles), e)
  BY <1>1, AfterExists, Zenon
<1>3. P(e)
  BY <1>2, Zenon DEF After, AfterAt, ThenOf
<1>4. P(f)
  BY <1>3, Zenon
<1>5. ApplyCgroupConfig(j) = f[Len(CgroupFiles)]
  BY Zenon DEF ApplyCgroupConfig, Calls
<1> HIDE DEF f
<1>6. After("cgroup", None, None, j, CgroupFiles, Len(CgroupFiles), f)
  BY <1>4, Zenon DEF After, AfterAt, ThenOf
<1> QED
  BY <1>1, <1>5, <1>6, AfterSteps, Zenon

LEMMA LimitsUnfolds ==
  ASSUME NEW j
  PROVE  \E f : ApplyLimits(j) = f[Len(LimitSteps)] /\ Steps("limits", u, None, j, LimitSteps, f)
<1> DEFINE P(f) == f = [n \in 0 .. Len(LimitSteps) |-> IF n = 0 THEN Ok(j, None)
                                              ELSE Then(f[n - 1], LAMBDA i, y : 
  When(LimitSteps[n] \in u.set, i, Ignored(ApplyLimit(i, LimitSteps[n]))))]
           f == CHOOSE f : P(f)
<1>1. Len(LimitSteps) \in Nat
  BY Zenon DEF LimitSteps
<1>2. PICK e : After("limits", u, None, j, LimitSteps, Len(LimitSteps), e)
  BY <1>1, AfterExists, Zenon
<1>3. P(e)
  BY <1>2, Zenon DEF After, AfterAt, ThenOf
<1>4. P(f)
  BY <1>3, Zenon
<1>5. ApplyLimits(j) = f[Len(LimitSteps)]
  BY Zenon DEF ApplyLimits, Calls
<1> HIDE DEF f
<1>6. After("limits", u, None, j, LimitSteps, Len(LimitSteps), f)
  BY <1>4, Zenon DEF After, AfterAt, ThenOf
<1> QED
  BY <1>1, <1>5, <1>6, AfterSteps, Zenon

------------------------------------------------------------------------------
(* The child between fork and exec *)

Whole(j) ==
  {"faults", "uid", "fds", "log", "socks", "dead", "did", "ns", "mounts", "host", "loops", "reported", "kills", "refuses"}
  \subseteq DOMAIN j

\* What every step but that of the credentials and that of the descriptors keeps, however it ends:
\* a child that goes on has the user it had, and all that was applied to it before.
Later(j, i) ==
  /\ Whole(i)
  /\ j.dead => i.dead
  /\ ~i.dead => i.uid = j.uid /\ j.did \subseteq i.did
  /\ i.fds = j.fds /\ i.socks = j.socks /\ i.log = j.log
Follow(j, R) == \A r \in R : Later(j, r.k)

LEMMA LaterSame ==
  ASSUME NEW j, Whole(j)
  PROVE  Later(j, j)
BY Zenon DEF Later

LEMMA LaterOn ==
  ASSUME NEW j, NEW i, NEW e, Later(j, i), Later(i, e)
  PROVE  Later(j, e)
BY Zenon DEF Later

\* A request that fails leaves the child as it was, but for the faults.
LEMMA CallFollows ==
  ASSUME NEW j, NEW can, NEW i, Whole(j), Later(j, i)
  PROVE  Follow(j, Call(j, can, i)) /\ \A r \in Call(j, can, i) : r.ok => r.k = i
<1>1. Later(j, [j EXCEPT !.faults = @ - 1])
  BY Zenon DEF Later, Whole
<1>2. Later(j, j)
  BY LaterSame, Zenon
<1>3. \A r \in Call(j, can, i) :
        \/ r = [k |-> i, ok |-> TRUE, val |-> None]
        \/ r = [k |-> j, ok |-> FALSE, val |-> None]
        \/ r = [k |-> [j EXCEPT !.faults = @ - 1], ok |-> FALSE, val |-> None]
  BY Zenon DEF Call, Ok, Err
<1> QED
  BY <1>1, <1>2, <1>3 DEF Follow

\* A killed child does nothing more.
LEMMA SyscallFollows ==
  ASSUME NEW j, NEW nr, NEW can, NEW i, Whole(j), Later(j, i)
  PROVE  Follow(j, Syscall(j, nr, can, i)) /\ \A r \in Syscall(j, nr, can, i) : r.ok => r.k = i
<1>1. CASE j.dead
  BY <1>1, LaterSame DEF Syscall, Err, Follow
<1>2. CASE ~j.dead /\ nr \in j.kills
  <2>1. Later(j, [j EXCEPT !.dead = TRUE])
    BY <1>2, Zenon DEF Later, Whole
  <2>2. Syscall(j, nr, can, i) = Err([j EXCEPT !.dead = TRUE])
    BY <1>2, Zenon DEF Syscall
  <2> QED
    BY <2>1, <2>2 DEF Err, Follow
<1>3. CASE ~j.dead /\ nr \notin j.kills
  <2>1. Syscall(j, nr, can, i) = Call(j, can /\ nr \notin j.refuses, i)
    BY <1>3, Zenon DEF Syscall
  <2> QED
    BY <2>1, CallFollows
<1> QED
  BY <1>1, <1>2, <1>3, Zenon

LEMMA DidLater ==
  ASSUME NEW j, NEW x, Whole(j)
  PROVE  Later(j, Did(j, x)) /\ x \in Did(j, x).did
BY Zenon DEF Later, Whole, Did

LEMMA IgnoredFollows ==
  ASSUME NEW j, NEW R, Follow(j, R)
  PROVE  Follow(j, Ignored(R)) /\ \A r \in Ignored(R) : r.ok
<1>1. \A r \in Ignored(R) : \E q \in R : r = [k |-> q.k, ok |-> TRUE, val |-> None]
  BY Zenon DEF Ignored, Always, Ok
<1> QED
  BY <1>1 DEF Follow

LEMMA WhenFollows ==
  ASSUME NEW c, NEW j, NEW R, Whole(j), c => Follow(j, R)
  PROVE  Follow(j, When(c, j, R))
<1>1. CASE c
  BY <1>1, Zenon DEF When
<1>2. CASE ~c
  BY <1>2, LaterSame DEF When, Ok, Follow
<1> QED
  BY <1>1, <1>2, Zenon

\* A step that may not fail ends the child when it does.
LEMMA OrExitFollows ==
  ASSUME NEW j, NEW R, Follow(j, R)
  PROVE  /\ Follow(j, OrExit(R))
         /\ \A r \in OrExit(R) : (r.ok /\ r \in R) \/ (~r.ok /\ r.k.dead)
<1> SUFFICES ASSUME NEW r \in OrExit(R)
             PROVE  Later(j, r.k) /\ ((r.ok /\ r \in R) \/ (~r.ok /\ r.k.dead))
  BY Zenon DEF Follow
<1>1. PICK q \in R : IF q.ok THEN r \in {q} ELSE r \in Exit(Ok(q.k, None))
  BY Zenon DEF OrExit, OrElse
<1>2. CASE q.ok
  BY <1>1, <1>2, Zenon DEF Follow
<1>3. CASE ~q.ok
  <2>1. r = [k |-> [q.k EXCEPT !.dead = TRUE], ok |-> FALSE, val |-> None]
    BY <1>1, <1>3 DEF Exit, Always, Ok, Err
  <2>2. Later(j, q.k)
    BY Zenon DEF Follow
  <2>3. Later(j, [q.k EXCEPT !.dead = TRUE]) /\ [q.k EXCEPT !.dead = TRUE].dead
    BY <2>2, Zenon DEF Later, Whole
  <2> QED
    BY <2>1, <2>3, Zenon
<1> QED
  BY <1>2, <1>3, Zenon

\* If each call of a sequence follows on what it finds, so does the sequence.
LEMMA StepsFollow ==
  ASSUME NEW kind, NEW v, NEW uid, NEW j, NEW s, NEW f, Len(s) \in Nat, Whole(j),
         Steps(kind, v, uid, j, s, f),
         \A n \in 1 .. Len(s) : \A R : Follow(j, R) => Follow(j, ThenOf(kind, v, uid, R, s[n]))
  PROVE  \A n \in 0 .. Len(s) : Follow(j, f[n])
<1> DEFINE T == {n \in Nat : n <= Len(s) /\ ~Follow(j, f[n])}
<1> SUFFICES ASSUME T # {} PROVE FALSE
  OBVIOUS
<1>1. PICK m \in T : \A y \in T : m <= y
  BY NatLeast, Zenon
<1>2. m # 0
  BY LaterSame DEF Steps, Follow, Ok
<1>3. m - 1 \in Nat /\ m - 1 <= Len(s) /\ ~(m <= m - 1) /\ m \in 1 .. Len(s)
  BY <1>2
<1>4. Follow(j, f[m - 1])
  BY <1>1, <1>3, Zenon
<1> QED
  BY <1>3, <1>4, Zenon DEF Steps
LEMMA UnshareFollows ==
  ASSUME NEW j, NEW ns, Whole(j)
  PROVE  Follow(j, Unshare(j, ns))
<1>1. Later(j, [j EXCEPT !.ns = @ \cup {ns}])
  BY Zenon DEF Later, Whole
<1> QED
  BY <1>1, SyscallFollows, Zenon DEF Unshare

LEMMA MountFollows ==
  ASSUME NEW j, NEW p, Whole(j)
  PROVE  Follow(j, Mount(j, p))
<1>1. Later(j, [j EXCEPT !.mounts = @ \cup {p}]) /\ Later(j, [j EXCEPT !.host = @ \cup {p}])
  BY Zenon DEF Later, Whole
<1>2. Later(j, IF "mnt" \in j.ns THEN [j EXCEPT !.mounts = @ \cup {p}] ELSE [j EXCEPT !.host = @ \cup {p}])
  BY <1>1, Zenon
<1> QED
  BY <1>2, SyscallFollows, Zenon DEF Mount

LEMMA MountAllFollows ==
  ASSUME NEW j, NEW s, Whole(j), Len(s) \in Nat
  PROVE  Follow(j, MountAll(j, s))
<1>1. PICK f : MountAll(j, s) = f[Len(s)] /\ Steps("all", None, None, j, s, f)
  BY MountAllUnfolds, Zenon
<1>2. ASSUME NEW n \in 1 .. Len(s), NEW R, Follow(j, R)
      PROVE  Follow(j, ThenOf("all", None, None, R, s[n]))
  <2> SUFFICES ASSUME NEW r \in ThenOf("all", None, None, R, s[n]) PROVE Later(j, r.k)
    BY Zenon DEF Follow
  <2>1. PICK q \in R : IF q.ok THEN r \in Mount(q.k, s[n]) ELSE r = q
    BY Zenon DEF ThenOf, Then
  <2>2. Later(j, q.k)
    BY <1>2, Zenon DEF Follow
  <2>3. Follow(q.k, Mount(q.k, s[n]))
    BY <2>2, MountFollows, Zenon DEF Later
  <2> QED
    BY <2>1, <2>2, <2>3, LaterOn, Zenon DEF Follow
<1> QED
  BY <1>1, <1>2, StepsFollow

LEMMA MountEachFollows ==
  ASSUME NEW j, NEW s, Whole(j), Len(s) \in Nat
  PROVE  Follow(j, MountEach(j, s))
<1>1. PICK f : MountEach(j, s) = f[Len(s)] /\ Steps("each", None, None, j, s, f)
  BY MountEachUnfolds, Zenon
<1>2. ASSUME NEW n \in 1 .. Len(s), NEW R, Follow(j, R)
      PROVE  Follow(j, ThenOf("each", None, None, R, s[n]))
  <2> SUFFICES ASSUME NEW r \in ThenOf("each", None, None, R, s[n]) PROVE Later(j, r.k)
    BY Zenon DEF Follow
  <2>1. PICK q \in R : IF q.ok THEN r \in Ignored(Mount(q.k, s[n])) ELSE r = q
    BY Zenon DEF ThenOf, Then
  <2>2. Later(j, q.k)
    BY <1>2, Zenon DEF Follow
  <2>3. Follow(q.k, Ignored(Mount(q.k, s[n])))
    BY <2>2, MountFollows, IgnoredFollows, Zenon DEF Later
  <2> QED
    BY <2>1, <2>2, <2>3, LaterOn, Zenon DEF Follow
<1> QED
  BY <1>1, <1>2, StepsFollow

\* The setup functions of sandbox.rs, of which most mount in a namespace of their own.
LEMMA MountingFollows ==
  ASSUME NEW j, Whole(j)
  PROVE  /\ Follow(j, SetupPrivateDevices(j)) /\ \A mode : Follow(j, SetupProtectHome(j, mode))
         /\ Follow(j, SetupProtectProc(j)) /\ Follow(j, SetupProtectKernelTunables(j))
         /\ Follow(j, SetupProtectKernelLogs(j)) /\ Follow(j, SetupProtectControlGroups(j))
         /\ Follow(j, SetupInaccessiblePaths(j)) /\ Follow(j, SetupReadOnlyPaths(j))
         /\ \A ro : Follow(j, SetupBindPaths(j, ro))
         /\ Follow(j, SetupTemporaryFilesystems(j)) /\ Follow(j, SetupMountApiVfs(j))
         /\ Follow(j, SetupProcSubsetPid(j))
<1> DEFINE N == Unshare(j, "mnt")
<1>1. \A q \in N : Later(j, q.k) /\ Whole(q.k)
  BY UnshareFollows DEF Follow, Later
<1>2. ASSUME NEW q \in N
      PROVE  /\ \A s : Len(s) \in Nat => Follow(q.k, MountEach(q.k, s))
             /\ \A s : Len(s) \in Nat => Follow(q.k, MountAll(q.k, s))
             /\ \A p : Follow(q.k, Mount(q.k, p))
  BY <1>1, MountEachFollows, MountAllFollows, MountFollows, Zenon
<1>3. ASSUME NEW R, \A r \in R : \E q \in N : r = q \/ \E Q : Follow(q.k, Q) /\ r \in Q
      PROVE  Follow(j, R)
  BY <1>1, <1>3, LaterOn, Zenon DEF Follow
<1> HIDE DEF N
<1>4. Follow(j, SetupPrivateDevices(j))
  <2>1. ASSUME NEW r \in SetupPrivateDevices(j)
        PROVE  \E q \in N : r = q \/ r \in MountEach(q.k, <<"/dev/disk", "/dev/kmsg">>)
    BY Zenon DEF SetupPrivateDevices, InMountNs, Then, N
  <2>2. Len(<<"/dev/disk", "/dev/kmsg">>) \in Nat
    BY Zenon
  <2> QED
    BY <1>2, <1>3, <2>1, <2>2, Zenon
<1>5. ASSUME NEW mode PROVE Follow(j, SetupProtectHome(j, mode))
  <2> DEFINE s == IF mode = "read-only" THEN <<"/home", "/home-ro", "/root", "/root-ro">> ELSE <<"/home", "/root">>
  <2>1. ASSUME NEW r \in SetupProtectHome(j, mode)
        PROVE  \E q \in N : r = q \/ r \in MountAll(q.k, s)
    BY Zenon DEF SetupProtectHome, InMountNs, Then, N
  <2>2. Len(s) \in Nat
    BY Zenon
  <2> QED
    BY <1>2, <1>3, <2>1, <2>2, Zenon
<1>6. Follow(j, SetupProtectProc(j))
  <2>1. ASSUME NEW r \in SetupProtectProc(j)
        PROVE  \E q \in N : r = q \/ r \in Mount(q.k, "/proc")
    BY Zenon DEF SetupProtectProc, InMountNs, Then, N
  <2> QED
    BY <1>2, <1>3, <2>1, Zenon
<1>7. Follow(j, SetupProtectKernelTunables(j))
  <2>1. ASSUME NEW r \in SetupProtectKernelTunables(j)
        PROVE  \E q \in N : r = q \/ r \in MountEach(q.k, <<"/sys", "/sys-ro">>)
    BY Zenon DEF SetupProtectKernelTunables, InMountNs, Then, N
  <2>2. Len(<<"/sys", "/sys-ro">>) \in Nat
    BY Zenon
  <2> QED
    BY <1>2, <1>3, <2>1, <2>2, Zenon
<1>8. Follow(j, SetupProtectKernelLogs(j))
  <2>1. ASSUME NEW r \in SetupProtectKernelLogs(j)
        PROVE  \E q \in N : r = q \/ r \in Mount(q.k, "/dev/kmsg")
    BY Zenon DEF SetupProtectKernelLogs, InMountNs, Then, N
  <2> QED
    BY <1>2, <1>3, <2>1, Zenon
<1>9. Follow(j, SetupProtectControlGroups(j))
  <2>1. ASSUME NEW r \in SetupProtectControlGroups(j)
        PROVE  \E q \in N : \/ r = q
                            \/ \E p \in Ignored(Mount(q.k, "/sys/fs/cgroup")) :
                                 r = p \/ r \in Mount(p.k, "/sys/fs/cgroup-ro")
    BY DEF SetupProtectControlGroups, InMountNs, Then, N
  <2>2. ASSUME NEW q \in N, NEW p \in Ignored(Mount(q.k, "/sys/fs/cgroup"))
        PROVE  Later(q.k, p.k) /\ \A r \in Mount(p.k, "/sys/fs/cgroup-ro") : Later(q.k, r.k)
    <3>1. Later(q.k, p.k)
      BY <1>2, IgnoredFollows, Zenon DEF Follow
    <3>2. Follow(p.k, Mount(p.k, "/sys/fs/cgroup-ro"))
      BY <3>1, MountFollows, Zenon DEF Later
    <3> QED
      BY <3>1, <3>2, LaterOn, Zenon DEF Follow
  <2> QED
    BY <1>1, <2>1, <2>2, LaterOn, Zenon DEF Follow
<1>10. Follow(j, SetupInaccessiblePaths(j))
  <2>1. ASSUME NEW r \in SetupInaccessiblePaths(j)
        PROVE  \E q \in N : r = q \/ r \in MountEach(q.k, <<"/hidden">>)
    BY Zenon DEF SetupInaccessiblePaths, InMountNs, Then, N
  <2>2. Len(<<"/hidden">>) \in Nat
    BY Zenon
  <2> QED
    BY <1>2, <1>3, <2>1, <2>2, Zenon
<1>11. Follow(j, SetupReadOnlyPaths(j))
  <2>1. ASSUME NEW r \in SetupReadOnlyPaths(j)
        PROVE  \E q \in N : r = q \/ r \in MountEach(q.k, <<"/etc", "/etc-ro">>)
    BY Zenon DEF SetupReadOnlyPaths, InMountNs, Then, N
  <2>2. Len(<<"/etc", "/etc-ro">>) \in Nat
    BY Zenon
  <2> QED
    BY <1>2, <1>3, <2>1, <2>2, Zenon
<1>12. ASSUME NEW ro PROVE Follow(j, SetupBindPaths(j, ro))
  <2> DEFINE s == IF ro THEN <<"/src", "/src-ro">> ELSE <<"/bound">>
  <2>1. ASSUME NEW r \in SetupBindPaths(j, ro)
        PROVE  \E q \in N : r = q \/ r \in MountAll(q.k, s)
    BY Zenon DEF SetupBindPaths, InMountNs, Then, N
  <2>2. Len(s) \in Nat
    BY Zenon
  <2> QED
    BY <1>2, <1>3, <2>1, <2>2, Zenon
<1>13. Follow(j, SetupTemporaryFilesystems(j))
  <2>1. ASSUME NEW r \in SetupTemporaryFilesystems(j)
        PROVE  \E q \in N : r = q \/ r \in MountAll(q.k, <<"/scratch">>)
    BY Zenon DEF SetupTemporaryFilesystems, InMountNs, Then, N
  <2>2. Len(<<"/scratch">>) \in Nat
    BY Zenon
  <2> QED
    BY <1>2, <1>3, <2>1, <2>2, Zenon
<1>14. Follow(j, SetupMountApiVfs(j))
  <2>1. ASSUME NEW r \in SetupMountApiVfs(j)
        PROVE  \E q \in N : r = q \/ r \in MountEach(q.k, <<"/proc", "/dev">>)
    BY Zenon DEF SetupMountApiVfs, InMountNs, Then, N
  <2>2. Len(<<"/proc", "/dev">>) \in Nat
    BY Zenon
  <2> QED
    BY <1>2, <1>3, <2>1, <2>2, Zenon
<1>15. Follow(j, SetupProcSubsetPid(j))
  <2>1. ASSUME NEW r \in SetupProcSubsetPid(j)
        PROVE  \E q \in N : r = q \/ r \in MountEach(q.k, <<"/proc">>)
    BY Zenon DEF SetupProcSubsetPid, InMountNs, Then, N
  <2>2. Len(<<"/proc">>) \in Nat
    BY Zenon
  <2> QED
    BY <1>2, <1>3, <2>1, <2>2, Zenon
<1> QED
  BY <1>4, <1>5, <1>6, <1>7, <1>8, <1>9, <1>10, <1>11, <1>12, <1>13, <1>14, <1>15, Zenon

LEMMA SettingFollows ==
  ASSUME NEW j, Whole(j)
  PROVE  /\ Follow(j, SetupPrivateNetwork(j)) /\ Follow(j, SetupPrivateIpc(j)) /\ Follow(j, SetupProtectHostname(j))
         /\ Follow(j, SetupMemoryDenyWriteExecute(j)) /\ Follow(j, SetupRestrictSuidSgid(j))
         /\ Follow(j, SetupRootDirectory(j)) /\ Follow(j, SetupRootImage(j))
         /\ Follow(j, SetupRestrictRealtime(j)) /\ Follow(j, SetupLockPersonality(j))
<1>1. Follow(j, SetupPrivateNetwork(j)) /\ Follow(j, SetupPrivateIpc(j)) /\ Follow(j, SetupProtectHostname(j))
  BY UnshareFollows, Zenon DEF SetupPrivateNetwork, SetupPrivateIpc, SetupProtectHostname
<1>2. \A x, nr, can : Follow(j, Syscall(j, nr, can, Did(j, x))) /\ Follow(j, Ignored(Syscall(j, nr, can, Did(j, x))))
  BY DidLater, SyscallFollows, IgnoredFollows, Zenon
<1>3. Follow(j, SetupMemoryDenyWriteExecute(j)) /\ Follow(j, SetupRestrictSuidSgid(j))
  BY <1>2, Zenon DEF SetupMemoryDenyWriteExecute, SetupRestrictSuidSgid
<1>4. \A i : Whole(i) => Follow(i, SetupRootDirectory(i))
  BY DidLater, SyscallFollows, Zenon DEF SetupRootDirectory
<1>5. Follow(j, SetupRootImage(j))
  <2> DEFINE L == Call(j, IsRoot(j), [j EXCEPT !.loops = @ + 1])
  <2>1. Later(j, [j EXCEPT !.loops = @ + 1])
    BY Zenon DEF Later, Whole
  <2>2. Follow(j, L)
    BY <2>1, CallFollows, Zenon
  <2> SUFFICES ASSUME NEW r \in SetupRootImage(j) PROVE Later(j, r.k)
    BY Zenon DEF Follow
  <2>3. PICK q \in L :
          \/ r = q
          \/ r \in Then(Mount(q.k, "/run/quantra-service-root"), LAMBDA e, y : SetupRootDirectory(e))
    BY Zenon DEF SetupRootImage, Then
  <2>4. Later(j, q.k) /\ Whole(q.k)
    BY <2>2, Zenon DEF Follow, Later
  <2>5. CASE r # q
    <3>1. PICK p \in Mount(q.k, "/run/quantra-service-root") : r = p \/ r \in SetupRootDirectory(p.k)
      BY <2>3, <2>5, Zenon DEF Then
    <3>2. Later(q.k, p.k) /\ Whole(p.k)
      BY <2>4, MountFollows, Zenon DEF Follow, Later
    <3>3. r \in SetupRootDirectory(p.k) => Later(p.k, r.k)
      BY <1>4, <3>2, Zenon DEF Follow
    <3> QED
      BY <2>4, <3>1, <3>2, <3>3, LaterOn, Zenon
  <2> QED
    BY <2>4, <2>5, Zenon
<1>6. Follow(j, SetupRestrictRealtime(j)) /\ Follow(j, SetupLockPersonality(j))
  BY <1>2, Zenon DEF SetupRestrictRealtime, SetupLockPersonality
<1> QED
  BY <1>1, <1>3, <1>4, <1>5, <1>6, Zenon

LEMMA SandboxFollows ==
  ASSUME NEW v, NEW j, Whole(j)
  PROVE  Follow(j, ApplySandbox(v, j))
<1>1. PICK f : ApplySandbox(v, j) = f[Len(SandboxOrder)] /\ Steps("sandbox", v, None, j, SandboxOrder, f)
  BY SandboxUnfolds, Zenon
<1>2. Len(SandboxOrder) = 22
  BY Zenon DEF SandboxOrder
<1>3. ASSUME NEW n \in 1 .. 22, NEW i, Whole(i)
      PROVE  Follow(i, Setup(v, i, SandboxOrder[n]))
  <2>1. Follow(i, When("root_image" \notin v.sandbox, i, SetupRootDirectory(i)))
    BY <1>3, SettingFollows, WhenFollows, Zenon
  <2>2. SandboxOrder[n] \in
          {"private_network", "private_ipc", "protect_hostname", "private_devices", "protect_home", "protect_proc",
           "protect_kernel_tunables", "protect_kernel_logs", "protect_control_groups", "inaccessible_paths",
           "read_only_paths", "bind_paths", "bind_read_only_paths", "memory_deny_write_execute",
           "restrict_suid_sgid", "root_image", "root_directory", "temporary_filesystems", "mount_api_vfs",
           "proc_subset_pid", "restrict_realtime", "lock_personality"}
    BY DEF SandboxOrder
  <2>3. /\ Follow(i, SetupPrivateDevices(i)) /\ Follow(i, SetupProtectHome(i, v.home))
        /\ Follow(i, SetupBindPaths(i, TRUE)) /\ Follow(i, SetupBindPaths(i, FALSE))
    BY <1>3, MountingFollows, Zenon
  <2> QED
    BY <1>3, <2>1, <2>2, <2>3, MountingFollows, SettingFollows, Zenon DEF Setup
<1>4. ASSUME NEW n \in 1 .. 22, NEW R, Follow(j, R)
      PROVE  Follow(j, ThenOf("sandbox", v, None, R, SandboxOrder[n]))
  <2> DEFINE x == SandboxOrder[n]
             After1(i) == Then(Setup(v, i, x), LAMBDA g, z : Ok(Did(g, x), None))
  <2> HIDE DEF After1
  <2> SUFFICES ASSUME NEW r \in ThenOf("sandbox", v, None, R, x) PROVE Later(j, r.k)
    BY Zenon DEF Follow
  <2>1. PICK q \in R : IF q.ok THEN r \in When(x \in v.sandbox, q.k, After1(q.k)) ELSE r = q
    BY Zenon DEF ThenOf, Then, After1
  <2>2. Later(j, q.k) /\ Whole(q.k)
    BY <1>4, Zenon DEF Follow, Later
  <2>3. Follow(q.k, After1(q.k))
    <3> SUFFICES ASSUME NEW e \in After1(q.k) PROVE Later(q.k, e.k)
      BY Zenon DEF Follow
    <3>1. PICK p \in Setup(v, q.k, x) : e = p \/ e = [k |-> Did(p.k, x), ok |-> TRUE, val |-> None]
      BY Zenon DEF Then, Ok, After1
    <3>2. Later(q.k, p.k)
      BY <1>3, <2>2, Zenon DEF Follow
    <3>3. Later(p.k, Did(p.k, x))
      BY <3>2, DidLater, Zenon DEF Later
    <3>4. e.k \in {p.k, Did(p.k, x)}
      BY <3>1
    <3> QED
      BY <3>2, <3>3, <3>4, LaterOn
  <2>4. Follow(q.k, When(x \in v.sandbox, q.k, After1(q.k)))
    BY <2>2, <2>3, WhenFollows, Zenon
  <2> QED
    BY <2>1, <2>2, <2>4, LaterOn, Zenon DEF Follow
<1>5. \A n \in 1 .. Len(SandboxOrder) : \A R :
        Follow(j, R) => Follow(j, ThenOf("sandbox", v, None, R, SandboxOrder[n]))
  BY <1>2, <1>4, Zenon
<1>6. Len(SandboxOrder) \in Nat
  BY <1>2
<1>7. Follow(j, f[Len(SandboxOrder)])
  BY <1>1, <1>5, <1>6, StepsFollow
<1> QED
  BY <1>1, <1>7, Zenon

\* The settings whose failure ends the child.
Fatal == {"no_new_privileges", "non_dumpable", "clear_ambient_caps", "drop_capabilities"}

LEMMA HardenFollows ==
  ASSUME NEW v, NEW j, NEW s, Whole(j)
  PROVE  /\ Follow(j, Harden(v, j, s))
         /\ \A r \in Harden(v, j, s) : r.ok /\ s \in v.set /\ s \in Fatal => s \in r.k.did
<1> DEFINE can == s \in {"no_new_privileges", "non_dumpable", "clear_ambient_caps"} \/ IsRoot(j)
           R == Syscall(j, "prctl", can, Did(j, s))
<1>1. Follow(j, R) /\ \A r \in R : r.ok => r.k = Did(j, s)
  BY DidLater, SyscallFollows, Zenon
<1>2. Follow(j, Ignored(R))
  BY <1>1, IgnoredFollows, Zenon
<1>3. Harden(v, j, s) = When(s \in v.set, j, IF s \in {"capability_bounding_set", "ambient_capabilities"} THEN Ignored(R) ELSE R)
  BY Zenon DEF Harden
<1> HIDE DEF R
<1>4. Follow(j, IF s \in {"capability_bounding_set", "ambient_capabilities"} THEN Ignored(R) ELSE R)
  BY <1>1, <1>2, Zenon
<1>5. Follow(j, Harden(v, j, s))
  BY <1>3, <1>4, WhenFollows, Zenon
<1>6. ASSUME s \in v.set, s \in Fatal PROVE \A r \in Harden(v, j, s) : r.ok => s \in r.k.did
  <2>1. Harden(v, j, s) = R
    BY <1>3, <1>6, Zenon DEF When, Fatal
  <2> QED
    BY <1>1, <2>1, DidLater, Zenon
<1> QED
  BY <1>5, <1>6, Zenon

\* apply_child_hardening returns true only with all of them applied.
LEMMA HardeningApplied ==
  ASSUME NEW v, NEW j, Whole(j)
  PROVE  /\ Follow(j, ApplyChildHardening(v, j))
         /\ \A r \in ApplyChildHardening(v, j) : r.ok /\ ~r.k.dead => v.set \cap Fatal \subseteq r.k.did
<1>1. PICK f : /\ ApplyChildHardening(v, j) = f[Len(HardeningSteps)]
               /\ Steps("hardening", v, None, j, HardeningSteps, f)
  BY HardeningUnfolds, Zenon
<1>2. Len(HardeningSteps) = 6
  BY Zenon DEF HardeningSteps
<1> DEFINE s == HardeningSteps
<1>3. ASSUME NEW n \in 1 .. 6, NEW R, Follow(j, R)
      PROVE  /\ Follow(j, ThenOf("hardening", v, None, R, s[n]))
             /\ \A r \in ThenOf("hardening", v, None, R, s[n]) :
                  r.ok => \E q \in R : q.ok /\ Later(q.k, r.k) /\ (s[n] \in v.set /\ s[n] \in Fatal => s[n] \in r.k.did)
  <2> SUFFICES ASSUME NEW r \in ThenOf("hardening", v, None, R, s[n])
               PROVE  /\ Later(j, r.k)
                      /\ r.ok => \E q \in R : /\ q.ok /\ Later(q.k, r.k)
                                              /\ s[n] \in v.set /\ s[n] \in Fatal => s[n] \in r.k.did
    BY Zenon DEF Follow
  <2>1. PICK q \in R : IF q.ok THEN r \in Harden(v, q.k, s[n]) ELSE r = q
    BY Zenon DEF ThenOf, Then
  <2>2. Later(j, q.k) /\ Whole(q.k)
    BY <1>3, Zenon DEF Follow, Later
  <2>3. r \in Harden(v, q.k, s[n]) => Later(q.k, r.k) /\ (r.ok /\ s[n] \in v.set /\ s[n] \in Fatal => s[n] \in r.k.did)
    BY <2>2, HardenFollows, Zenon DEF Follow
  <2> QED
    BY <2>1, <2>2, <2>3, LaterOn, Zenon
<1>4. \A n \in 0 .. 6 : Follow(j, f[n])
  <2>1. \A n \in 1 .. Len(s) : \A R : Follow(j, R) => Follow(j, ThenOf("hardening", v, None, R, s[n]))
    BY <1>2, <1>3, Zenon
  <2>2. Len(s) \in Nat
    BY <1>2
  <2>3. \A n \in 0 .. Len(s) : Follow(j, f[n])
    BY <1>1, <2>1, <2>2, StepsFollow, Zenon
  <2> QED
    BY <1>2, <2>3, Zenon
<1> DEFINE Got(n) == \A r \in f[n] : r.ok /\ ~r.k.dead =>
                       \A m \in 1 .. n : s[m] \in v.set /\ s[m] \in Fatal => s[m] \in r.k.did
           T == {n \in Nat : n <= 6 /\ ~Got(n)}
<1>5. T = {}
  <2> SUFFICES ASSUME T # {} PROVE FALSE
    BY Zenon
  <2>1. PICK n \in T : \A y \in T : n <= y
    BY NatLeast, Zenon
  <2>2. n # 0
    OBVIOUS
  <2>3. n - 1 \in Nat /\ n - 1 <= 6 /\ ~(n <= n - 1) /\ n \in 1 .. 6 /\ n - 1 \in 0 .. 6
    BY <2>2
  <2>4. Got(n - 1)
    BY <2>1, <2>3, Zenon
  <2>5. f[n] = ThenOf("hardening", v, None, f[n - 1], s[n])
    BY <1>1, <1>2, <2>3, Zenon DEF Steps
  <2> HIDE DEF s
  <2>6. ASSUME NEW r \in f[n], r.ok, ~r.k.dead, NEW m \in 1 .. n, s[m] \in v.set, s[m] \in Fatal
        PROVE  s[m] \in r.k.did
    <3>1. PICK q \in f[n - 1] : q.ok /\ Later(q.k, r.k) /\ (s[n] \in v.set /\ s[n] \in Fatal => s[n] \in r.k.did)
      BY <1>3, <1>4, <2>3, <2>5, <2>6, Zenon
    <3>2. ~q.k.dead /\ q.k.did \subseteq r.k.did
      BY <2>6, <3>1, Zenon DEF Later
    <3>3. CASE m = n
      BY <2>6, <3>1, <3>3, Zenon
    <3>4. CASE m # n
      <4>1. m \in 1 .. n - 1
        BY <2>3, <3>4
      <4> QED
        BY <2>4, <2>6, <3>1, <3>2, <4>1, Zenon
    <3> QED
      BY <3>3, <3>4, Zenon
  <2>7. Got(n)
    BY <2>6, Zenon
  <2> QED
    BY <2>7, Zenon
<1>6. Got(6)
  BY <1>5
<1>7. s[1] = "no_new_privileges" /\ s[2] = "non_dumpable" /\ s[3] = "clear_ambient_caps" /\ s[5] = "drop_capabilities"
  BY Zenon DEF HardeningSteps
<1> HIDE DEF s
<1>8. ASSUME NEW r \in f[6], r.ok, ~r.k.dead PROVE v.set \cap Fatal \subseteq r.k.did
  <2>1. \A x \in Fatal : \E m \in 1 .. 6 : s[m] = x
    BY <1>7 DEF Fatal
  <2> QED
    BY <1>6, <1>8, <2>1, Zenon
<1> QED
  BY <1>1, <1>2, <1>4, <1>8

\* What start_service_as does with a result it may not ignore.
Ends(R) == \A r \in R : ~r.ok => r.k.dead

LEMMA StdioFollows ==
  ASSUME NEW v, NEW j, Whole(j)
  PROVE  Follow(j, Stdio(v, j)) /\ Ends(Stdio(v, j))
<1>1. \A i : Whole(i) => Follow(i, AttachTerminal(i)) /\ Follow(i, SetupConsoleIo(i))
  BY DidLater, CallFollows, Zenon DEF AttachTerminal, SetupConsoleIo
<1> DEFINE R == OrElse(AttachTerminal(j), SetupConsoleIo)
<1> HIDE DEF R
<1>2. Follow(j, R)
  <2> SUFFICES ASSUME NEW r \in R PROVE Later(j, r.k)
    BY Zenon DEF Follow
  <2>1. PICK q \in AttachTerminal(j) : r = q \/ r \in SetupConsoleIo(q.k)
    BY Zenon DEF OrElse, R
  <2>2. Later(j, q.k)
    BY <1>1, Zenon DEF Follow
  <2>3. r \in SetupConsoleIo(q.k) => Later(q.k, r.k)
    BY <1>1, <2>2, Zenon DEF Follow, Later
  <2> QED
    BY <2>1, <2>2, <2>3, LaterOn, Zenon
<1>3. Follow(j, OrExit(R)) /\ Ends(OrExit(R))
  BY <1>2, OrExitFollows, Zenon DEF Ends
<1>4. Follow(j, When(j.log = None, j, Ignored(SetupConsoleIo(j)))) /\ Ends(When(j.log = None, j, Ignored(SetupConsoleIo(j))))
  <2>1. Follow(j, Ignored(SetupConsoleIo(j))) /\ \A r \in Ignored(SetupConsoleIo(j)) : r.ok
    BY <1>1, IgnoredFollows, Zenon
  <2>2. \A r \in When(j.log = None, j, Ignored(SetupConsoleIo(j))) : r.ok
    BY <2>1 DEF When, Ok
  <2> QED
    BY <2>1, <2>2, WhenFollows, Zenon DEF Ends
<1>5. Stdio(v, j) = IF "tty" \in v.set THEN OrExit(R) ELSE When(j.log = None, j, Ignored(SetupConsoleIo(j)))
  BY Zenon DEF Stdio, R
<1> QED
  BY <1>3, <1>4, <1>5, Zenon

LEMMA SeccompFollows ==
  ASSUME NEW v, NEW j, Whole(j)
  PROVE  /\ Follow(j, ApplySeccomp(v, j))
         /\ \A r \in ApplySeccomp(v, j) : r.ok /\ v.seccomp # "off" => "seccomp" \in r.k.did
<1>1. \A i : Later(j, i) /\ "seccomp" \in i.did =>
        \A nr, can : /\ Follow(j, Syscall(j, nr, can, i))
                     /\ \A r \in Syscall(j, nr, can, i) : r.ok => "seccomp" \in r.k.did
  BY SyscallFollows, Zenon
<1>2. \A x : /\ Later(j, [Did(j, "seccomp") EXCEPT !.refuses = x]) /\ "seccomp" \in [Did(j, "seccomp") EXCEPT !.refuses = x].did
             /\ Later(j, [Did(j, "seccomp") EXCEPT !.kills = x]) /\ "seccomp" \in [Did(j, "seccomp") EXCEPT !.kills = x].did
  BY Zenon DEF Did, Later, Whole
<1>3. CASE v.seccomp = "off"
  BY <1>3, LaterSame DEF ApplySeccomp, Ok, Follow
<1>4. CASE v.seccomp = "allowlist"
  <2>1. ApplySeccomp(v, j) = ApplySeccompAllowlist(j)
    BY <1>4, Zenon DEF ApplySeccomp
  <2> QED
    BY <1>1, <1>2, <2>1, Zenon DEF ApplySeccompAllowlist
<1>5. CASE v.seccomp = "strict"
  <2>1. ApplySeccomp(v, j) = ApplySeccompStrict(j)
    BY <1>5, Zenon DEF ApplySeccomp
  <2> QED
    BY <1>1, <1>2, <2>1, Zenon DEF ApplySeccompStrict
<1>6. CASE v.seccomp \notin {"off", "allowlist", "strict"}
  <2>1. ApplySeccomp(v, j) = ApplySeccompDenylist(v, j)
    BY <1>6, Zenon DEF ApplySeccomp
  <2> QED
    BY <1>1, <1>2, <2>1, Zenon DEF ApplySeccompDenylist
<1> QED
  BY <1>3, <1>4, <1>5, <1>6, Zenon

LEMMA NamespacesFollow ==
  ASSUME NEW v, NEW j, Whole(j)
  PROVE  Follow(j, ApplyNamespaces(v, j)) /\ \A r \in ApplyNamespaces(v, j) : r.ok
<1> DEFINE Tmp(i) == When("private_tmp" \in v.set, i, Ignored(Mount(i, "/tmp")))
           Sys(i) == When("protect_system" \in v.set, i, Ignored(Mount(i, "/")))
           R == InMountNs(j, LAMBDA i : Then(Tmp(i), LAMBDA g, x : Sys(g)))
<1>1. \A i : Whole(i) => Follow(i, Tmp(i)) /\ Follow(i, Sys(i))
  <2>1. \A i, p : Whole(i) => Follow(i, Ignored(Mount(i, p)))
    BY MountFollows, IgnoredFollows, Zenon
  <2> QED
    BY <2>1, WhenFollows, Zenon
<1>2. ApplyNamespaces(v, j) = Ignored(R)
  BY Zenon DEF ApplyNamespaces
<1>3. ASSUME NEW r \in R
      PROVE  \E q \in Unshare(j, "mnt") : r = q \/ \E p \in Tmp(q.k) : r = p \/ r \in Sys(p.k)
  BY DEF InMountNs, Then
<1> HIDE DEF R, Tmp, Sys
<1>4. Follow(j, R)
  <2> SUFFICES ASSUME NEW r \in R PROVE Later(j, r.k)
    BY Zenon DEF Follow
  <2>1. PICK q \in Unshare(j, "mnt") : r = q \/ \E p \in Tmp(q.k) : r = p \/ r \in Sys(p.k)
    BY <1>3, Zenon
  <2>2. Later(j, q.k) /\ Whole(q.k)
    BY UnshareFollows DEF Follow, Later
  <2>3. ASSUME NEW p \in Tmp(q.k) PROVE Later(j, p.k) /\ (r \in Sys(p.k) => Later(j, r.k))
    <3>1. Later(q.k, p.k) /\ Whole(p.k)
      BY <1>1, <2>2, Zenon DEF Follow, Later
    <3>2. r \in Sys(p.k) => Later(p.k, r.k)
      BY <1>1, <3>1, Zenon DEF Follow
    <3> QED
      BY <2>2, <3>1, <3>2, LaterOn, Zenon
  <2> QED
    BY <2>1, <2>2, <2>3, Zenon
<1> QED
  BY <1>2, <1>4, IgnoredFollows, Zenon

LEMMA ReportFollows ==
  ASSUME NEW v, NEW j, Whole(j)
  PROVE  Follow(j, ReportSandbox(v, j)) /\ \A r \in ReportSandbox(v, j) : r.ok
<1> SUFFICES ASSUME NEW r \in ReportSandbox(v, j) PROVE Later(j, r.k) /\ r.ok
  BY Zenon DEF Follow
<1>1. PICK q \in ApplySandbox(v, j) :
        IF q.ok THEN r = q ELSE r = [k |-> [q.k EXCEPT !.reported = TRUE], ok |-> TRUE, val |-> None]
  BY Zenon DEF ReportSandbox, OrElse, Ok
<1>2. Later(j, q.k)
  BY SandboxFollows, Zenon DEF Follow
<1>3. Later(j, [q.k EXCEPT !.reported = TRUE])
  BY <1>2, Zenon DEF Later, Whole
<1>4. CASE q.ok
  BY <1>1, <1>2, <1>4, Zenon
<1>5. CASE ~q.ok
  <2>1. r = [k |-> [q.k EXCEPT !.reported = TRUE], ok |-> TRUE, val |-> None]
    BY <1>1, <1>5, Zenon
  <2> QED
    BY <1>3, <2>1, Zenon
<1> QED
  BY <1>4, <1>5, Zenon

\* The steps that do not touch the user or the descriptors.
LEMMA StepFollows ==
  ASSUME NEW v, NEW uid, NEW j, Whole(j),
         NEW s \in {"setsid", "stdio", "chdir", "hardening", "apparmor", "seccomp", "rlimit", "namespaces",
                    "landlock", "sandbox", "exec"}
  PROVE  /\ Follow(j, ChildStep(v, uid, j, s)) /\ Ends(ChildStep(v, uid, j, s))
         /\ \A r \in ChildStep(v, uid, j, s) : r.ok /\ ~r.k.dead =>
              /\ s = "hardening" => v.set \cap Fatal \subseteq r.k.did
              /\ s = "apparmor" /\ "apparmor" \in v.set /\ "no_apparmor" \notin v.set => "apparmor" \in r.k.did
              /\ s = "seccomp" /\ v.seccomp # "off" => "seccomp" \in r.k.did
<1> DEFINE R == ChildStep(v, uid, j, s)
<1>1. CASE s \in {"setsid", "chdir"}
  <2>1. R = OrExit(Call(j, TRUE, j))
    BY <1>1, Zenon DEF ChildStep
  <2>2. Follow(j, Call(j, TRUE, j))
    BY CallFollows, LaterSame, Zenon
  <2> QED
    BY <1>1, <2>1, <2>2, OrExitFollows, Zenon DEF Ends
<1>2. CASE s = "stdio"
  <2>1. R = Stdio(v, j)
    BY <1>2, Zenon DEF ChildStep
  <2> QED
    BY <1>2, <2>1, StdioFollows, Zenon
<1>3. CASE s = "hardening"
  <2>1. R = OrExit(ApplyChildHardening(v, j))
    BY <1>3, Zenon DEF ChildStep
  <2> QED
    BY <1>3, <2>1, HardeningApplied, OrExitFollows, Zenon DEF Ends
<1>4. CASE s = "apparmor"
  <2>1. R = When("apparmor" \in v.set, j, OrExit(ConfineNextExec(v, j)))
    BY <1>4, Zenon DEF ChildStep
  <2>2. /\ Follow(j, ConfineNextExec(v, j))
        /\ \A r \in ConfineNextExec(v, j) : r.ok /\ "no_apparmor" \notin v.set => "apparmor" \in r.k.did
    <3>1. CASE "no_apparmor" \in v.set
      BY <3>1, LaterSame DEF ConfineNextExec, Ok, Follow
    <3>2. CASE "no_apparmor" \notin v.set
      BY <3>2, DidLater, CallFollows, Zenon DEF ConfineNextExec
    <3> QED
      BY <3>1, <3>2, Zenon
  <2>3. /\ Follow(j, OrExit(ConfineNextExec(v, j))) /\ Ends(OrExit(ConfineNextExec(v, j)))
        /\ \A r \in OrExit(ConfineNextExec(v, j)) : r.ok /\ "no_apparmor" \notin v.set => "apparmor" \in r.k.did
    BY <2>2, OrExitFollows, Zenon DEF Ends
  <2>4. Follow(j, R)
    BY <2>1, <2>3, WhenFollows, Zenon
  <2>5. CASE "apparmor" \in v.set
    BY <1>4, <2>1, <2>3, <2>4, <2>5, Zenon DEF When
  <2>6. CASE "apparmor" \notin v.set
    BY <1>4, <2>1, <2>4, <2>6 DEF When, Ok, Ends
  <2> QED
    BY <2>5, <2>6, Zenon
<1>5. CASE s = "seccomp"
  <2>1. R = OrExit(ApplySeccomp(v, j))
    BY <1>5, Zenon DEF ChildStep
  <2> QED
    BY <1>5, <2>1, SeccompFollows, OrExitFollows, Zenon DEF Ends
<1>6. CASE s \in {"rlimit", "landlock"}
  <2>1. \A x, nr, can : /\ Follow(j, Ignored(Syscall(j, nr, can, Did(j, x))))
                        /\ \A r \in Ignored(Syscall(j, nr, can, Did(j, x))) : r.ok
    BY DidLater, SyscallFollows, IgnoredFollows, Zenon
  <2>2. /\ Follow(j, ApplyRlimit(j)) /\ Follow(j, ApplyLandlock(j))
        /\ \A r \in ApplyRlimit(j) \cup ApplyLandlock(j) : r.ok
    BY <2>1, Zenon DEF ApplyRlimit, ApplyLandlock
  <2>3. \/ R = When("rlimit" \in v.set, j, ApplyRlimit(j))
        \/ R = When("landlock" \in v.set, j, ApplyLandlock(j))
    <3>1. CASE s = "rlimit"
      BY <3>1, Zenon DEF ChildStep
    <3>2. CASE s = "landlock"
      BY <3>2, Zenon DEF ChildStep
    <3> QED
      BY <1>6, <3>1, <3>2, Zenon
  <2>4. Follow(j, R)
    BY <2>2, <2>3, WhenFollows, Zenon
  <2>5. \A r \in R : r.ok
    <3>1. CASE R = When("rlimit" \in v.set, j, ApplyRlimit(j))
      BY <2>2, <3>1 DEF When, Ok
    <3>2. CASE R = When("landlock" \in v.set, j, ApplyLandlock(j))
      BY <2>2, <3>2 DEF When, Ok
    <3> QED
      BY <2>3, <3>1, <3>2, Zenon
  <2> QED
    BY <1>6, <2>4, <2>5, Zenon DEF Ends
<1>7. CASE s = "namespaces"
  <2>1. R = When({"private_tmp", "protect_system"} \cap v.set # {}, j, ApplyNamespaces(v, j))
    BY <1>7, Zenon DEF ChildStep
  <2>2. Follow(j, R)
    BY <2>1, NamespacesFollow, WhenFollows, Zenon
  <2>3. \A r \in R : r.ok
    BY <2>1, NamespacesFollow DEF When, Ok
  <2> QED
    BY <1>7, <2>2, <2>3, Zenon DEF Ends
<1>8. CASE s = "sandbox"
  <2>1. R = ReportSandbox(v, j)
    BY <1>8, Zenon DEF ChildStep
  <2> QED
    BY <1>8, <2>1, ReportFollows, Zenon DEF Ends
<1>9. CASE s = "exec"
  <2>1. R = OrExit(Syscall(j, "execve", TRUE, Did(j, "exec")))
    BY <1>9, Zenon DEF ChildStep
  <2>2. Follow(j, Syscall(j, "execve", TRUE, Did(j, "exec")))
    BY DidLater, SyscallFollows, Zenon
  <2> QED
    BY <1>9, <2>1, <2>2, OrExitFollows, Zenon DEF Ends
<1> QED
  BY <1>1, <1>2, <1>3, <1>4, <1>5, <1>6, <1>7, <1>8, <1>9, Zenon

\* setgroups, setgid and setuid: the child runs as the user it was given, or not at all.
LEMMA CredentialsDropped ==
  ASSUME NEW v, NEW uid, NEW j, Whole(j)
  PROVE  \A r \in DropCredentials(v, j, uid) :
           /\ Whole(r.k) /\ r.k.fds = j.fds /\ r.k.socks = j.socks /\ r.k.log = j.log
           /\ ~r.ok => r.k.dead
           /\ j.dead => r.k.dead
           /\ ~r.k.dead /\ uid # "root" => r.k.uid = uid
<1>1. CASE uid = "root"
  BY <1>1 DEF DropCredentials, Ok
<1>2. CASE uid # "root"
  <2> SUFFICES ASSUME NEW r \in DropCredentials(v, j, uid)
               PROVE  /\ Whole(r.k) /\ r.k.fds = j.fds /\ r.k.socks = j.socks /\ r.k.log = j.log
                      /\ ~r.ok => r.k.dead
                      /\ j.dead => r.k.dead
                      /\ ~r.k.dead => r.k.uid = uid
    BY <1>2, Zenon
  <2>1. PICK q \in Call(j, TRUE, [j EXCEPT !.uid = uid]) : IF q.ok THEN r \in {q} ELSE r \in Exit(Ok(q.k, None))
    BY <1>2, Zenon DEF DropCredentials, OrExit, OrElse
  <2>2. \/ q = [k |-> [j EXCEPT !.uid = uid], ok |-> TRUE, val |-> None]
        \/ q = [k |-> [j EXCEPT !.faults = @ - 1], ok |-> FALSE, val |-> None]
    BY Zenon DEF Call, Ok, Err
  <2>3. CASE q = [k |-> [j EXCEPT !.uid = uid], ok |-> TRUE, val |-> None]
    <3>1. r = q
      BY <2>1, <2>3, Zenon
    <3> QED
      BY <2>3, <3>1, Zenon DEF Whole
  <2>4. CASE q = [k |-> [j EXCEPT !.faults = @ - 1], ok |-> FALSE, val |-> None]
    <3>1. r = [k |-> [q.k EXCEPT !.dead = TRUE], ok |-> FALSE, val |-> None]
      <4>1. r \in Exit(Ok(q.k, None))
        BY <2>1, <2>4, Zenon
      <4> QED
        BY <4>1 DEF Exit, Always, Ok, Err
    <3>2. q.k = [j EXCEPT !.faults = @ - 1]
      BY <2>4, Zenon
    <3>3. Whole(q.k) /\ q.k.fds = j.fds /\ q.k.socks = j.socks /\ q.k.log = j.log
      BY <3>2, Zenon DEF Whole
    <3> DEFINE i == [q.k EXCEPT !.dead = TRUE]
    <3>4. Whole(i) /\ i.fds = j.fds /\ i.socks = j.socks /\ i.log = j.log /\ i.dead
      BY <3>3, Zenon DEF Whole
    <3> QED
      BY <3>1, <3>4, Zenon
  <2> QED
    BY <2>2, <2>3, <2>4, Zenon
<1> QED
  BY <1>1, <1>2, Zenon

\* The descriptors of a child once its log pipe is in place.
Unlogged(j) == IF j.log = None THEN j.fds ELSE [j.fds EXCEPT ![j.log] = None]

LEMMA FdsPassed ==
  ASSUME NEW j, Whole(j)
  PROVE  LET i == PassFds(DupLog(j))
         IN  /\ Whole(i) /\ i.fds = Moved(Unlogged(j), j.socks) /\ i.socks = j.socks /\ i.log = j.log
             /\ i.dead = j.dead /\ i.uid = j.uid /\ j.did \subseteq i.did
<1>1. /\ Whole(DupLog(j)) /\ DupLog(j).fds = Unlogged(j) /\ DupLog(j).socks = j.socks /\ DupLog(j).log = j.log
      /\ DupLog(j).dead = j.dead /\ DupLog(j).uid = j.uid /\ j.did \subseteq DupLog(j).did
  <2>1. CASE j.log = None
    BY <2>1, Zenon DEF DupLog, Unlogged
  <2>2. CASE j.log # None
    <3>1. /\ Whole(Did(j, "log")) /\ Did(j, "log").fds = j.fds /\ Did(j, "log").socks = j.socks /\ Did(j, "log").log = j.log
          /\ Did(j, "log").dead = j.dead /\ Did(j, "log").uid = j.uid /\ j.did \subseteq Did(j, "log").did
      BY Zenon DEF Did, Whole
    <3> QED
      BY <2>2, <3>1, Zenon DEF DupLog, Unlogged, Whole
  <2> QED
    BY <2>1, <2>2, Zenon
<1> QED
  BY <1>1, Zenon DEF PassFds, Whole

\* What holds of a child that is alive after n steps of start_service_as.
Ready(n, v, uid, i) ==
  /\ n >= 4 /\ uid # "root" => i.uid = uid
  /\ n >= 5 => v.set \cap Fatal \subseteq i.did
  /\ n >= 7 /\ "apparmor" \in v.set /\ "no_apparmor" \notin v.set => "apparmor" \in i.did
  /\ n >= 8 /\ v.seccomp # "off" => "seccomp" \in i.did
Sound(n, v, uid, j, r) ==
  /\ Whole(r.k) /\ r.k.socks = j.socks /\ r.k.log = j.log
  /\ ~r.ok => r.k.dead
  /\ ~r.k.dead => Ready(n, v, uid, r.k) /\ r.k.fds = IF n < 6 THEN j.fds ELSE Moved(Unlogged(j), j.socks)

LEMMA ChildStepSound ==
  ASSUME NEW v, NEW uid, NEW j, NEW n \in 1 .. 13, NEW q, Sound(n - 1, v, uid, j, q), q.ok,
         NEW r \in ChildStep(v, uid, q.k, ChildOrder[n])
  PROVE  Sound(n, v, uid, j, r)
<1> DEFINE s == ChildOrder[n]
<1>1. Whole(q.k) /\ q.k.socks = j.socks /\ q.k.log = j.log
  BY Zenon DEF Sound
<1>2. CASE n = 4
  <2>1. r \in DropCredentials(v, q.k, uid)
    BY <1>2, Zenon DEF ChildStep, ChildOrder
  <2> HIDE DEF s
  <2> QED
    BY <1>1, <1>2, <2>1, CredentialsDropped DEF Sound, Ready
<1>3. CASE n = 6
  <2>1. r \in Ok(PassFds(DupLog(q.k)), None)
    BY <1>3, Zenon DEF ChildStep, ChildOrder
  <2>2. r.k = PassFds(DupLog(q.k)) /\ r.ok
    BY <2>1 DEF Ok
  <2>3. /\ Whole(r.k) /\ r.k.fds = Moved(Unlogged(q.k), q.k.socks) /\ r.k.socks = q.k.socks /\ r.k.log = q.k.log
        /\ r.k.dead = q.k.dead /\ r.k.uid = q.k.uid /\ q.k.did \subseteq r.k.did
    BY <1>1, <2>2, FdsPassed
  <2>4. ~r.k.dead => q.k.fds = j.fds /\ Ready(5, v, uid, q.k)
    BY <1>3, <2>3 DEF Sound
  <2>5. ~r.k.dead => Unlogged(q.k) = Unlogged(j)
    BY <1>1, <2>4, Zenon DEF Unlogged
  <2>6. ~r.k.dead => Ready(6, v, uid, r.k)
    BY <2>3, <2>4 DEF Ready
  <2> QED
    BY <1>1, <1>3, <2>2, <2>3, <2>5, <2>6 DEF Sound
<1>4. CASE n \notin {4, 6}
  <2>1. /\ s \in {"setsid", "stdio", "chdir", "hardening", "apparmor", "seccomp", "rlimit", "namespaces",
                  "landlock", "sandbox", "exec"}
        /\ n = 5 => s = "hardening"
        /\ n = 7 => s = "apparmor"
        /\ n = 8 => s = "seccomp"
    BY <1>4 DEF ChildOrder
  <2> HIDE DEF s
  <2>2. /\ Later(q.k, r.k) /\ (~r.ok => r.k.dead)
        /\ r.ok /\ ~r.k.dead =>
              /\ s = "hardening" => v.set \cap Fatal \subseteq r.k.did
              /\ s = "apparmor" /\ "apparmor" \in v.set /\ "no_apparmor" \notin v.set => "apparmor" \in r.k.did
              /\ s = "seccomp" /\ v.seccomp # "off" => "seccomp" \in r.k.did
    <3>1. r \in ChildStep(v, uid, q.k, s)
      BY Zenon DEF s
    <3> QED
      BY <1>1, <2>1, <3>1, StepFollows DEF Follow, Ends
  <2>3. ASSUME ~r.k.dead
        PROVE  Ready(n, v, uid, r.k) /\ r.k.fds = IF n < 6 THEN j.fds ELSE Moved(Unlogged(j), j.socks)
    <3>1. ~q.k.dead /\ r.k.uid = q.k.uid /\ q.k.did \subseteq r.k.did /\ r.k.fds = q.k.fds
      BY <2>2, <2>3, Zenon DEF Later
    <3>2. Ready(n - 1, v, uid, q.k) /\ q.k.fds = IF n - 1 < 6 THEN j.fds ELSE Moved(Unlogged(j), j.socks)
      BY <3>1, Zenon DEF Sound
    <3>3. Ready(n, v, uid, r.k)
      BY <1>4, <2>1, <2>2, <2>3, <3>1, <3>2 DEF Ready
    <3> QED
      BY <1>4, <3>1, <3>2, <3>3
  <2> QED
    BY <1>1, <2>2, <2>3, Zenon DEF Sound, Later
<1> QED
  BY <1>2, <1>3, <1>4, Zenon

\* A child that reaches exec has all of it.
LEMMA ChildIsReady ==
  ASSUME NEW v, NEW uid, NEW j, Whole(j), NEW i \in RunChild(v, uid, j), ~i.dead
  PROVE  Ready(13, v, uid, i) /\ i.socks = j.socks /\ i.fds = Moved(Unlogged(j), j.socks)
<1>1. PICK f : RunChild(v, uid, j) = {r.k : r \in f[Len(ChildOrder)]} /\ Steps("child", v, uid, j, ChildOrder, f)
  BY ChildUnfolds, Zenon
<1>2. Len(ChildOrder) = 13
  BY Zenon DEF ChildOrder
<1> DEFINE T == {n \in Nat : n <= 13 /\ \E r \in f[n] : ~Sound(n, v, uid, j, r)}
<1>3. T = {}
  <2> SUFFICES ASSUME T # {} PROVE FALSE
    BY Zenon
  <2>1. PICK n \in T : \A y \in T : n <= y
    BY NatLeast, Zenon
  <2>2. PICK r \in f[n] : ~Sound(n, v, uid, j, r)
    BY <2>1, Zenon
  <2>3. CASE n = 0
    <3>1. r = [k |-> j, ok |-> TRUE, val |-> None]
      BY <1>1, <2>3, Zenon DEF Steps, Ok
    <3> QED
      BY <2>2, <2>3, <3>1 DEF Sound, Ready
  <2>4. CASE n # 0
    <3>1. n - 1 \in Nat /\ n - 1 <= 13 /\ ~(n <= n - 1) /\ n \in 1 .. 13
      BY <2>4
    <3>2. f[n] = ThenOf("child", v, uid, f[n - 1], ChildOrder[n])
      BY <1>1, <1>2, <3>1, Zenon DEF Steps
    <3>3. PICK q \in f[n - 1] : IF q.ok THEN r \in ChildStep(v, uid, q.k, ChildOrder[n]) ELSE r = q
      BY <3>2 DEF ThenOf, Then
    <3>4. Sound(n - 1, v, uid, j, q)
      BY <2>1, <3>1, Zenon
    <3>5. CASE q.ok
      BY <2>2, <3>1, <3>3, <3>4, <3>5, ChildStepSound, Zenon
    <3>6. CASE ~q.ok
      BY <2>2, <3>3, <3>4, <3>6, Zenon DEF Sound
    <3> QED
      BY <3>5, <3>6, Zenon
  <2> QED
    BY <2>3, <2>4, Zenon
<1>4. PICK r \in f[13] : i = r.k
  BY <1>1, <1>2, Zenon
<1>5. Sound(13, v, uid, j, r)
  BY <1>3, <1>4
<1> QED
  BY <1>4, <1>5 DEF Sound

------------------------------------------------------------------------------
(* The dup2 loop *)

MovedAt(fds, socks, f, n) == IF n = 0 THEN fds ELSE Dup2(f[n - 1], socks[n], 2 + n)

LEMMA MovedExists ==
  ASSUME NEW fds, NEW socks, NEW n \in Nat
  PROVE  \E f : f = [i \in 0 .. n |-> MovedAt(fds, socks, f, i)]
<1> DEFINE A(f, i) == MovedAt(fds, socks, f, i)
           E(m) == \E f : f = [i \in 0 .. m |-> A(f, i)]
           T == {m \in Nat : ~E(m)}
<1> SUFFICES ASSUME T # {} PROVE FALSE
  BY Zenon
<1>1. PICK m \in T : \A y \in T : m <= y
  BY NatLeast, Zenon
<1>2. CASE m = 0
  <2> DEFINE f == [i \in 0 .. 0 |-> fds]
  <2>1. f = [i \in 0 .. m |-> A(f, i)]
    BY <1>2 DEF MovedAt
  <2> QED
    BY <2>1, Zenon
<1>3. CASE m # 0
  <2>1. m - 1 \in Nat /\ ~(m <= m - 1) /\ m \in Nat
    BY <1>3
  <2>2. PICK f : f = [i \in 0 .. m - 1 |-> A(f, i)]
    BY <1>1, <2>1, Zenon
  <2> DEFINE g == [i \in 0 .. m |-> IF i = m THEN A(f, m) ELSE f[i]]
  <2>3. \A i \in 0 .. m : g[i] = A(g, i)
    <3> SUFFICES ASSUME NEW i \in 0 .. m PROVE g[i] = A(g, i)
      BY Zenon
    <3>1. CASE i = m
      <4>1. g[i] = A(f, m) /\ g[m - 1] = f[m - 1]
        BY <2>1, <3>1
      <4> QED
        BY <2>1, <3>1, <4>1, Zenon DEF MovedAt
    <3>2. CASE i # m
      <4>1. i \in 0 .. m - 1 /\ g[i] = f[i] /\ (i # 0 => g[i - 1] = f[i - 1])
        BY <2>1, <3>2
      <4>2. f[i] = A(f, i)
        BY <2>2, <4>1, Zenon
      <4> QED
        BY <4>1, <4>2, Zenon DEF MovedAt
    <3> QED
      BY <3>1, <3>2, Zenon
  <2>4. g = [i \in 0 .. m |-> g[i]]
    BY Zenon
  <2> HIDE DEF g
  <2>5. g = [i \in 0 .. m |-> A(g, i)]
    BY <2>3, <2>4, Zenon
  <2> QED
    BY <2>5, Zenon
<1> QED
  BY <1>2, <1>3, Zenon

Ascending(s) == \A n, m \in DOMAIN s : n < m => s[n] < s[m]

\* Descriptors in ascending order are never below the numbers they are moved to.
LEMMA AscendingClimbs ==
  ASSUME NEW socks \in Seq(Fd), Ascending(socks)
  PROVE  \A n \in DOMAIN socks : 2 + n <= socks[n]
<1> DEFINE T == {n \in Nat : n \in DOMAIN socks /\ ~(2 + n <= socks[n])}
<1> SUFFICES ASSUME T # {} PROVE FALSE
  OBVIOUS
<1>1. PICK n \in T : \A y \in T : n <= y
  BY NatLeast, Zenon
<1>2. \A m \in DOMAIN socks : socks[m] \in Nat /\ 3 <= socks[m]
  BY LaunchAssumption, SMTT(30) DEF Fd
<1>3. n # 1 /\ n \in 1 .. Len(socks)
  BY <1>2
<1>4. n - 1 \in DOMAIN socks /\ n - 1 \in Nat /\ n - 1 < n /\ ~(n <= n - 1)
  BY <1>3
<1>5. 2 + (n - 1) <= socks[n - 1]
  BY <1>1, <1>4, Zenon
<1>6. socks[n - 1] < socks[n]
  BY <1>3, <1>4, Zenon DEF Ascending
<1> QED
  BY <1>2, <1>3, <1>4, <1>5, <1>6

\* So none of them is overwritten before it was moved.
LEMMA DupInOrder ==
  ASSUME NEW D, NEW fds \in [Fd -> D], NEW socks \in Seq(Fd), Ascending(socks),
         \A n \in DOMAIN socks : fds[socks[n]] # None
  PROVE  \A n \in DOMAIN socks : Moved(fds, socks)[2 + n] = fds[socks[n]]
<1> DEFINE f == CHOOSE f : f = [n \in 0 .. Len(socks) |-> IF n = 0 THEN fds ELSE Dup2(f[n - 1], socks[n], 2 + n)]
           L == Len(socks)
<1>1. L \in Nat /\ DOMAIN socks = 1 .. L
  OBVIOUS
<1>2. Moved(fds, socks) = f[L]
  BY Zenon DEF Moved
<1>3. f = [n \in 0 .. L |-> MovedAt(fds, socks, f, n)]
  <2>1. \E e : e = [n \in 0 .. L |-> MovedAt(fds, socks, e, n)]
    BY <1>1, MovedExists, Zenon
  <2> QED
    BY <2>1, Zenon DEF MovedAt
<1> HIDE DEF f
<1>4. \A n \in 1 .. L : 2 + n <= socks[n] /\ socks[n] \in Nat /\ 2 + n \in Fd /\ socks[n] \in Fd
  <2>1. \A n \in DOMAIN socks : 2 + n <= socks[n] /\ socks[n] \in Fd
    BY AscendingClimbs
  <2>2. ASSUME NEW n \in 1 .. L
        PROVE  2 + n <= socks[n] /\ socks[n] \in Nat /\ 2 + n \in Fd /\ socks[n] \in Fd
    <3>1. n \in Nat /\ n >= 1 /\ 2 + n <= socks[n] /\ socks[n] \in Fd
      BY <1>1, <2>1
    <3> QED
      BY <3>1, LaunchAssumption DEF Fd
  <2> QED
    BY <2>2, Zenon
<1> DEFINE C(m) == /\ f[m] \in [Fd -> D]
                   /\ \A n \in 1 .. m : f[m][2 + n] = fds[socks[n]]
                   /\ \A n \in 1 .. L : m < n => f[m][socks[n]] = fds[socks[n]]
           T == {m \in Nat : m <= L /\ ~C(m)}
<1> HIDE DEF L
<1>5. T = {}
  <2> SUFFICES ASSUME T # {} PROVE FALSE
    BY Zenon
  <2>1. PICK m \in T : \A y \in T : m <= y
    BY NatLeast, Zenon
  <2>2. CASE m = 0
    <3>1. f[m] = fds
      BY <1>1, <1>3, <2>2 DEF MovedAt
    <3> QED
      BY <1>1, <2>1, <2>2, <3>1
  <2>3. CASE m # 0
    <3>1. m - 1 \in Nat /\ m - 1 <= L /\ ~(m <= m - 1) /\ m \in 1 .. L /\ m - 1 < m
      BY <1>1, <2>3
    <3>2. C(m - 1)
      BY <2>1, <3>1, Zenon
    <3>3. f[m] = Dup2(f[m - 1], socks[m], 2 + m)
      BY <1>1, <1>3, <3>1 DEF MovedAt
    <3>4. f[m - 1][socks[m]] = fds[socks[m]] /\ fds[socks[m]] # None
      BY <1>1, <3>1, <3>2, Zenon
    <3>5. f[m] = [f[m - 1] EXCEPT ![2 + m] = fds[socks[m]]]
      BY <3>3, <3>4, Zenon DEF Dup2
    <3>6. 2 + m \in Fd /\ socks[m] \in Fd /\ fds[socks[m]] \in D
      BY <1>4, <3>1, Zenon
    <3>7. f[m] \in [Fd -> D]
      BY <3>2, <3>5, <3>6
    <3>8. ASSUME NEW n \in 1 .. m PROVE f[m][2 + n] = fds[socks[n]]
      <4>1. 2 + n \in Fd
        <5>1. n \in 1 .. L
          BY <1>1, <3>1
        <5> QED
          BY <1>4, <5>1, Zenon
      <4>2. CASE n = m
        BY <3>2, <3>5, <3>6, <4>2, Zenon
      <4>3. CASE n # m
        <5>1. n \in 1 .. m - 1 /\ 2 + n # 2 + m
          BY <3>1, <4>3
        <5>2. f[m - 1][2 + n] = fds[socks[n]]
          BY <3>2, <5>1, Zenon
        <5> QED
          BY <3>2, <3>5, <4>1, <5>1, <5>2, Zenon
      <4> QED
        BY <4>2, <4>3, Zenon
    <3>9. ASSUME NEW n \in 1 .. L, m < n PROVE f[m][socks[n]] = fds[socks[n]]
      <4>1. socks[n] \in Fd /\ socks[n] # 2 + m
        BY <1>1, <1>4, <3>1, <3>9
      <4>2. f[m - 1][socks[n]] = fds[socks[n]]
        BY <1>1, <3>1, <3>2, <3>9, SMTT(30)
      <4> QED
        BY <3>2, <3>5, <4>1, <4>2, Zenon
    <3>10. C(m)
      BY <3>7, <3>8, <3>9, Zenon
    <3> QED
      BY <2>1, <3>10, Zenon
  <2> QED
    BY <2>2, <2>3, Zenon
<1>6. C(L)
  BY <1>1, <1>5
<1> QED
  BY <1>1, <1>2, <1>6, Zenon

------------------------------------------------------------------------------
(* The words of a command line *)

LOCAL INSTANCE SequenceTheorems

Character == STRING \cup Special

LexFrom(S, ch) == {Lex(s, ch) : s \in S}
LexAt(line, f, n) == IF n = 0 THEN {LexStart} ELSE LexFrom(f[n - 1], line[n])

LEMMA LexExists ==
  ASSUME NEW line, NEW n \in Nat
  PROVE  \E f : f = [i \in 0 .. n |-> LexAt(line, f, i)]
<1> DEFINE A(f, i) == LexAt(line, f, i)
           E(m) == \E f : f = [i \in 0 .. m |-> A(f, i)]
           T == {m \in Nat : ~E(m)}
<1> SUFFICES ASSUME T # {} PROVE FALSE
  BY Zenon
<1>1. PICK m \in T : \A y \in T : m <= y
  BY NatLeast, Zenon
<1>2. CASE m = 0
  <2> DEFINE f == [i \in 0 .. 0 |-> {LexStart}]
  <2>1. f = [i \in 0 .. m |-> A(f, i)]
    BY <1>2 DEF LexAt
  <2> QED
    BY <2>1, Zenon
<1>3. CASE m # 0
  <2>1. m - 1 \in Nat /\ ~(m <= m - 1) /\ m \in Nat
    BY <1>3
  <2>2. PICK f : f = [i \in 0 .. m - 1 |-> A(f, i)]
    BY <1>1, <2>1, Zenon
  <2> DEFINE g == [i \in 0 .. m |-> IF i = m THEN A(f, m) ELSE f[i]]
  <2>3. \A i \in 0 .. m : g[i] = A(g, i)
    <3> SUFFICES ASSUME NEW i \in 0 .. m PROVE g[i] = A(g, i)
      BY Zenon
    <3>1. CASE i = m
      <4>1. g[i] = A(f, m) /\ g[m - 1] = f[m - 1]
        BY <2>1, <3>1
      <4> QED
        BY <2>1, <3>1, <4>1, Zenon DEF LexAt
    <3>2. CASE i # m
      <4>1. i \in 0 .. m - 1 /\ g[i] = f[i] /\ (i # 0 => g[i - 1] = f[i - 1])
        BY <2>1, <3>2
      <4>2. f[i] = A(f, i)
        BY <2>2, <4>1, Zenon
      <4> QED
        BY <4>1, <4>2, Zenon DEF LexAt
    <3> QED
      BY <3>1, <3>2, Zenon
  <2>4. g = [i \in 0 .. m |-> g[i]]
    BY Zenon
  <2> HIDE DEF g
  <2>5. g = [i \in 0 .. m |-> A(g, i)]
    BY <2>3, <2>4, Zenon
  <2> QED
    BY <2>5, Zenon
<1> QED
  BY <1>2, <1>3, Zenon

LEMMA LexedUnfolds ==
  ASSUME NEW line, Len(line) \in Nat
  PROVE  \E f : /\ Lexed(line) = CHOOSE s \in f[Len(line)] : TRUE
                /\ \A n \in 0 .. Len(line) : f[n] = LexAt(line, f, n)
<1> DEFINE f == CHOOSE e : e = [n \in 0 .. Len(line) |-> IF n = 0 THEN {LexStart} ELSE {Lex(s, line[n]) : s \in e[n - 1]}]
           g == CHOOSE e : e = [n \in 0 .. Len(line) |-> LexAt(line, e, n)]
<1>1. Lexed(line) = CHOOSE s \in f[Len(line)] : TRUE
  BY Zenon DEF Lexed
<1>2. f = g
  BY Zenon DEF LexAt, LexFrom
<1>3. \E e : e = [n \in 0 .. Len(line) |-> LexAt(line, e, n)]
  BY LexExists, Zenon
<1> HIDE DEF f
<1>4. g = [n \in 0 .. Len(line) |-> LexAt(line, g, n)]
  BY <1>3, Zenon
<1> HIDE DEF g
<1>5. \A n \in 0 .. Len(line) : g[n] = LexAt(line, g, n)
  BY <1>4, Zenon
<1> QED
  BY <1>1, <1>2, <1>5, Zenon

LEMMA LexFromOne ==
  ASSUME NEW s, NEW ch
  PROVE  LexFrom({s}, ch) = {Lex(s, ch)}
BY Zenon DEF LexFrom

LEMMA LexedNothing == Lexed(<<>>) = LexStart
<1>1. Len(<<>>) = 0
  BY Zenon
<1>2. PICK f : /\ Lexed(<<>>) = CHOOSE s \in f[Len(<<>>)] : TRUE
               /\ \A n \in 0 .. Len(<<>>) : f[n] = LexAt(<<>>, f, n)
  BY <1>1, LexedUnfolds, Zenon
<1>3. f[0] = {LexStart}
  BY <1>1, <1>2 DEF LexAt
<1> QED
  BY <1>1, <1>2, <1>3, Zenon

\* One more character is one more step of the lexer.
LEMMA LexedMore ==
  ASSUME NEW line \in Seq(Character), NEW ch \in Character
  PROVE  Lexed(line \o <<ch>>) = Lex(Lexed(line), ch)
<1> DEFINE more == line \o <<ch>>
           L == Len(line)
<1>1. /\ L \in Nat /\ Len(more) = L + 1 /\ Len(more) \in Nat /\ more[L + 1] = ch
      /\ \A n \in 1 .. L : more[n] = line[n]
  OBVIOUS
<1> HIDE DEF more, L
<1>2. PICK f : /\ Lexed(line) = CHOOSE s \in f[L] : TRUE
               /\ \A n \in 0 .. L : f[n] = LexAt(line, f, n)
  BY <1>1, LexedUnfolds, Zenon DEF L
<1>3. PICK g : /\ Lexed(more) = CHOOSE s \in g[L + 1] : TRUE
               /\ \A n \in 0 .. L + 1 : g[n] = LexAt(more, g, n)
  BY <1>1, LexedUnfolds, Zenon
<1> DEFINE C(n) == f[n] = g[n] /\ \E s : f[n] = {s}
           T == {n \in Nat : n <= L /\ ~C(n)}
<1>4. T = {}
  <2> SUFFICES ASSUME T # {} PROVE FALSE
    BY Zenon
  <2>1. PICK n \in T : \A y \in T : n <= y
    BY NatLeast, Zenon
  <2>2. CASE n = 0
    <3>1. f[0] = LexAt(line, f, 0) /\ g[0] = LexAt(more, g, 0)
      BY <1>1, <1>2, <1>3
    <3>2. f[0] = {LexStart} /\ g[0] = {LexStart}
      BY <3>1, Zenon DEF LexAt
    <3> QED
      BY <2>2, <3>2, Zenon
  <2>3. CASE n # 0
    <3>1. n - 1 \in Nat /\ n - 1 <= L /\ ~(n <= n - 1) /\ n \in 1 .. L /\ n \in 0 .. L /\ n \in 0 .. L + 1
      BY <1>1, <2>3
    <3>2. C(n - 1)
      BY <2>1, <3>1, Zenon
    <3>3. PICK s : f[n - 1] = {s} /\ g[n - 1] = {s}
      BY <3>2, Zenon
    <3>4. f[n] = LexAt(line, f, n) /\ g[n] = LexAt(more, g, n) /\ more[n] = line[n]
      BY <1>1, <1>2, <1>3, <3>1, Zenon
    <3>5. LexAt(line, f, n) = {Lex(s, line[n])} /\ LexAt(more, g, n) = {Lex(s, more[n])}
      BY <2>3, <3>3, LexFromOne, Zenon DEF LexAt
    <3>6. C(n)
      BY <3>4, <3>5, Zenon
    <3> QED
      BY <2>1, <3>6, Zenon
  <2> QED
    BY <2>2, <2>3, Zenon
<1>5. C(L)
  <2>1. L \in Nat /\ L <= L
    BY <1>1
  <2> HIDE DEF C
  <2> QED
    BY <1>4, <2>1, Zenon
<1>6. PICK s : f[L] = {s} /\ g[L] = {s}
  BY <1>5, Zenon
<1>7. g[L + 1] = {Lex(s, ch)}
  <2>1. L + 1 \in 0 .. L + 1 /\ L + 1 # 0 /\ (L + 1) - 1 = L
    BY <1>1
  <2>2. g[L + 1] = LexAt(more, g, L + 1) /\ g[(L + 1) - 1] = {s}
    BY <1>3, <1>6, <2>1, Zenon
  <2>3. LexAt(more, g, L + 1) = {Lex(s, more[L + 1])}
    BY <2>1, <2>2, LexFromOne, Zenon DEF LexAt
  <2> QED
    BY <1>1, <2>2, <2>3, Zenon
<1>8. Lexed(line) = s /\ Lexed(more) = Lex(s, ch)
  BY <1>2, <1>3, <1>6, <1>7, Zenon
<1> QED
  BY <1>8, Zenon DEF more

ConcatAt(s, f, n) == IF n = 0 THEN <<>> ELSE f[n - 1] \o s[n]

LEMMA ConcatExists ==
  ASSUME NEW s, NEW n \in Nat
  PROVE  \E f : f = [i \in 0 .. n |-> ConcatAt(s, f, i)]
<1> DEFINE A(f, i) == ConcatAt(s, f, i)
           E(m) == \E f : f = [i \in 0 .. m |-> A(f, i)]
           T == {m \in Nat : ~E(m)}
<1> SUFFICES ASSUME T # {} PROVE FALSE
  BY Zenon
<1>1. PICK m \in T : \A y \in T : m <= y
  BY NatLeast, Zenon
<1>2. CASE m = 0
  <2> DEFINE f == [i \in 0 .. 0 |-> <<>>]
  <2>1. f = [i \in 0 .. m |-> A(f, i)]
    BY <1>2 DEF ConcatAt
  <2> QED
    BY <2>1, Zenon
<1>3. CASE m # 0
  <2>1. m - 1 \in Nat /\ ~(m <= m - 1) /\ m \in Nat
    BY <1>3
  <2>2. PICK f : f = [i \in 0 .. m - 1 |-> A(f, i)]
    BY <1>1, <2>1, Zenon
  <2> DEFINE g == [i \in 0 .. m |-> IF i = m THEN A(f, m) ELSE f[i]]
  <2>3. \A i \in 0 .. m : g[i] = A(g, i)
    <3> SUFFICES ASSUME NEW i \in 0 .. m PROVE g[i] = A(g, i)
      BY Zenon
    <3>1. CASE i = m
      <4>1. g[i] = A(f, m) /\ g[m - 1] = f[m - 1]
        BY <2>1, <3>1
      <4> QED
        BY <2>1, <3>1, <4>1, Zenon DEF ConcatAt
    <3>2. CASE i # m
      <4>1. i \in 0 .. m - 1 /\ g[i] = f[i] /\ (i # 0 => g[i - 1] = f[i - 1])
        BY <2>1, <3>2
      <4>2. f[i] = A(f, i)
        BY <2>2, <4>1, Zenon
      <4> QED
        BY <4>1, <4>2, Zenon DEF ConcatAt
    <3> QED
      BY <3>1, <3>2, Zenon
  <2>4. g = [i \in 0 .. m |-> g[i]]
    BY Zenon
  <2> HIDE DEF g
  <2>5. g = [i \in 0 .. m |-> A(g, i)]
    BY <2>3, <2>4, Zenon
  <2> QED
    BY <2>5, Zenon
<1> QED
  BY <1>2, <1>3, Zenon

LEMMA ConcatUnfolds ==
  ASSUME NEW C, NEW s \in Seq(Seq(C))
  PROVE  \E f : /\ f[0] = <<>> /\ Concat(s) = f[Len(s)]
                /\ \A n \in 1 .. Len(s) : f[n] = f[n - 1] \o s[n]
                /\ \A n \in 0 .. Len(s) : f[n] \in Seq(C)
<1> DEFINE f == CHOOSE e : e = [n \in 0 .. Len(s) |-> IF n = 0 THEN <<>> ELSE e[n - 1] \o s[n]]
           g == CHOOSE e : e = [n \in 0 .. Len(s) |-> ConcatAt(s, e, n)]
<1>1. Concat(s) = f[Len(s)]
  BY Zenon DEF Concat
<1>2. f = g
  BY Zenon DEF ConcatAt
<1>3. \E e : e = [n \in 0 .. Len(s) |-> ConcatAt(s, e, n)]
  BY ConcatExists, LenProperties, Zenon
<1> HIDE DEF f
<1>4. g = [n \in 0 .. Len(s) |-> ConcatAt(s, g, n)]
  BY <1>3, Zenon
<1> HIDE DEF g
<1>5. \A n \in 0 .. Len(s) : g[n] = ConcatAt(s, g, n)
  BY <1>4, Zenon
<1>6. g[0] = <<>>
  <2>1. g[0] = ConcatAt(s, g, 0)
    BY <1>5
  <2> QED
    BY <2>1, Zenon DEF ConcatAt
<1>7. ASSUME NEW n \in 1 .. Len(s) PROVE g[n] = g[n - 1] \o s[n]
  <2>1. g[n] = ConcatAt(s, g, n) /\ n # 0
    BY <1>5
  <2> QED
    BY <2>1, Zenon DEF ConcatAt
<1> DEFINE T == {n \in Nat : n <= Len(s) /\ g[n] \notin Seq(C)}
<1>8. T = {}
  <2> SUFFICES ASSUME T # {} PROVE FALSE
    BY Zenon
  <2>1. PICK n \in T : \A y \in T : n <= y
    BY NatLeast, Zenon
  <2>2. n # 0
    <3>1. <<>> \in Seq(C)
      OBVIOUS
    <3> QED
      BY <1>6, <2>1, <3>1, Zenon
  <2>3. n - 1 \in Nat /\ n - 1 <= Len(s) /\ ~(n <= n - 1) /\ n \in 1 .. Len(s)
    BY <2>1, <2>2
  <2>4. g[n - 1] \in Seq(C) /\ s[n] \in Seq(C)
    BY <2>1, <2>3
  <2>5. g[n - 1] \o s[n] \in Seq(C)
    BY <2>4, ConcatProperties, Zenon
  <2>6. g[n] = g[n - 1] \o s[n]
    BY <1>7, <2>3, Zenon
  <2> QED
    BY <2>1, <2>5, <2>6, Zenon
<1>9. \A n \in 0 .. Len(s) : g[n] \in Seq(C)
  BY <1>8
<1> QED
  BY <1>1, <1>2, <1>6, <1>7, <1>9, Zenon

\* The lexer within a word, and between two words.
LexState(mode, word, argv) == [mode |-> mode, current |-> word, argv |-> argv]
Inside(style) == IF style = "single" THEN "SingleQuoted" ELSE IF style = "double" THEN "DoubleQuoted" ELSE "Normal"

LEMMA LexesMark ==
  ASSUME NEW style \in Styles, NEW l \in Seq(Character), NEW w, NEW A
  PROVE  /\ Lexed(l) = LexState("Normal", w, A) => Lexed(l \o Mark(style)) = LexState(Inside(style), w, A)
         /\ Lexed(l) = LexState(Inside(style), w, A) => Lexed(l \o Mark(style)) = LexState("Normal", w, A)
<1>1. CASE style \in {"bare", "escape"}
  <2>1. Mark(style) = <<>> /\ Inside(style) = "Normal" /\ l \o <<>> = l
    BY <1>1, ConcatEmptySeq, Zenon DEF Mark, Inside
  <2> QED
    BY <2>1, Zenon
<1>2. CASE style = "single"
  <2>1. Mark(style) = <<"'">> /\ Inside(style) = "SingleQuoted"
    BY <1>2, Zenon DEF Mark, Inside
  <2>2. Lexed(l \o <<"'">>) = Lex(Lexed(l), "'")
    <3>1. "'" \in Character
      BY Zenon DEF Character, Special
    <3> QED
      BY <3>1, LexedMore, Zenon
  <2>3. /\ Lex(LexState("Normal", w, A), "'") = LexState("SingleQuoted", w, A)
        /\ Lex(LexState("SingleQuoted", w, A), "'") = LexState("Normal", w, A)
    BY Zenon DEF Lex, LexState
  <2> QED
    BY <2>1, <2>2, <2>3, Zenon
<1>3. CASE style = "double"
  <2>1. Mark(style) = <<"\"">> /\ Inside(style) = "DoubleQuoted"
    BY <1>3, Zenon DEF Mark, Inside
  <2>2. Lexed(l \o <<"\"">>) = Lex(Lexed(l), "\"")
    <3>1. "\"" \in Character
      BY Zenon DEF Character, Special
    <3> QED
      BY <3>1, LexedMore, Zenon
  <2>3. /\ Lex(LexState("Normal", w, A), "\"") = LexState("DoubleQuoted", w, A)
        /\ Lex(LexState("DoubleQuoted", w, A), "\"") = LexState("Normal", w, A)
    BY Zenon DEF Lex, LexState
  <2> QED
    BY <2>1, <2>2, <2>3, Zenon
<1> QED
  BY <1>1, <1>2, <1>3, Zenon DEF Styles
LEMMA Short ==
  ASSUME NEW C, NEW a \in C, NEW b \in C
  PROVE  <<>> \in Seq(C) /\ <<a>> \in Seq(C) /\ <<a, b>> \in Seq(C) /\ <<a>> \o <<b>> = <<a, b>>
<1>1. <<>> \in Seq(C)
  OBVIOUS
<1>2. <<a>> \in Seq(C)
  OBVIOUS
<1>3. <<a, b>> \in Seq(C)
  OBVIOUS
<1>4. <<a>> \o <<b>> = <<a, b>>
  <2>1. Append(<<a>>, b) = <<a>> \o <<b>>
    BY <1>2, AppendIsConcat, Zenon
  <2>2. Append(<<a>>, b) = <<a, b>>
    <3>1. Append(<<a>>, b) \in Seq(C) /\ Len(Append(<<a>>, b)) = 2 /\ Append(<<a>>, b)[1] = a /\ Append(<<a>>, b)[2] = b
      BY <1>2
    <3>2. Len(<<a, b>>) = 2 /\ <<a, b>>[1] = a /\ <<a, b>>[2] = b
      BY Zenon
    <3>3. \A i \in 1 .. 2 : i = 1 \/ i = 2
      OBVIOUS
    <3> QED
      BY <1>3, <3>1, <3>2, <3>3, SeqEqual, Zenon
  <2> QED
    BY <2>1, <2>2, Zenon
<1> QED
  BY <1>1, <1>2, <1>3, <1>4, Zenon

LEMMA Grouped ==
  ASSUME NEW C, NEW a \in Seq(C), NEW b \in Seq(C), NEW c \in Seq(C)
  PROVE  a \o b \in Seq(C) /\ (a \o b) \o c = a \o (b \o c)
<1>1. a \o b \in Seq(C)
  BY ConcatProperties, Zenon
<1>2. (a \o b) \o c = a \o (b \o c)
  BY ConcatAssociative
<1> QED
  BY <1>1, <1>2, Zenon

LEMMA TwoMore ==
  ASSUME NEW l \in Seq(Character), NEW a \in Character, NEW b \in Character
  PROVE  Lexed(l \o <<a, b>>) = Lex(Lex(Lexed(l), a), b)
<1>1. <<a>> \in Seq(Character) /\ <<b>> \in Seq(Character) /\ <<a>> \o <<b>> = <<a, b>>
  BY Short, Zenon
<1>2. l \o <<a>> \in Seq(Character) /\ (l \o <<a>>) \o <<b>> = l \o (<<a>> \o <<b>>)
  BY <1>1, Grouped
<1>3. Lexed((l \o <<a>>) \o <<b>>) = Lex(Lexed(l \o <<a>>), b) /\ Lexed(l \o <<a>>) = Lex(Lexed(l), a)
  BY <1>2, LexedMore, Zenon
<1> QED
  BY <1>1, <1>2, <1>3, Zenon

\* What is written for a character inside a word adds that character to the word.
LEMMA LexesChar ==
  ASSUME NEW style \in Styles, NEW ch \in Character, style = "bare" => ch \notin Special, style = "single" => ch # "'",
         NEW l \in Seq(Character), NEW w, NEW A, Lexed(l) = LexState(Inside(style), w, A)
  PROVE  Lexed(l \o QuoteChar(style, ch)) = LexState(Inside(style), Append(w, ch), A)
<1> DEFINE esc == "\\"
<1>1. esc \in Character
  BY Zenon DEF Character, Special
<1>2. Lexed(l \o <<ch>>) = Lex(Lexed(l), ch) /\ Lexed(l \o <<esc, ch>>) = Lex(Lex(Lexed(l), esc), ch)
  BY <1>1, LexedMore, TwoMore, Zenon
<1>3. CASE style = "escape"
  <2>1. QuoteChar(style, ch) = <<esc, ch>> /\ Inside(style) = "Normal"
    BY <1>3, Zenon DEF QuoteChar, Inside
  <2>2. Lex(LexState("Normal", w, A), esc) = LexState("Escaped", w, A)
    BY Zenon DEF Lex, LexState
  <2>3. Lex(LexState("Escaped", w, A), ch) = LexState("Normal", Append(w, ch), A)
    BY Zenon DEF Lex, LexState, Push
  <2> QED
    BY <1>2, <2>1, <2>2, <2>3, Zenon
<1>4. CASE style = "double" /\ ch \in {"\"", "\\"}
  <2>1. QuoteChar(style, ch) = <<esc, ch>> /\ Inside(style) = "DoubleQuoted"
    BY <1>4, Zenon DEF QuoteChar, Inside
  <2>2. Lex(LexState("DoubleQuoted", w, A), esc) = LexState("DoubleEscaped", w, A)
    BY Zenon DEF Lex, LexState
  <2>3. Lex(LexState("DoubleEscaped", w, A), ch) = LexState("DoubleQuoted", Append(w, ch), A)
    BY Zenon DEF Lex, LexState, Push
  <2> QED
    BY <1>2, <2>1, <2>2, <2>3, Zenon
<1>5. CASE style = "double" /\ ch \notin {"\"", "\\"}
  <2>1. QuoteChar(style, ch) = <<ch>> /\ Inside(style) = "DoubleQuoted"
    BY <1>5, Zenon DEF QuoteChar, Inside
  <2>2. Lex(LexState("DoubleQuoted", w, A), ch) = LexState("DoubleQuoted", Append(w, ch), A)
    BY <1>5, Zenon DEF Lex, LexState, Push
  <2> QED
    BY <1>2, <2>1, <2>2, Zenon
<1>6. CASE style = "single"
  <2>1. QuoteChar(style, ch) = <<ch>> /\ Inside(style) = "SingleQuoted"
    BY <1>6, Zenon DEF QuoteChar, Inside
  <2>2. Lex(LexState("SingleQuoted", w, A), ch) = LexState("SingleQuoted", Append(w, ch), A)
    BY <1>6, Zenon DEF Lex, LexState, Push
  <2> QED
    BY <1>2, <2>1, <2>2, Zenon
<1>7. CASE style = "bare"
  <2>1. QuoteChar(style, ch) = <<ch>> /\ Inside(style) = "Normal"
    BY <1>7, Zenon DEF QuoteChar, Inside
  <2>2. Lex(LexState("Normal", w, A), ch) = LexState("Normal", Append(w, ch), A)
    BY <1>7, Zenon DEF Lex, LexState, Push, Special
  <2> QED
    BY <1>2, <2>1, <2>2, Zenon
<1> QED
  BY <1>3, <1>4, <1>5, <1>6, <1>7, Zenon DEF Styles

LEMMA QuoteTypes ==
  ASSUME NEW style \in Styles, NEW word \in Seq(Character)
  PROVE  /\ Mark(style) \in Seq(Character)
         /\ \A ch \in Character : QuoteChar(style, ch) \in Seq(Character)
         /\ [i \in DOMAIN word |-> QuoteChar(style, word[i])] \in Seq(Seq(Character))
<1>1. Mark(style) \in Seq(Character)
  <2>1. "'" \in Character /\ "\"" \in Character
    BY Zenon DEF Character, Special
  <2>2. <<>> \in Seq(Character) /\ <<"'">> \in Seq(Character) /\ <<"\"">> \in Seq(Character)
    BY <2>1, Short, Zenon
  <2>3. Mark(style) \in {<<>>, <<"'">>, <<"\"">>}
    BY Zenon DEF Mark, Styles
  <2> QED
    BY <2>2, <2>3, Zenon
<1>2. "\\" \in Character
  BY Zenon DEF Character, Special
<1>3. ASSUME NEW ch \in Character PROVE QuoteChar(style, ch) \in Seq(Character)
  <2>1. <<ch>> \in Seq(Character) /\ <<"\\", ch>> \in Seq(Character)
    BY <1>2, Short, Zenon
  <2>2. QuoteChar(style, ch) \in {<<ch>>, <<"\\", ch>>}
    BY Zenon DEF QuoteChar
  <2> QED
    BY <2>1, <2>2, Zenon
<1>4. DOMAIN word = 1 .. Len(word) /\ Len(word) \in Nat /\ \A i \in 1 .. Len(word) : word[i] \in Character
  OBVIOUS
<1>5. [i \in 1 .. Len(word) |-> QuoteChar(style, word[i])] \in Seq(Seq(Character))
  BY <1>3, <1>4
<1> QED
  BY <1>1, <1>3, <1>4, <1>5, Zenon

LEMMA LexesNext ==
  ASSUME NEW style \in Styles, NEW ch \in Character, style = "bare" => ch \notin Special, style = "single" => ch # "'",
         NEW l \in Seq(Character), NEW x \in Seq(Character), NEW w, NEW A, Lexed(l \o x) = LexState(Inside(style), w, A)
  PROVE  Lexed(l \o (x \o QuoteChar(style, ch))) = LexState(Inside(style), Append(w, ch), A)
<1>1. QuoteChar(style, ch) \in Seq(Character)
  <2>1. <<>> \in Seq(Character)
    OBVIOUS
  <2> QED
    BY <2>1, QuoteTypes, Zenon
<1>2. l \o x \in Seq(Character) /\ (l \o x) \o QuoteChar(style, ch) = l \o (x \o QuoteChar(style, ch))
  BY <1>1, Grouped
<1> DEFINE y == l \o x
<1>3. y \in Seq(Character) /\ Lexed(y) = LexState(Inside(style), w, A)
  BY <1>2, Zenon
<1> HIDE DEF y
<1>4. Lexed(y \o QuoteChar(style, ch)) = LexState(Inside(style), Append(w, ch), A)
  BY <1>3, LexesChar
<1> QED
  BY <1>2, <1>4, Zenon DEF y

\* The inside of a quoted word, character by character.
LEMMA LexesInside ==
  ASSUME NEW style \in Styles, NEW word \in Seq(Character), CanQuote(style, word),
         NEW l \in Seq(Character), NEW A, Lexed(l) = LexState(Inside(style), <<>>, A)
  PROVE  LET text == Concat([i \in DOMAIN word |-> QuoteChar(style, word[i])])
         IN  text \in Seq(Character) /\ Lexed(l \o text) = LexState(Inside(style), word, A)
<1> DEFINE s == [i \in DOMAIN word |-> QuoteChar(style, word[i])]
           L == Len(word)
<1>1. /\ L \in Nat /\ DOMAIN word = 1 .. L /\ Len(s) = L /\ \A n \in 1 .. L : word[n] \in Character
      /\ \A n \in 1 .. L : s[n] = QuoteChar(style, word[n])
  OBVIOUS
<1>2. s \in Seq(Seq(Character))
  BY QuoteTypes, Zenon
<1> HIDE DEF s, L
<1>3. PICK f : /\ f[0] = <<>> /\ Concat(s) = f[L]
               /\ \A n \in 1 .. L : f[n] = f[n - 1] \o s[n]
               /\ \A n \in 0 .. L : f[n] \in Seq(Character)
  BY <1>1, <1>2, ConcatUnfolds, Zenon
<1> DEFINE C(n) == Lexed(l \o f[n]) = LexState(Inside(style), SubSeq(word, 1, n), A)
           T == {n \in Nat : n <= L /\ ~C(n)}
<1>4. T = {}
  <2> SUFFICES ASSUME T # {} PROVE FALSE
    BY Zenon
  <2>1. PICK n \in T : \A y \in T : n <= y
    BY NatLeast, Zenon
  <2>2. CASE n = 0
    <3>1. SubSeq(word, 1, 0) = <<>> /\ l \o <<>> = l
      BY SubSeqEmpty, ConcatEmptySeq
    <3> QED
      BY <1>3, <2>1, <2>2, <3>1, Zenon
  <2>3. CASE n # 0
    <3>1. n - 1 \in Nat /\ n - 1 <= L /\ ~(n <= n - 1) /\ n \in 1 .. L /\ n - 1 \in 0 .. L
      BY <1>1, <2>1, <2>3
    <3>2. C(n - 1)
      BY <2>1, <3>1, Zenon
    <3> DEFINE ch == word[n]
               w == SubSeq(word, 1, n - 1)
    <3>3. /\ ch \in Character /\ s[n] = QuoteChar(style, ch)
          /\ style = "bare" => ch \notin Special
          /\ style = "single" => ch # "'"
      BY <1>1, <3>1, Zenon DEF CanQuote
    <3>4. f[n - 1] \in Seq(Character) /\ f[n] = f[n - 1] \o QuoteChar(style, ch)
      BY <1>3, <3>1, <3>3, Zenon
    <3>5. SubSeq(word, 1, n) = Append(w, ch)
      BY <1>1, <3>1 DEF L
    <3> HIDE DEF ch, w
    <3>6. Lexed(l \o f[n - 1]) = LexState(Inside(style), w, A)
      BY <3>2, Zenon DEF w
    <3>7. Lexed(l \o (f[n - 1] \o QuoteChar(style, ch))) = LexState(Inside(style), Append(w, ch), A)
      BY <3>3, <3>4, <3>6, LexesNext
    <3>8. C(n)
      BY <3>4, <3>5, <3>7, Zenon
    <3> QED
      BY <2>1, <3>8, Zenon
  <2> QED
    BY <2>2, <2>3, Zenon
<1>5. C(L)
  <2>1. L \in Nat /\ L <= L
    BY <1>1
  <2> HIDE DEF C
  <2> QED
    BY <1>4, <2>1, Zenon
<1>6. SubSeq(word, 1, L) = word
  BY SubSeqFull, Zenon DEF L
<1>7. Concat(s) \in Seq(Character) /\ Concat(s) = f[L]
  BY <1>1, <1>3, SMTT(30)
<1>8. Lexed(l \o Concat(s)) = LexState(Inside(style), word, A)
  BY <1>5, <1>6, <1>7, Zenon
<1> QED
  BY <1>7, <1>8, Zenon DEF s

\* The words read so far, and a further one.
Kept(A, word) == IF word = <<>> THEN A ELSE Append(A, word)

\* A word, however it is quoted, and the space after it.  A word without characters leaves no trace.
LEMMA LexesWord ==
  ASSUME NEW style \in Styles, NEW word \in Seq(Character), CanQuote(style, word),
         NEW l \in Seq(Character), NEW A, Lexed(l) = LexState("Normal", <<>>, A)
  PROVE  /\ QuoteWord(style, word) \o <<" ">> \in Seq(Character)
         /\ Lexed(l \o (QuoteWord(style, word) \o <<" ">>)) = LexState("Normal", <<>>, Kept(A, word))
<1> DEFINE m == Mark(style)
           text == Concat([i \in DOMAIN word |-> QuoteChar(style, word[i])])
           blank == <<" ">>
           l1 == l \o m
           l2 == l1 \o text
           l3 == l2 \o m
<1>1. QuoteWord(style, word) = (m \o text) \o m
  BY Zenon DEF QuoteWord
<1>2. m \in Seq(Character)
  BY QuoteTypes, Zenon
<1>3. " " \in Character
  BY Zenon DEF Character, Special
<1>4. blank \in Seq(Character)
  BY <1>3, Short, Zenon
<1> HIDE DEF m, text
<1>5. l1 \in Seq(Character)
  BY <1>2, Grouped, Zenon
<1>6. Lexed(l1) = LexState(Inside(style), <<>>, A)
  BY LexesMark DEF m
<1> HIDE DEF l1
<1>7. text \in Seq(Character) /\ Lexed(l2) = LexState(Inside(style), word, A)
  BY <1>5, <1>6, LexesInside, SMTT(30) DEF text
<1>8. l2 \in Seq(Character)
  BY <1>5, <1>7, Grouped, Zenon
<1> HIDE DEF l2
<1>9. Lexed(l3) = LexState("Normal", word, A)
  BY <1>7, <1>8, LexesMark DEF m
<1>10. l3 \in Seq(Character)
  BY <1>2, <1>8, Grouped, Zenon
<1> HIDE DEF l3
<1>11. Lexed(l3 \o blank) = Lex(LexState("Normal", word, A), " ")
  BY <1>3, <1>9, <1>10, LexedMore, Zenon
<1>12. Lex(LexState("Normal", word, A), " ") = LexState("Normal", <<>>, Kept(A, word))
  <2>1. Lex(LexState("Normal", word, A), " ") = EndWord(LexState("Normal", word, A))
    BY Zenon DEF Lex, LexState
  <2>2. CASE word # <<>>
    BY <2>1, <2>2, Zenon DEF EndWord, LexState, Kept
  <2>3. CASE word = <<>>
    BY <2>1, <2>3, Zenon DEF EndWord, LexState, Kept
  <2> QED
    BY <2>2, <2>3, Zenon
<1> HIDE DEF blank
<1>13. l \o (((m \o text) \o m) \o blank) = (((l \o m) \o text) \o m) \o blank
  <2> DEFINE x == m \o text
             y == x \o m
  <2>1. x \in Seq(Character) /\ (l \o m) \o text = l \o x
    BY <1>2, <1>7, Grouped, SMTT(30)
  <2> HIDE DEF x
  <2>2. y \in Seq(Character)
    BY <1>2, <2>1, ConcatProperties, Zenon
  <2>3. (l \o x) \o m = l \o y
    BY <1>2, <2>1, ConcatAssociative, SMTT(30)
  <2> HIDE DEF y
  <2>4. (l \o y) \o blank = l \o (y \o blank)
    BY <1>4, <2>2, ConcatAssociative, SMTT(30)
  <2> QED
    BY <2>1, <2>3, <2>4, Zenon DEF x, y
<1>14. l3 = ((l \o m) \o text) \o m
  BY Zenon DEF l1, l2, l3
<1>15. ((m \o text) \o m) \o blank \in Seq(Character)
  <2>1. m \o text \in Seq(Character)
    BY <1>2, <1>7, ConcatProperties, Zenon
  <2>2. (m \o text) \o m \in Seq(Character)
    BY <1>2, <2>1, ConcatProperties, Zenon
  <2> QED
    BY <1>4, <2>2, ConcatProperties, Zenon
<1> QED
  BY <1>1, <1>11, <1>12, <1>13, <1>14, <1>15, Zenon DEF blank

\* split_command_line reads back every line of quoted words, without the empty ones; it refuses a
\* line that has no others.
LEMMA LineIsSplit ==
  ASSUME NEW argv \in Seq(Seq(STRING)), NEW styles \in [DOMAIN argv -> Styles],
         \A i \in DOMAIN argv : CanQuote(styles[i], argv[i])
  PROVE  SplitCommandLine(QuoteLine(styles, argv)) = IF NonEmpty(argv) = <<>> THEN Fail ELSE NonEmpty(argv)
<1> DEFINE s == [i \in DOMAIN argv |-> QuoteWord(styles[i], argv[i]) \o <<" ">>]
           e == [i \in DOMAIN argv |-> IF argv[i] = <<>> THEN <<>> ELSE <<argv[i]>>]
           L == Len(argv)
<1>1. L \in Nat /\ DOMAIN argv = 1 .. L
  OBVIOUS
<1>2. \A n \in 1 .. L : argv[n] \in Seq(Character) /\ styles[n] \in Styles /\ CanQuote(styles[n], argv[n])
  <2> SUFFICES ASSUME NEW n \in 1 .. L PROVE argv[n] \in Seq(Character) /\ styles[n] \in Styles /\ CanQuote(styles[n], argv[n])
    BY Zenon
  <2>1. styles[n] \in Styles /\ CanQuote(styles[n], argv[n])
    BY <1>1, Zenon
  <2>2. argv[n] \in Seq(STRING)
    BY <1>1, ElementOfSeq, Zenon
  <2>3. STRING \subseteq Character
    BY Zenon DEF Character
  <2> QED
    BY <2>1, <2>2, <2>3, SeqMonotonic, Zenon
<1>3. Lexed(<<>>) = LexState("Normal", <<>>, <<>>) /\ <<>> \in Seq(Character)
  BY LexedNothing DEF LexStart, LexState
<1>4. \A n \in 1 .. L : s[n] = QuoteWord(styles[n], argv[n]) \o <<" ">>
  BY <1>1, Zenon
<1>5. s = [n \in 1 .. L |-> s[n]]
  BY <1>1, Zenon
<1>12. \A n \in 1 .. L : e[n] = IF argv[n] = <<>> THEN <<>> ELSE <<argv[n]>>
  BY <1>1, Zenon
<1>13. e = [n \in 1 .. L |-> e[n]]
  BY <1>1, Zenon
<1> HIDE DEF s, e, L
<1>14. e \in Seq(Seq(Seq(Character))) /\ Len(e) = L
  <2>1. ASSUME NEW n \in 1 .. L PROVE e[n] \in Seq(Seq(Character))
    <3> DEFINE word == argv[n]
    <3>1. word \in Seq(Character) /\ e[n] = IF word = <<>> THEN <<>> ELSE <<word>>
      BY <1>2, <1>12, Zenon
    <3> HIDE DEF word
    <3>2. <<>> \in Seq(Seq(Character)) /\ <<word>> \in Seq(Seq(Character))
      BY <3>1
    <3> QED
      BY <3>1, <3>2, Zenon
  <2>2. e \in [1 .. L -> Seq(Seq(Character))]
    BY <1>13, <2>1, Zenon
  <2> QED
    BY <1>1, <2>2
<1>15. PICK g : /\ g[0] = <<>> /\ Concat(e) = g[L]
                /\ \A n \in 1 .. L : g[n] = g[n - 1] \o e[n]
                /\ \A n \in 0 .. L : g[n] \in Seq(Seq(Character))
  BY <1>14, ConcatUnfolds, Zenon
<1>6. s \in Seq(Seq(Character)) /\ Len(s) = L
  <2>1. ASSUME NEW n \in 1 .. L PROVE s[n] \in Seq(Character)
    <3>1. QuoteWord(styles[n], argv[n]) \o <<" ">> \in Seq(Character)
      BY <1>2, <1>3, LexesWord, Zenon
    <3> QED
      BY <1>4, <3>1, Zenon
  <2>2. s \in [1 .. L -> Seq(Character)]
    BY <1>5, <2>1, Zenon
  <2> QED
    BY <1>1, <2>2
<1>7. PICK f : /\ f[0] = <<>> /\ Concat(s) = f[L]
               /\ \A n \in 1 .. L : f[n] = f[n - 1] \o s[n]
               /\ \A n \in 0 .. L : f[n] \in Seq(Character)
  BY <1>6, ConcatUnfolds, Zenon
<1> DEFINE C(n) == Lexed(f[n]) = LexState("Normal", <<>>, g[n])
           T == {n \in Nat : n <= L /\ ~C(n)}
<1>8. T = {}
  <2> SUFFICES ASSUME T # {} PROVE FALSE
    BY Zenon
  <2>1. PICK n \in T : \A y \in T : n <= y
    BY NatLeast, Zenon
  <2>2. CASE n = 0
    BY <1>3, <1>7, <1>15, <2>1, <2>2, Zenon
  <2>3. CASE n # 0
    <3>1. n - 1 \in Nat /\ n - 1 <= L /\ ~(n <= n - 1) /\ n \in 1 .. L /\ n - 1 \in 0 .. L
      BY <1>1, <2>1, <2>3
    <3>2. C(n - 1)
      BY <2>1, <3>1, Zenon
    <3> DEFINE x == f[n - 1]
               A == g[n - 1]
               word == argv[n]
               style == styles[n]
    <3>3. x \in Seq(Character) /\ Lexed(x) = LexState("Normal", <<>>, A)
      BY <1>7, <3>1, <3>2, Zenon
    <3>4. word \in Seq(Character) /\ style \in Styles /\ CanQuote(style, word)
      BY <1>2, <3>1, Zenon
    <3>5. f[n] = x \o (QuoteWord(style, word) \o <<" ">>)
      BY <1>4, <1>7, <3>1, Zenon
    <3>9. A \in Seq(Seq(Character)) /\ g[n] = A \o (IF word = <<>> THEN <<>> ELSE <<word>>)
      BY <1>12, <1>15, <3>1, Zenon
    <3> HIDE DEF x, A, word, style
    <3>6. g[n] = Kept(A, word)
      <4>1. A \o <<>> = A /\ A \o <<word>> = Append(A, word)
        BY <3>4, <3>9
      <4> QED
        BY <3>9, <4>1, Zenon DEF Kept
    <3>7. Lexed(x \o (QuoteWord(style, word) \o <<" ">>)) = LexState("Normal", <<>>, Kept(A, word))
      BY <3>3, <3>4, LexesWord, Zenon
    <3>8. C(n)
      BY <3>5, <3>6, <3>7, Zenon
    <3> QED
      BY <2>1, <3>8, Zenon
  <2> QED
    BY <2>2, <2>3, Zenon
<1>9. C(L)
  <2>1. L \in Nat /\ L <= L
    BY <1>1
  <2> HIDE DEF C
  <2> QED
    BY <1>8, <2>1, Zenon
<1>10. NonEmpty(argv) = g[L]
  BY <1>15, Zenon DEF NonEmpty, e
<1>11. Lexed(QuoteLine(styles, argv)) = LexState("Normal", <<>>, NonEmpty(argv))
  <2>1. QuoteLine(styles, argv) = Concat(s)
    BY Zenon DEF QuoteLine, s
  <2> QED
    BY <1>7, <1>9, <1>10, <2>1, Zenon
<1> DEFINE N == NonEmpty(argv)
           line == QuoteLine(styles, argv)
<1>16. Lexed(line) = LexState("Normal", <<>>, N)
  BY <1>11, Zenon
<1> HIDE DEF N, line
<1>17. EndWord(LexState("Normal", <<>>, N)) = LexState("Normal", <<>>, N)
  BY DEF EndWord, LexState
<1>18. LexState("Normal", <<>>, N).mode = "Normal" /\ LexState("Normal", <<>>, N).argv = N
  BY DEF LexState
<1>19. SplitCommandLine(line) = IF N = <<>> THEN Fail ELSE N
  BY <1>16, <1>17, <1>18, Zenon DEF SplitCommandLine
<1> QED
  BY <1>19, Zenon DEF N, line
=============================================================================
