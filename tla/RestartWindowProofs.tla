------------------------- MODULE RestartWindowProofs -------------------------
(***************************************************************************)
(* The crash-loop breaker keeps its promise for every allowance, every      *)
(* interval and every behaviour of the clock.                               *)
(***************************************************************************)
EXTENDS RestartWindow, TLAPS

\* How many attempts have left the queue.
Forgotten == Len(attempts) - Len(restart_times)

\* The queue is the end of the history.
QueueIsSuffix ==
  /\ Forgotten \in Nat
  /\ \A i \in 1..Len(restart_times) : restart_times[i] = attempts[Forgotten + i]

\* Only what is outside the window has been forgotten.
ForgottenIsOld == \A i \in 1..Forgotten : now - attempts[i] > Window

IInv == TypeOK /\ QueueIsSuffix /\ ForgottenIsOld /\ BoundedInAnyWindow

-----------------------------------------------------------------------------
\* What eviction leaves of the queue.
LEMMA KeptIs ==
  ASSUME TypeOK, NEW k \in 0..Len(restart_times)
  PROVE  /\ Kept(k) \in Seq(Nat)
         /\ Len(Kept(k)) = Len(restart_times) - k
         /\ \A i \in 1..(Len(restart_times) - k) : Kept(k)[i] = restart_times[k + i]
BY DEF TypeOK, Kept

\* Together with what was forgotten before, everything evicted is old.
LEMMA EvictedIsOld ==
  ASSUME TypeOK, QueueIsSuffix, ForgottenIsOld,
         NEW k \in 0..Len(restart_times), Evicts(k)
  PROVE  \A i \in 1..(Forgotten + k) : now - attempts[i] > Window
<1> SUFFICES ASSUME NEW i \in 1..(Forgotten + k)
             PROVE  now - attempts[i] > Window
  OBVIOUS
<1>1. CASE i \in 1..Forgotten
  BY <1>1 DEF ForgottenIsOld
<1>2. CASE i \notin 1..Forgotten
  <2>1. i - Forgotten \in 1..k
    BY <1>2 DEF QueueIsSuffix, TypeOK
  <2>2. restart_times[i - Forgotten] = attempts[Forgotten + (i - Forgotten)]
    BY <2>1 DEF QueueIsSuffix, TypeOK
  <2>3. Forgotten + (i - Forgotten) = i
    BY DEF QueueIsSuffix
  <2> QED BY <2>1, <2>2, <2>3 DEF Evicts, Outside
<1> QED BY <1>1, <1>2

\* The invariant holds of an empty queue.
LEMMA InitIInv == Init => IInv
<1> SUFFICES ASSUME Init PROVE IInv
  OBVIOUS
<1>1. restart_times = << >> /\ attempts = << >> /\ now = 0 /\ gave_up = FALSE
  BY DEF Init
<1>2. Len(restart_times) = 0 /\ Len(attempts) = 0 /\ << >> \in Seq(Nat)
  BY <1>1
<1>3. TypeOK
  <2>1. 0 \in 0..Horizon /\ 0 <= MaxRestarts
    BY RestartWindowAssumption
  <2>2. now \in 0..Horizon /\ Len(restart_times) <= MaxRestarts
    BY <2>1, <1>1, <1>2
  <2>3. restart_times \in Seq(Nat) /\ attempts \in Seq(Nat)
    BY <1>1, <1>2
  <2> QED BY <1>1, <2>2, <2>3 DEF TypeOK
<1>4. QueueIsSuffix /\ ForgottenIsOld /\ BoundedInAnyWindow
  BY <1>2 DEF QueueIsSuffix, ForgottenIsOld, BoundedInAnyWindow, Forgotten
<1> QED BY <1>3, <1>4 DEF IInv

\* Time passing makes old attempts older.
LEMMA TickIInv == ASSUME IInv, Tick PROVE IInv'
<1>1. TypeOK'
  BY RestartWindowAssumption DEF IInv, TypeOK, Tick
<1>2. QueueIsSuffix' /\ BoundedInAnyWindow'
  BY DEF IInv, QueueIsSuffix, BoundedInAnyWindow, Forgotten, Tick
<1>3. ForgottenIsOld'
  <2>1. Forgotten' = Forgotten /\ Forgotten \in Nat /\ now' = now + 1
    BY DEF IInv, QueueIsSuffix, Forgotten, Tick
  <2>2. \A i \in 1..Forgotten : attempts[i] \in Nat
    BY <2>1 DEF IInv, TypeOK, Forgotten
  <2> QED
    BY <2>1, <2>2, RestartWindowAssumption DEF IInv, TypeOK, ForgottenIsOld, Tick
<1> QED BY <1>1, <1>2, <1>3 DEF IInv

\* A new attempt finds the one max_restarts before it among the forgotten.
LEMMA AttemptIInv == ASSUME IInv, Attempt PROVE IInv'
<1> USE RestartWindowAssumption
<1>1. PICK k \in 0..Len(restart_times) :
        Evicts(k) /\ ~Full(k) /\ restart_times' = Append(Kept(k), now)
  BY DEF Attempt
<1>2. attempts' = Append(attempts, now) /\ now' = now /\ gave_up' = gave_up
  BY DEF Attempt
<1>0. TypeOK /\ QueueIsSuffix /\ ForgottenIsOld /\ BoundedInAnyWindow
  BY DEF IInv
<1> DEFINE n == Len(attempts)
           m == Len(restart_times) - k
<1>3. /\ Kept(k) \in Seq(Nat) /\ Len(Kept(k)) = m /\ m \in Nat /\ m < MaxRestarts
      /\ \A i \in 1..m : Kept(k)[i] = restart_times[k + i]
  BY <1>0, <1>1, KeptIs DEF Full, TypeOK
<1>4. /\ now \in Nat /\ n \in Nat /\ Len(attempts') = n + 1
      /\ attempts'[n + 1] = now
      /\ \A i \in 1..n : attempts'[i] = attempts[i] /\ attempts[i] \in Nat
  BY <1>0, <1>2 DEF TypeOK
<1>5. /\ Len(restart_times') = m + 1
      /\ restart_times'[m + 1] = now
      /\ \A i \in 1..m : restart_times'[i] = restart_times[k + i]
  BY <1>1, <1>3, <1>4
<1>6. TypeOK'
  BY <1>0, <1>1, <1>2, <1>3, <1>4, <1>5 DEF TypeOK
<1>7. /\ Forgotten' = Forgotten + k /\ Forgotten' = n - m /\ Forgotten' \in Nat
      /\ Forgotten \in Nat
  BY <1>0, <1>4, <1>5, <1>3 DEF Forgotten, QueueIsSuffix, TypeOK
<1>8. QueueIsSuffix'
  <2> SUFFICES ASSUME NEW i \in 1..(m + 1)
               PROVE  restart_times'[i] = attempts'[Forgotten' + i]
    BY <1>5, <1>7 DEF QueueIsSuffix
  <2>1. CASE i = m + 1
    <3>1. n \in Nat /\ m \in Nat /\ Forgotten' = n - m
      BY <1>3, <1>4, <1>7
    <3>2. Forgotten' + i = n + 1
      <4> HIDE DEF n, m
      <4> QED BY <2>1, <3>1
    <3> QED BY <2>1, <3>2, <1>4, <1>5
  <2>2. CASE i \in 1..m
    <3>1. k + i \in 1..Len(restart_times) /\ Forgotten + (k + i) \in 1..n
      BY <2>2, <1>0, <1>3, <1>7 DEF TypeOK, Forgotten
    <3>2. restart_times[k + i] = attempts[Forgotten + (k + i)]
      BY <3>1, <1>0 DEF QueueIsSuffix
    <3> QED BY <2>2, <3>1, <3>2, <1>3, <1>4, <1>5, <1>7
  <2>3. m \in Nat
    BY <1>3
  <2> HIDE DEF m
  <2> QED BY <2>1, <2>2, <2>3
<1>9. \A i \in 1..(Forgotten + k) : now - attempts[i] > Window
  BY <1>0, <1>1, EvictedIsOld
<1>10. ForgottenIsOld'
  BY <1>2, <1>3, <1>4, <1>7, <1>9 DEF ForgottenIsOld
<1>11. BoundedInAnyWindow'
  <2> SUFFICES ASSUME NEW i \in 1..(n + 1), NEW j \in 1..(n + 1), j >= i + MaxRestarts
               PROVE  attempts'[j] - attempts'[i] > Window
    BY <1>4 DEF BoundedInAnyWindow
  <2>1. CASE j \in 1..n
    BY <2>1, <1>0, <1>4 DEF BoundedInAnyWindow
  <2>2. CASE j = n + 1
    <3>1. i \in 1..(Forgotten + k) /\ i \in 1..n
      BY <2>2, <1>3, <1>4, <1>7
    <3> QED BY <2>2, <3>1, <1>4, <1>9
  <2> QED BY <2>1, <2>2, <1>4
<1> QED BY <1>6, <1>8, <1>10, <1>11 DEF IInv

\* Giving up only shortens the queue.
LEMMA GiveUpIInv == ASSUME IInv, GiveUp PROVE IInv'
<1> USE RestartWindowAssumption
<1>0. TypeOK /\ QueueIsSuffix /\ ForgottenIsOld /\ BoundedInAnyWindow
  BY DEF IInv
<1>1. PICK k \in 0..Len(restart_times) :
        Evicts(k) /\ Full(k) /\ restart_times' = Kept(k)
  BY DEF GiveUp
<1>2. k = 0
  BY <1>0, <1>1 DEF Full, TypeOK
<1>3. /\ restart_times' \in Seq(Nat) /\ Len(restart_times') = Len(restart_times)
      /\ \A i \in 1..Len(restart_times) : restart_times'[i] = restart_times[i]
  BY <1>0, <1>1, <1>2, KeptIs
<1>4. attempts' = attempts /\ now' = now /\ gave_up' = TRUE
  BY DEF GiveUp
<1>5. TypeOK' /\ Forgotten' = Forgotten
  BY <1>0, <1>3, <1>4 DEF TypeOK, Forgotten
<1>6. QueueIsSuffix' /\ ForgottenIsOld' /\ BoundedInAnyWindow'
  BY <1>0, <1>3, <1>4, <1>5 DEF QueueIsSuffix, ForgottenIsOld, BoundedInAnyWindow
<1> QED BY <1>5, <1>6 DEF IInv

\* The inductive invariant of the breaker.
LEMMA Invariance == Spec => []IInv
<1>1. IInv /\ [Next]_vars => IInv'
  <2>1. IInv /\ UNCHANGED vars => IInv'
    BY DEF IInv, TypeOK, QueueIsSuffix, ForgottenIsOld, BoundedInAnyWindow, Forgotten, vars
  <2> QED BY <2>1, TickIInv, AttemptIInv, GiveUpIInv DEF Next
<1> QED BY <1>1, InitIInv, PTL DEF Spec

\* Of any max_restarts + 1 successive restart attempts, the first and the last are
\* more than restart_interval_sec apart.
THEOREM BreakerBounds == Spec => []BoundedInAnyWindow
<1>1. IInv => BoundedInAnyWindow
  BY DEF IInv
<1> QED BY <1>1, Invariance, PTL

\* The monitor gives up only when max_restarts attempts lie inside the interval that
\* ends now.
THEOREM BreakerIsNotHasty == Spec => GivesUpOnlyOnLoop
<1>1. IInv /\ [Next]_vars =>
        [gave_up' /\ ~gave_up =>
           /\ Len(attempts) >= MaxRestarts
           /\ now - attempts[Len(attempts) - MaxRestarts + 1] <= Window]_vars
  <2> SUFFICES ASSUME IInv, Next, gave_up', ~gave_up
               PROVE  /\ Len(attempts) >= MaxRestarts
                      /\ now - attempts[Len(attempts) - MaxRestarts + 1] <= Window
    OBVIOUS
  <2>1. GiveUp
    BY DEF Next, Tick, Attempt
  <2>2. PICK k \in 0..Len(restart_times) : Evicts(k) /\ Full(k)
    BY <2>1 DEF GiveUp
  <2>3. k = 0 /\ Len(restart_times) = MaxRestarts
    BY <2>2, RestartWindowAssumption DEF IInv, TypeOK, Full
  <2>4. ~Outside(restart_times[1])
    BY <2>2, <2>3, RestartWindowAssumption DEF Evicts
  <2>5. /\ Len(attempts) - MaxRestarts \in Nat
        /\ restart_times[1] = attempts[(Len(attempts) - MaxRestarts) + 1]
    BY <2>3, RestartWindowAssumption DEF IInv, QueueIsSuffix, Forgotten
  <2>6. now \in Int /\ Window \in Int /\ Len(attempts) \in Nat /\ restart_times[1] \in Nat
    BY <2>3, RestartWindowAssumption DEF IInv, TypeOK
  <2> QED BY <2>4, <2>5, <2>6, RestartWindowAssumption DEF Outside
<1> QED BY <1>1, Invariance, PTL DEF Spec, GivesUpOnlyOnLoop

=============================================================================
