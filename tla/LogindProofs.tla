---------------------------- MODULE LogindProofs ----------------------------
(***************************************************************************)
(* quantra-logind for any requests, in any number and order: what a power  *)
(* action passes stays passed, a runtime directory is lost in one way      *)
(* only, and a closed session stays on the seat in one way only.           *)
(***************************************************************************)
EXTENDS Logind, TLAPS

------------------------------------------------------------------------------
(* Every step is one thread's: it moves that thread and leaves the others' places, locals and mutexes alone. *)

Fields == {"sid", "uid", "seat", "ok", "acpi"}
Types ==
  /\ work \in Workloads
  /\ DOMAIN lock = Lock /\ \A l \in Lock : lock[l] \in Thread \cup {None}
  /\ DOMAIN pc = Thread
  /\ DOMAIN mem = Thread /\ \A r \in Thread : DOMAIN mem[r] = Fields

PcMoves(r) == DOMAIN pc' = Thread /\ \A q \in Thread \ {r} : pc'[q] = pc[q]
MemMoves(r) == DOMAIN mem' = Thread /\ DOMAIN mem'[r] = Fields /\ \A q \in Thread \ {r} : mem'[q] = mem[q]
LockMoves(r) ==
  /\ DOMAIN lock' = Lock
  /\ \A l \in Lock : /\ lock'[l] \in Thread \cup {None}
                     /\ \A q \in Thread \ {r} : lock[l] = q => lock'[l] = q
Moves(r) == work' = work /\ PcMoves(r) /\ MemMoves(r) /\ LockMoves(r)

LEMMA ReqIsThread ==
  ASSUME Types
  PROVE  Req \subseteq Thread
BY LogindAssumption, Zenon DEF Types, Req, Thread

LEMMA SpecialThreads ==
  Acpi \in Thread /\ Idle \in Thread /\ Bridge \in Thread
BY Zenon DEF Thread

LEMMA GotoMoves ==
  ASSUME Types, NEW r \in Thread, NEW b, Goto(r, b)
  PROVE  PcMoves(r) /\ pc'[r] = b
BY Zenon DEF Types, Goto, PcMoves

LEMMA StatementMoves ==
  ASSUME Types, NEW r \in Thread, NEW l, NEW a, NEW b, Statement(r, l, a, b)
  PROVE  PcMoves(r) /\ pc'[r] = b /\ LockMoves(r)
BY GotoMoves, Zenon DEF Types, Statement, LockMoves

LEMMA AcquireMoves ==
  ASSUME Types, NEW r \in Thread, NEW l \in Lock, NEW a, NEW b, Acquire(r, l, a, b)
  PROVE  PcMoves(r) /\ pc'[r] = b /\ LockMoves(r)
<1>1. PcMoves(r) /\ pc'[r] = b
  BY GotoMoves, Zenon DEF Acquire
<1>2. LockMoves(r)
  BY LogindAssumption, Zenon DEF Types, Acquire, LockMoves
<1> QED
  BY <1>1, <1>2, Zenon

LEMMA SameLock ==
  ASSUME Types, NEW r, lock' = lock
  PROVE  LockMoves(r)
BY Zenon DEF Types, LockMoves

LEMMA DroppedMoves ==
  ASSUME Types, NEW r \in Thread, lock' = Dropped(r)
  PROVE  LockMoves(r)
BY Zenon DEF Types, Dropped, LockMoves

LEMMA SameMem ==
  ASSUME Types, NEW r \in Thread, mem' = mem
  PROVE  MemMoves(r)
BY Zenon DEF Types, MemMoves

\* The reply is the only local it sets.
LEMMA AnswerMoves ==
  ASSUME Types, NEW r \in Thread, Answer(r, TRUE) \/ Answer(r, FALSE)
  PROVE  MemMoves(r) /\ mem'[r].sid = mem[r].sid /\ mem'[r].seat = mem[r].seat
<1>1. PICK v : mem' = [mem EXCEPT ![r].ok = v]
  BY Zenon DEF Answer
<1> QED
  BY <1>1, Zenon DEF Types, MemMoves, Fields

LEMMA MovesKeepTypes ==
  ASSUME Types, NEW r \in Thread, Moves(r)
  PROVE  Types'
BY Zenon DEF Types, Moves, PcMoves, MemMoves, LockMoves

\* The one statement of a request, with its reply.
LEMMA OneMoves ==
  ASSUME Types, NEW r \in Thread, NEW op, NEW l, One(r, op, l), Answer(r, TRUE) \/ Answer(r, FALSE)
  PROVE  PcMoves(r) /\ MemMoves(r) /\ LockMoves(r) /\ pc'[r] = "done" /\ pc[r] = "one"
<1>1. MemMoves(r)
  BY AnswerMoves, Zenon
<1>2. Statement(r, l, "one", "done")
  BY Zenon DEF One
<1> QED
  BY <1>1, <1>2, StatementMoves, Zenon DEF Statement

------------------------------------------------------------------------------
(* The seat: the steps that open and close a session *)

Seated(s) == \E i \in DOMAIN seat.sessions : seat.sessions[i] = s
Opening(r) == pc[r] \in {"login", "seat", "assign"}

\* Some CloseSession of s found no seat to tell.
Missed(s) == \E q \in Req : /\ Op(q) = "close" /\ mem[q].sid = s /\ mem[q].seat = None
                            /\ pc[q] \notin {"close", "seat_of"}

\* The handler a thread is in, from where it stands.
PlaceInv ==
  \A r \in Req :
    /\ Opening(r) => Op(r) = "open"
    /\ pc[r] \in {"seat_of", "leave", "end"} => Op(r) = "close"
    /\ pc[r] = "act_seat" => Op(r) = "activate"
NumberInv ==
  /\ nextSession \in Nat
  /\ \A s \in DOMAIN sessions : s \in Nat /\ s < nextSession /\ "seat" \in DOMAIN sessions[s]
  /\ \A r \in Thread : mem[r].sid \in Nat /\ mem[r].sid < nextSession
  /\ {"sessions", "active", "taken"} \subseteq DOMAIN seat
  /\ seat.sessions \in Seq(Nat)
OpenerInv ==
  \A r \in Req : Opening(r) =>
    /\ \A q \in Req : Opening(q) /\ mem[q].sid = mem[r].sid => q = r
    /\ mem[r].sid \in DOMAIN sessions => sessions[mem[r].sid].seat = None
    /\ mem[r].sid \in DOMAIN sessions \/ Missed(mem[r].sid)
CloserInv ==
  \A r \in Req : pc[r] \in {"leave", "end"} /\ mem[r].seat # None =>
    /\ \A q \in Req : Opening(q) => mem[q].sid # mem[r].sid
    /\ pc[r] = "end" => ~Seated(mem[r].sid)
SeatInv == \A i \in DOMAIN seat.sessions : seat.sessions[i] \in DOMAIN sessions \/ Missed(seat.sessions[i])
DeadInv == Types /\ PlaceInv /\ NumberInv /\ OpenerInv /\ CloserInv /\ SeatInv

\* What the seat and the close handlers go by stays as it is.
SameSeats == /\ nextSession' = nextSession /\ DOMAIN sessions' = DOMAIN sessions
             /\ \A s \in DOMAIN sessions : /\ sessions'[s].seat = sessions[s].seat
                                           /\ "seat" \in DOMAIN sessions'[s]
             /\ seat'.sessions = seat.sessions /\ {"sessions", "active", "taken"} \subseteq DOMAIN seat'
SameLocals(r) == mem'[r].sid = mem[r].sid /\ mem'[r].seat = mem[r].seat

\* A step that enters neither OpenSession nor CloseSession.
Aside(r) == /\ Moves(r) /\ SameSeats /\ SameLocals(r)
            /\ pc'[r] \notin {"close", "seat_of", "leave", "end"}
            /\ pc'[r] \in {"login", "seat", "assign"} => Opening(r)
            /\ pc'[r] = "act_seat" => Op(r) = "activate"

\* Where a step's own thread cannot spoil it, that a close missed the seat stays true.
LEMMA MissedStays ==
  ASSUME NEW s, NEW r, Types, Missed(s), Moves(r),
         \/ SameLocals(r) /\ pc'[r] \notin {"close", "seat_of"}
         \/ r \in Req /\ (Op(r) # "close" \/ pc[r] \in {"close", "seat_of"})
  PROVE  Missed(s)'
<1>1. PICK q \in Req : Op(q) = "close" /\ mem[q].sid = s /\ mem[q].seat = None /\ pc[q] \notin {"close", "seat_of"}
  BY Zenon DEF Missed
<1>2. q \in Thread /\ work' = work
  BY ReqIsThread, Zenon DEF Moves
<1>3. q \in Req' /\ Op(q)' = "close"
  BY <1>1, <1>2, Zenon DEF Req, Op
<1>4. mem'[q].sid = s /\ mem'[q].seat = None /\ pc'[q] \notin {"close", "seat_of"}
  BY <1>1, <1>2, Zenon DEF Moves, PcMoves, MemMoves, SameLocals
<1> QED
  BY <1>3, <1>4, Zenon DEF Missed

\* What a step of r leaves as it was.
LEMMA OthersStay ==
  ASSUME Types, NEW r \in Thread, Moves(r)
  PROVE  /\ Types' /\ Req \subseteq Thread /\ Req' = Req /\ \A q \in Req : Op(q)' = Op(q)
         /\ \A q \in Thread \ {r} : mem'[q] = mem[q] /\ pc'[q] = pc[q]
BY ReqIsThread, MovesKeepTypes, Zenon DEF Moves, PcMoves, MemMoves, Req, Op

\* The reply, the ACPI counter and nothing else of a thread's locals.
LEMMA LocalsStay ==
  ASSUME Types, NEW r \in Thread, mem' = mem \/ Answer(r, TRUE) \/ Answer(r, FALSE)
  PROVE  SameLocals(r)
BY AnswerMoves, Zenon DEF SameLocals

\* Where a thread stands between taking the guard of the inhibitors and its power action.
Holding == {"p_power", "p_check", "p_delay", "p_go"}

\* A request or a thread that stays clear of the power actions.
Elsewhere(r) == Moves(r) /\ pc'[r] \notin Holding /\ inhibitors' = inhibitors

LEMMA OpenElsewhere ==
  ASSUME Types, NEW r \in Thread,
         \/ Open(r) \/ LoginAgain(r) \/ LoginFirst(r) \/ LoginFails(r) \/ OpenSeat(r) \/ OpenAssign(r)
  PROVE  Elsewhere(r)
<1> USE DEF Elsewhere, Moves, Holding, inhibitVars, worldVars
<1>1. CASE Open(r)
  <2>1. mem' = [mem EXCEPT ![r] = [mem[r] EXCEPT !.sid = nextSession]]
    BY <1>1, Zenon DEF Open
  <2>2. MemMoves(r)
    BY <2>1, Zenon DEF Types, MemMoves, Fields
  <2> QED
    BY <1>1, <2>2, StatementMoves DEF Open
<1>2. CASE LoginAgain(r)
  BY <1>2, StatementMoves, SameMem DEF LoginAgain
<1>3. CASE LoginFirst(r)
  BY <1>3, StatementMoves, SameMem DEF LoginFirst
<1>4. CASE LoginFails(r)
  <2>1. MemMoves(r)
    BY <1>4, AnswerMoves, Zenon DEF LoginFails
  <2> QED
    BY <1>4, <2>1, StatementMoves DEF LoginFails
<1>5. CASE OpenSeat(r)
  BY <1>5, StatementMoves, SameMem DEF OpenSeat
<1>6. CASE OpenAssign(r)
  BY <1>6, StatementMoves, SameMem DEF OpenAssign, sessionVars
<1> QED
  BY <1>1, <1>2, <1>3, <1>4, <1>5, <1>6, Zenon

LEMMA OpenKeepsDead ==
  ASSUME DeadInv, NEW r \in Req, Open(r)
  PROVE  DeadInv'
<1> USE DEF DeadInv
<1>0. r \in Thread /\ Moves(r)
  BY ReqIsThread, OpenElsewhere, Zenon DEF Elsewhere
<1>1. /\ Types' /\ Req \subseteq Thread /\ Req' = Req /\ \A q \in Req : Op(q)' = Op(q)
      /\ \A q \in Thread \ {r} : mem'[q] = mem[q] /\ pc'[q] = pc[q]
  BY <1>0, OthersStay, Zenon
<1>2. pc'[r] = "login" /\ Op(r) = "open" /\ mem'[r].sid = nextSession /\ mem'[r].seat = mem[r].seat
  BY <1>0, GotoMoves DEF Open, Statement, Types, Fields
<1>3. /\ nextSession' = nextSession + 1 /\ seat' = seat
      /\ DOMAIN sessions' = DOMAIN sessions \cup {nextSession} /\ sessions'[nextSession].seat = None
      /\ "seat" \in DOMAIN sessions'[nextSession]
      /\ \A s \in DOMAIN sessions \ {nextSession} : sessions'[s] = sessions[s]
  BY Zenon DEF Open, SessionOpen
<1>4. \A s : Missed(s) => Missed(s)'
  BY <1>0, <1>2, MissedStays, Zenon
<1>5. PlaceInv'
  BY <1>1, <1>2, Zenon DEF PlaceInv, Opening
<1>6. NumberInv'
  BY <1>1, <1>2, <1>3 DEF NumberInv
<1>7. \A q \in Req \ {r} : /\ Opening(q)' = Opening(q)
                           /\ mem'[q].sid # mem'[r].sid /\ mem'[q].sid = mem[q].sid
  BY <1>1, <1>2 DEF NumberInv, Opening
<1>8. OpenerInv'
  <2> SUFFICES ASSUME NEW p \in Req, Opening(p)'
               PROVE  /\ \A q \in Req : Opening(q)' /\ mem'[q].sid = mem'[p].sid => q = p
                      /\ mem'[p].sid \in DOMAIN sessions' => sessions'[mem'[p].sid].seat = None
                      /\ mem'[p].sid \in DOMAIN sessions' \/ Missed(mem[p].sid)'
    BY <1>1, Zenon DEF OpenerInv
  <2>1. CASE p = r
    BY <1>2, <1>3, <1>7, <2>1, Zenon
  <2>2. CASE p # r
    BY <1>2, <1>3, <1>4, <1>7, <2>2, SMTT(30) DEF OpenerInv
  <2> QED
    BY <2>1, <2>2, Zenon
<1>9. CloserInv'
  BY <1>1, <1>2, <1>3, <1>7, SMTT(30) DEF CloserInv, Seated, Opening
<1>10. SeatInv'
  BY <1>3, <1>4, Zenon DEF SeatInv
<1> QED
  BY <1>1, <1>5, <1>6, <1>8, <1>9, <1>10, Zenon

LEMMA OpenSeatKeepsDead ==
  ASSUME DeadInv, NEW r \in Req, OpenSeat(r)
  PROVE  DeadInv'
<1> USE DEF DeadInv
<1>0. r \in Thread /\ Moves(r) /\ Opening(r)
  BY ReqIsThread, OpenElsewhere, Zenon DEF Elsewhere, OpenSeat, Statement, Opening
<1>1. /\ Types' /\ Req \subseteq Thread /\ Req' = Req /\ \A q \in Req : Op(q)' = Op(q)
      /\ \A q \in Thread \ {r} : mem'[q] = mem[q] /\ pc'[q] = pc[q]
  BY <1>0, OthersStay, Zenon
<1>2. pc'[r] = "assign" /\ mem' = mem /\ sessions' = sessions /\ nextSession' = nextSession
  BY <1>0, GotoMoves, Zenon DEF OpenSeat, Statement, sessionVars
<1>3. /\ seat'.sessions = seat.sessions \/ seat'.sessions = Append(seat.sessions, mem[r].sid)
      /\ {"sessions", "active", "taken"} \subseteq DOMAIN seat'
  BY Zenon DEF OpenSeat, SeatAdd, NumberInv
<1>4. /\ seat'.sessions \in Seq(Nat)
      /\ \A i \in DOMAIN seat'.sessions :
           \/ seat'.sessions[i] = mem[r].sid
           \/ i \in DOMAIN seat.sessions /\ seat'.sessions[i] = seat.sessions[i]
  <2>1. mem[r].sid \in Nat /\ seat.sessions \in Seq(Nat)
    BY <1>0, Zenon DEF NumberInv
  <2>2. CASE seat'.sessions = seat.sessions
    BY <2>1, <2>2, Zenon
  <2>3. CASE seat'.sessions = Append(seat.sessions, mem[r].sid)
    BY <2>1, <2>3
  <2> QED
    BY <1>3, <2>2, <2>3, Zenon
<1>5. \A s : Missed(s) => Missed(s)'
  BY <1>0, <1>2, MissedStays, Zenon DEF SameLocals
<1>6. \A q \in Req : Opening(q)' = Opening(q)
  BY <1>0, <1>1, <1>2 DEF Opening
<1>7. PlaceInv'
  BY <1>1, <1>2, <1>6, Zenon DEF PlaceInv
<1>8. NumberInv'
  BY <1>2, <1>3, <1>4, Zenon DEF NumberInv
<1>9. OpenerInv'
  BY <1>1, <1>2, <1>5, <1>6, Zenon DEF OpenerInv
<1>10. CloserInv'
  BY <1>0, <1>1, <1>2, <1>4, <1>6, SMTT(30) DEF CloserInv, Seated
<1>11. SeatInv'
  BY <1>0, <1>2, <1>4, <1>5, Zenon DEF SeatInv, OpenerInv
<1> QED
  BY <1>1, <1>7, <1>8, <1>9, <1>10, <1>11, Zenon

LEMMA OpenAssignKeepsDead ==
  ASSUME DeadInv, NEW r \in Req, OpenAssign(r)
  PROVE  DeadInv'
<1> USE DEF DeadInv
<1>0. r \in Thread /\ Moves(r) /\ Opening(r)
  BY ReqIsThread, OpenElsewhere, Zenon DEF Elsewhere, OpenAssign, Statement, Opening
<1>1. /\ Types' /\ Req \subseteq Thread /\ Req' = Req /\ \A q \in Req : Op(q)' = Op(q)
      /\ \A q \in Thread \ {r} : mem'[q] = mem[q] /\ pc'[q] = pc[q]
  BY <1>0, OthersStay, Zenon
<1>2. pc'[r] = "new_session" /\ mem' = mem /\ seat' = seat /\ nextSession' = nextSession
  BY <1>0, GotoMoves, Zenon DEF OpenAssign, Statement
<1>3. /\ DOMAIN sessions' = DOMAIN sessions
      /\ \A s \in DOMAIN sessions : /\ "seat" \in DOMAIN sessions'[s]
                                    /\ s # mem[r].sid => sessions'[s] = sessions[s]
  BY Zenon DEF OpenAssign, SessionSeat, NumberInv
<1>4. \A s : Missed(s) => Missed(s)'
  BY <1>0, <1>2, MissedStays, Zenon DEF SameLocals
<1>5. \A q \in Req : Opening(q)' => q # r /\ Opening(q) /\ mem[q].sid # mem[r].sid
  BY <1>0, <1>1, <1>2, Zenon DEF Opening, OpenerInv
<1>6. PlaceInv'
  BY <1>1, <1>2, <1>5, Zenon DEF PlaceInv
<1>7. NumberInv'
  BY <1>2, <1>3, Zenon DEF NumberInv
<1>8. OpenerInv'
  BY <1>1, <1>2, <1>3, <1>4, <1>5, Zenon DEF OpenerInv
<1>9. CloserInv'
  BY <1>1, <1>2, <1>5, SMTT(30) DEF CloserInv, Seated
<1>10. SeatInv'
  BY <1>2, <1>3, <1>4, Zenon DEF SeatInv
<1> QED
  BY <1>1, <1>6, <1>7, <1>8, <1>9, <1>10, Zenon

LEMMA CloseElsewhere ==
  ASSUME Types, NEW r \in Thread,
         \/ CloseUnknown(r) \/ CloseUid(r) \/ CloseSeatOf(r) \/ CloseLeave(r)
         \/ CloseEnd(r) \/ CloseVanished(r) \/ Logout(r)
  PROVE  Elsewhere(r)
<1> USE DEF Elsewhere, Moves, Holding, inhibitVars, worldVars
<1>1. CASE CloseUnknown(r)
  <2>1. MemMoves(r)
    BY <1>1, AnswerMoves, Zenon DEF CloseUnknown
  <2> QED
    BY <1>1, <2>1, StatementMoves DEF CloseUnknown
<1>2. CASE CloseUid(r)
  <2>1. mem' = [mem EXCEPT ![r] = [mem[r] EXCEPT !.sid = Arg(r).sid, !.uid = sessions[Arg(r).sid].uid]]
    BY <1>2, Zenon DEF CloseUid, Types, Fields
  <2>2. MemMoves(r)
    BY <2>1, Zenon DEF Types, MemMoves, Fields
  <2> QED
    BY <1>2, <2>2, StatementMoves DEF CloseUid
<1>3. CASE CloseSeatOf(r)
  <2>1. mem' = [mem EXCEPT ![r] = [mem[r] EXCEPT !.seat = SeatOf(mem[r].sid)]]
    BY <1>3, Zenon DEF CloseSeatOf
  <2>2. MemMoves(r)
    BY <2>1, Zenon DEF Types, MemMoves, Fields
  <2> QED
    BY <1>3, <2>2, StatementMoves DEF CloseSeatOf
<1>4. CASE CloseLeave(r)
  BY <1>4, GotoMoves, SameLock, SameMem DEF CloseLeave
<1>5. CASE CloseEnd(r)
  BY <1>5, StatementMoves, SameMem DEF CloseEnd
<1>6. CASE CloseVanished(r)
  <2>1. MemMoves(r)
    BY <1>6, AnswerMoves, Zenon DEF CloseVanished
  <2> QED
    BY <1>6, <2>1, StatementMoves DEF CloseVanished
<1>7. CASE Logout(r)
  BY <1>7, StatementMoves, SameMem DEF Logout
<1> QED
  BY <1>1, <1>2, <1>3, <1>4, <1>5, <1>6, <1>7, Zenon

LEMMA ActivateElsewhere ==
  ASSUME Types, NEW r \in Thread,
         \/ ActivateUnknown(r) \/ Activate(r) \/ ActivateSeatOf(r) \/ ActivateOn(r) \/ ActivateVt(r)
         \/ ActivateSwitch(r) \/ OnSeat(r) \/ OnSeatActive(r) \/ OnSeatSession(r)
  PROVE  Elsewhere(r)
<1> USE DEF Elsewhere, Moves, Holding, inhibitVars, worldVars
<1>1. CASE ActivateUnknown(r)
  <2>1. MemMoves(r)
    BY <1>1, AnswerMoves, Zenon DEF ActivateUnknown
  <2> QED
    BY <1>1, <2>1, StatementMoves DEF ActivateUnknown
<1>2. CASE Activate(r)
  BY <1>2, StatementMoves, SameMem DEF Activate
<1>3. CASE ActivateSeatOf(r)
  <2>1. mem' = [mem EXCEPT ![r] = [mem[r] EXCEPT !.seat = SeatOf(Arg(r).sid)]]
    BY <1>3, Zenon DEF ActivateSeatOf
  <2>2. MemMoves(r)
    BY <2>1, Zenon DEF Types, MemMoves, Fields
  <2> QED
    BY <1>3, <2>2, StatementMoves DEF ActivateSeatOf
<1>4. CASE ActivateOn(r)
  BY <1>4, GotoMoves, SameLock, SameMem DEF ActivateOn
<1>5. CASE ActivateVt(r)
  <2>1. MemMoves(r)
    BY <1>5, AnswerMoves, SameMem, Zenon DEF ActivateVt
  <2>2. PcMoves(r) /\ pc'[r] \in {"act_switch", "done"}
    BY <1>5, GotoMoves, Zenon DEF ActivateVt
  <2> QED
    BY <1>5, <2>1, <2>2, SameLock, Zenon DEF ActivateVt
<1>6. CASE ActivateSwitch(r)
  <2>1. "seats" \in Lock
    BY Zenon DEF Lock
  <2> QED
    BY <1>6, <2>1, StatementMoves, AcquireMoves, SameMem DEF ActivateSwitch
<1>7. CASE OnSeat(r)
  BY <1>7, OneMoves, Zenon DEF OnSeat
<1>8. CASE OnSeatActive(r)
  BY <1>8, StatementMoves, SameMem DEF OnSeatActive
<1>9. CASE OnSeatSession(r)
  <2>1. MemMoves(r)
    BY <1>9, AnswerMoves, Zenon DEF OnSeatSession
  <2> QED
    BY <1>9, <2>1, StatementMoves DEF OnSeatSession
<1> QED
  BY <1>1, <1>2, <1>3, <1>4, <1>5, <1>6, <1>7, <1>8, <1>9, Zenon

\* CloseSession up to the look at the session's seat, and the same look of ActivateSession.
LEMMA LookKeepsDead ==
  ASSUME DeadInv, NEW r \in Req, CloseUid(r) \/ CloseSeatOf(r) \/ ActivateSeatOf(r)
  PROVE  DeadInv'
<1> USE DEF DeadInv
<1>0. r \in Thread /\ Moves(r)
  BY ReqIsThread, CloseElsewhere, ActivateElsewhere, Zenon DEF Elsewhere
<1>1. /\ Types' /\ Req \subseteq Thread /\ Req' = Req /\ \A q \in Req : Op(q)' = Op(q)
      /\ \A q \in Thread \ {r} : mem'[q] = mem[q] /\ pc'[q] = pc[q]
  BY <1>0, OthersStay, Zenon
<1>2. seat' = seat /\ sessions' = sessions /\ nextSession' = nextSession
  BY Zenon DEF CloseUid, CloseSeatOf, ActivateSeatOf, sessionVars
<1>3. /\ pc[r] \in {"close", "seat_of", "act_seat"} /\ pc'[r] \in {"seat_of", "leave", "act_on"}
      /\ pc[r] = "close" => pc'[r] = "seat_of" /\ Op(r) = "close"
      /\ pc[r] = "seat_of" => pc'[r] = "leave"
      /\ pc[r] = "act_seat" => pc'[r] = "act_on"
  BY <1>0, GotoMoves, Zenon DEF CloseUid, CloseSeatOf, ActivateSeatOf, Statement
<1>4. /\ pc[r] = "close" => Op(r) = "close"
      /\ pc[r] = "seat_of" => Op(r) = "close"
      /\ pc[r] = "act_seat" => Op(r) = "activate"
  BY <1>3, Zenon DEF PlaceInv
<1>5. mem'[r].sid \in Nat /\ mem'[r].sid < nextSession
  <2>1. CASE CloseUid(r)
    <3>1. mem'[r].sid \in DOMAIN sessions
      BY <1>0, <2>1, Zenon DEF CloseUid, Types, Fields
    <3> QED
      BY <3>1, Zenon DEF NumberInv
  <2>2. CASE CloseSeatOf(r) \/ ActivateSeatOf(r)
    <3>1. mem'[r].sid = mem[r].sid
      BY <1>0, <2>2, Zenon DEF CloseSeatOf, ActivateSeatOf, Types, Fields
    <3> QED
      BY <1>0, <3>1, Zenon DEF NumberInv
  <2> QED
    BY <2>1, <2>2, Zenon
<1>6. pc'[r] = "leave" => mem'[r].sid = mem[r].sid /\ mem'[r].seat = SeatOf(mem[r].sid)
  BY <1>0, <1>3, Zenon DEF CloseUid, CloseSeatOf, ActivateSeatOf, Statement, Types, Fields
<1>7. \A s : Missed(s) => Missed(s)'
  BY <1>0, <1>3, <1>4, MissedStays, Zenon
<1>8. \A q \in Req : Opening(q)' => q # r /\ Opening(q) /\ mem'[q] = mem[q]
  BY <1>0, <1>1, <1>3, Zenon DEF Opening
<1>9. PlaceInv'
  BY <1>1, <1>3, <1>4, <1>8, Zenon DEF PlaceInv
<1>10. NumberInv'
  BY <1>1, <1>2, <1>5, Zenon DEF NumberInv
<1>11. OpenerInv'
  BY <1>1, <1>2, <1>7, <1>8 DEF OpenerInv
<1>12. pc'[r] = "leave" /\ mem'[r].seat # None => \A q \in Req : Opening(q) => mem[q].sid # mem[r].sid
  BY <1>6, Zenon DEF SeatOf, OpenerInv
<1>13. CloserInv'
  <2> SUFFICES ASSUME NEW p \in Req, pc'[p] \in {"leave", "end"}, mem'[p].seat # None
               PROVE  /\ \A q \in Req : Opening(q)' => mem'[q].sid # mem'[p].sid
                      /\ pc'[p] = "end" => ~Seated(mem[p].sid)'
    BY <1>1, Zenon DEF CloserInv
  <2>1. CASE p = r
    BY <1>3, <1>6, <1>8, <1>12, <2>1, Zenon
  <2>2. CASE p # r
    BY <1>1, <1>2, <1>8, <2>2, SMTT(30) DEF CloserInv, Seated
  <2> QED
    BY <2>1, <2>2, Zenon
<1>14. SeatInv'
  BY <1>2, <1>7, Zenon DEF SeatInv
<1> QED
  BY <1>1, <1>9, <1>10, <1>11, <1>13, <1>14, Zenon

LEMMA CloseEndKeepsDead ==
  ASSUME DeadInv, NEW r \in Req, CloseEnd(r)
  PROVE  DeadInv'
<1> USE DEF DeadInv
<1>0. r \in Thread /\ Moves(r)
  BY ReqIsThread, CloseElsewhere, Zenon DEF Elsewhere
<1>1. /\ Types' /\ Req \subseteq Thread /\ Req' = Req /\ \A q \in Req : Op(q)' = Op(q)
      /\ \A q \in Thread \ {r} : mem'[q] = mem[q] /\ pc'[q] = pc[q]
  BY <1>0, OthersStay, Zenon
<1>2. pc[r] = "end" /\ pc'[r] = "logout" /\ mem' = mem /\ seat' = seat /\ nextSession' = nextSession
  BY <1>0, GotoMoves, Zenon DEF CloseEnd, Statement
<1>3. /\ DOMAIN sessions' = DOMAIN sessions \ {mem[r].sid}
      /\ \A s \in DOMAIN sessions' : sessions'[s] = sessions[s]
  BY Zenon DEF CloseEnd, SessionClose
<1>4. \A s : Missed(s) => Missed(s)'
  BY <1>0, <1>2, MissedStays, Zenon DEF SameLocals
<1>5. mem[r].seat = None => Missed(mem[r].sid)'
  BY <1>1, <1>2, Zenon DEF Missed, PlaceInv
<1>6. mem[r].seat # None => ~Seated(mem[r].sid) /\ \A q \in Req : Opening(q) => mem[q].sid # mem[r].sid
  BY <1>2, Zenon DEF CloserInv
<1>7. \A q \in Req : Opening(q)' = Opening(q)
  BY <1>1, <1>2 DEF Opening
<1>8. PlaceInv'
  BY <1>1, <1>2, <1>7, Zenon DEF PlaceInv
<1>9. NumberInv'
  BY <1>2, <1>3, Zenon DEF NumberInv
<1>10. OpenerInv'
  BY <1>1, <1>2, <1>3, <1>4, <1>5, <1>6, <1>7, Zenon DEF OpenerInv
<1>11. CloserInv'
  BY <1>1, <1>2, <1>7, SMTT(30) DEF CloserInv, Seated
<1>12. SeatInv'
  BY <1>2, <1>3, <1>4, <1>5, <1>6, Zenon DEF SeatInv, Seated
<1> QED
  BY <1>1, <1>8, <1>9, <1>10, <1>11, <1>12, Zenon

LEMMA AsideKeepsDead ==
  ASSUME DeadInv, NEW r \in Thread, Aside(r)
  PROVE  DeadInv'
<1> USE DEF DeadInv
<1>0. Moves(r) /\ SameSeats /\ SameLocals(r) /\ work' = work /\ Req \subseteq Thread
  BY ReqIsThread, Zenon DEF Aside, Moves
<1>1. Types'
  BY <1>0, MovesKeepTypes, Zenon
<1>2. \A q \in Thread : mem'[q].sid = mem[q].sid /\ mem'[q].seat = mem[q].seat
  BY <1>0, Zenon DEF Moves, MemMoves, SameLocals
<1>3. \A q \in Thread : Opening(q)' => Opening(q)
  BY <1>0, Zenon DEF Aside, Opening, Moves, PcMoves
<1>4. \A q \in Thread : /\ pc'[q] \in {"close", "seat_of", "leave", "end"} => pc'[q] = pc[q]
                        /\ pc'[q] = "act_seat" => pc[q] = "act_seat" \/ Op(q) = "activate"
  BY <1>0, Zenon DEF Aside, Moves, PcMoves
<1>5. Req' = Req /\ \A q \in Req : Op(q)' = Op(q)
  BY <1>0, Zenon DEF Req, Op
<1>6. \A s : Missed(s) => Missed(s)'
  BY <1>0, MissedStays, Zenon DEF Aside
<1>7. PlaceInv'
  BY <1>0, <1>3, <1>4, <1>5, Zenon DEF PlaceInv
<1>8. NumberInv'
  BY <1>0, <1>2, Zenon DEF NumberInv, SameSeats
<1>9. OpenerInv'
  BY <1>0, <1>2, <1>3, <1>5, <1>6 DEF OpenerInv, SameSeats
<1>10. CloserInv'
  BY <1>0, <1>2, <1>3, <1>4, <1>5, SMTT(30) DEF CloserInv, SameSeats, Seated
<1>11. SeatInv'
  BY <1>0, <1>6, Zenon DEF SeatInv, SameSeats
<1> QED
  BY <1>1, <1>7, <1>8, <1>9, <1>10, <1>11, Zenon

------------------------------------------------------------------------------
(* Vec::retain *)

LOCAL INSTANCE WellFoundedInduction

\* A set of numbers has a least one: a property of the entries of a recursive function is shown
\* by its least counterexample.
LEMMA NatLeast ==
  ASSUME NEW T, T \subseteq Nat, T # {}
  PROVE  \E x \in T : \A y \in T : x <= y
<1> DEFINE R == OpToRel(<, Nat)
<1>1. IsWellFoundedOn(R, Nat)
  BY NatLessThanWellFounded, Zenon
<1>2. PICK x \in T : \A y \in T : ~ (<<y, x>> \in R)
  BY <1>1, WFMin, Zenon
<1>3. \A y \in T : y < x => <<y, x>> \in R
  BY Zenon DEF OpToRel
<1> HIDE DEF R
<1>4. \A y \in T : ~(y < x)
  BY <1>2, <1>3, Zenon
<1> QED
  BY <1>4

\* The recursion of Without: the entry for i, and a function that satisfies it up to n.
KeptAt(s, x, f, i) == IF i = 0 THEN <<>> ELSE IF s[i] = x THEN f[i - 1] ELSE Append(f[i - 1], s[i])
Kept(s, x, n, f) == f = [i \in 0 .. n |-> KeptAt(s, x, f, i)]

\* Vec::retain has a result.
LEMMA KeptExists ==
  ASSUME NEW s, NEW x, NEW n \in Nat
  PROVE  \E f : Kept(s, x, n, f)
<1> DEFINE T == {m \in Nat : ~ \E f : Kept(s, x, m, f)}
<1> SUFFICES ASSUME T # {} PROVE FALSE
  BY Zenon
<1>1. PICK m \in T : \A y \in T : m <= y
  BY NatLeast, Zenon
<1>2. CASE m = 0
  <2> DEFINE f == [i \in 0 .. 0 |-> <<>>]
  <2>1. f = [i \in 0 .. m |-> KeptAt(s, x, f, i)]
    BY <1>2 DEF KeptAt
  <2> QED
    BY <2>1, Zenon DEF Kept
<1>3. CASE m # 0
  <2>1. m - 1 \in Nat /\ ~(m <= m - 1) /\ m \in Nat
    BY <1>3
  <2>2. PICK f : Kept(s, x, m - 1, f)
    BY <1>1, <2>1, Zenon
  <2> DEFINE g == [i \in 0 .. m |-> IF i = m THEN KeptAt(s, x, f, m) ELSE f[i]]
  <2>3. \A i \in 0 .. m : g[i] = KeptAt(s, x, g, i)
    <3> SUFFICES ASSUME NEW i \in 0 .. m PROVE g[i] = KeptAt(s, x, g, i)
      BY Zenon
    <3>1. CASE i = m
      BY <2>1, <3>1 DEF KeptAt
    <3>2. CASE i # m
      <4>1. i \in 0 .. m - 1 /\ g[i] = f[i] /\ (i # 0 => g[i - 1] = f[i - 1])
        BY <2>1, <3>2
      <4>2. f[i] = KeptAt(s, x, f, i)
        BY <2>2, <4>1, Zenon DEF Kept
      <4> QED
        BY <4>1, <4>2, Zenon DEF KeptAt
    <3> QED
      BY <3>1, <3>2, Zenon
  <2>4. g = [i \in 0 .. m |-> g[i]]
    BY Zenon
  <2> HIDE DEF g
  <2>5. Kept(s, x, m, g)
    BY <2>3, <2>4, Zenon DEF Kept
  <2> QED
    BY <2>5, Zenon
<1> QED
  BY <1>2, <1>3, Zenon

\* retain(|y| y != x) leaves elements that were there, and none that is x.
LEMMA WithoutFacts ==
  ASSUME NEW S, NEW s \in Seq(S), NEW x
  PROVE  /\ Without(s, x) \in Seq(S)
         /\ \A i \in DOMAIN Without(s, x) : Without(s, x)[i] # x /\ \E j \in DOMAIN s : s[j] = Without(s, x)[i]
<1> DEFINE f == CHOOSE f : Kept(s, x, Len(s), f)
<1> DEFINE P(w) == /\ w \in Seq(S)
                   /\ \A i \in DOMAIN w : w[i] # x /\ \E j \in DOMAIN s : s[j] = w[i]
<1>1. Without(s, x) = f[Len(s)]
  BY Zenon DEF Without, Kept, KeptAt
<1>2. Kept(s, x, Len(s), f)
  <2>1. Len(s) \in Nat
    OBVIOUS
  <2> QED
    BY <2>1, KeptExists, Zenon
<1> HIDE DEF f
<1>3. f = [i \in 0 .. Len(s) |-> KeptAt(s, x, f, i)]
  BY <1>2, Zenon DEF Kept
<1> DEFINE T == {m \in Nat : m <= Len(s) /\ ~P(f[m])}
<1>4. T = {}
  <2> SUFFICES ASSUME T # {} PROVE FALSE
    BY Zenon
  <2>1. PICK m \in T : \A y \in T : m <= y
    BY NatLeast, Zenon
  <2>2. f[m] = KeptAt(s, x, f, m)
    BY <1>3
  <2>3. CASE m = 0
    <3>1. f[m] = <<>>
      BY <2>2, <2>3, Zenon DEF KeptAt
    <3>2. P(<<>>)
      OBVIOUS
    <3>3. P(f[m])
      BY <3>1, <3>2, Zenon
    <3> QED
      BY <3>3, Zenon
  <2>4. CASE m # 0
    <3>1. m - 1 \in Nat /\ m - 1 <= Len(s) /\ ~(m <= m - 1) /\ m \in DOMAIN s
      BY <2>4
    <3>2. P(f[m - 1])
      BY <2>1, <3>1, Zenon
    <3>3. f[m] \in {f[m - 1], Append(f[m - 1], s[m])} /\ (s[m] = x => f[m] = f[m - 1])
      BY <2>2, <2>4, Zenon DEF KeptAt
    <3>4. P(f[m])
      <4>1. CASE f[m] = f[m - 1]
        BY <3>2, <4>1, Zenon
      <4>2. CASE f[m] = Append(f[m - 1], s[m]) /\ s[m] # x
        <5> DEFINE w == f[m - 1]
        <5> HIDE DEF w
        <5>1. w \in Seq(S) /\ s[m] \in S /\ P(w)
          BY <3>1, <3>2 DEF w
        <5>2. P(Append(w, s[m]))
          BY <3>1, <4>2, <5>1
        <5> QED
          BY <4>2, <5>2, Zenon DEF w
      <4> QED
        BY <3>3, <4>1, <4>2, Zenon
    <3> QED
      BY <3>4, Zenon
  <2> QED
    BY <2>3, <2>4, Zenon
<1>5. P(f[Len(s)])
  BY <1>4
<1> QED
  BY <1>1, <1>5, Zenon

LEMMA CloseLeaveKeepsDead ==
  ASSUME DeadInv, NEW r \in Req, CloseLeave(r)
  PROVE  DeadInv'
<1> USE DEF DeadInv
<1>0. r \in Thread /\ Moves(r)
  BY ReqIsThread, CloseElsewhere, Zenon DEF Elsewhere
<1>1. /\ Types' /\ Req \subseteq Thread /\ Req' = Req /\ \A q \in Req : Op(q)' = Op(q)
      /\ \A q \in Thread \ {r} : mem'[q] = mem[q] /\ pc'[q] = pc[q]
  BY <1>0, OthersStay, Zenon
<1>2. pc[r] = "leave" /\ pc'[r] = "end" /\ mem' = mem /\ sessions' = sessions /\ nextSession' = nextSession
  BY <1>0, GotoMoves, Zenon DEF CloseLeave, sessionVars
<1>3. IF mem[r].seat = None THEN seat' = seat
      ELSE /\ seat'.sessions = Without(seat.sessions, mem[r].sid)
           /\ {"sessions", "active", "taken"} \subseteq DOMAIN seat'
  BY Zenon DEF CloseLeave, SeatRemove, NumberInv
<1>4. /\ seat'.sessions \in Seq(Nat) /\ {"sessions", "active", "taken"} \subseteq DOMAIN seat'
      /\ \A i \in DOMAIN seat'.sessions : \E j \in DOMAIN seat.sessions : seat.sessions[j] = seat'.sessions[i]
      /\ mem[r].seat # None => \A i \in DOMAIN seat'.sessions : seat'.sessions[i] # mem[r].sid
  <2>1. seat.sessions \in Seq(Nat)
    BY Zenon DEF NumberInv
  <2>2. CASE mem[r].seat = None
    BY <1>3, <2>2, Zenon DEF NumberInv
  <2>3. CASE mem[r].seat # None
    BY <1>3, <2>1, <2>3, WithoutFacts
  <2> QED
    BY <2>2, <2>3, Zenon
<1>5. \A s : Missed(s) => Missed(s)'
  BY <1>0, <1>2, MissedStays, Zenon DEF SameLocals
<1>6. \A q \in Req : Opening(q)' = Opening(q)
  BY <1>1, <1>2 DEF Opening
<1>7. PlaceInv'
  BY <1>1, <1>2, <1>6, Zenon DEF PlaceInv
<1>8. NumberInv'
  BY <1>2, <1>4, Zenon DEF NumberInv
<1>9. OpenerInv'
  BY <1>1, <1>2, <1>5, <1>6, Zenon DEF OpenerInv
<1>10. CloserInv'
  BY <1>1, <1>2, <1>4, <1>6, SMTT(30) DEF CloserInv, Seated
<1>11. SeatInv'
  BY <1>2, <1>4, <1>5, Zenon DEF SeatInv
<1> QED
  BY <1>1, <1>7, <1>8, <1>9, <1>10, <1>11, Zenon

------------------------------------------------------------------------------
(* The seat: the steps beside it *)

LEMMA BroadcastElsewhere ==
  ASSUME Types, NEW r \in Thread, Broadcast(r)
  PROVE  Elsewhere(r)
<1> DEFINE b == AfterEvent[pc[r]]
<1>1. b \in {"new_user", "done"}
  BY DEF Broadcast, Raising, AfterEvent
<1>2. Goto(r, b) /\ work' = work /\ inhibitors' = inhibitors
  BY Zenon DEF Broadcast, inhibitVars, worldVars
<1>3. CASE b = "done"
  <2>1. lock' = Dropped(r) /\ Answer(r, TRUE)
    BY <1>3, Zenon DEF Broadcast
  <2> QED
    BY <1>2, <1>3, <2>1, GotoMoves, DroppedMoves, AnswerMoves, Zenon DEF Elsewhere, Moves, Holding
<1>4. CASE b = "new_user"
  <2>1. lock' = lock /\ mem' = mem
    BY <1>4, Zenon DEF Broadcast
  <2> QED
    BY <1>2, <1>4, <2>1, GotoMoves, SameLock, SameMem, Zenon DEF Elsewhere, Moves, Holding
<1> QED
  BY <1>1, <1>3, <1>4, Zenon

LEMMA HintElsewhere ==
  ASSUME Types, NEW r \in Thread, Hint(r) \/ HintQuiet(r) \/ HintUnknown(r) \/ HintAll(r) \/ Query(r)
  PROVE  Elsewhere(r)
<1> USE DEF Elsewhere, Moves, Holding, inhibitVars, worldVars
<1>1. CASE Hint(r)
  BY <1>1, StatementMoves, SameMem DEF Hint
<1>2. CASE HintQuiet(r)
  BY <1>2, OneMoves, Zenon DEF HintQuiet
<1>3. CASE HintUnknown(r)
  BY <1>3, OneMoves, Zenon DEF HintUnknown
<1>4. CASE HintAll(r)
  BY <1>4, OneMoves, Zenon DEF HintAll
<1>5. CASE Query(r)
  BY <1>5, OneMoves, Zenon DEF Query
<1> QED
  BY <1>1, <1>2, <1>3, <1>4, <1>5, Zenon

LEMMA UserElsewhere ==
  ASSUME Types, NEW r \in Thread,
         \/ SetLinger(r) \/ UnsetLinger(r) \/ LingerFails(r) \/ TerminateUser(r)
         \/ TakeDevice(r) \/ ReleaseDevice(r)
  PROVE  Elsewhere(r)
<1> USE DEF Elsewhere, Moves, Holding, inhibitVars, worldVars
<1>1. CASE SetLinger(r)
  <2>1. Answer(r, TRUE) \/ Answer(r, FALSE)
    BY <1>1, Zenon DEF SetLinger, Answer
  <2> QED
    BY <1>1, <2>1, OneMoves, Zenon DEF SetLinger
<1>2. CASE UnsetLinger(r)
  BY <1>2, OneMoves, Zenon DEF UnsetLinger
<1>3. CASE LingerFails(r)
  BY <1>3, OneMoves, Zenon DEF LingerFails
<1>4. CASE TerminateUser(r)
  BY <1>4, OneMoves, Zenon DEF TerminateUser
<1>5. CASE TakeDevice(r)
  BY <1>5, OneMoves, Zenon DEF TakeDevice
<1>6. CASE ReleaseDevice(r)
  BY <1>6, OneMoves, Zenon DEF ReleaseDevice
<1> QED
  BY <1>1, <1>2, <1>3, <1>4, <1>5, <1>6, Zenon

LEMMA SwitchElsewhere ==
  ASSUME Types, NEW r \in Thread, SwitchEnds(r)
  PROVE  Elsewhere(r)
<1>1. PcMoves(r) /\ pc'[r] \in {"switched", "held"}
  BY GotoMoves, Zenon DEF SwitchEnds
<1>2. LockMoves(r)
  BY SameLock, DroppedMoves, Zenon DEF SwitchEnds
<1>3. MemMoves(r) /\ inhibitors' = inhibitors /\ work' = work
  BY SameMem, Zenon DEF SwitchEnds, inhibitVars, worldVars
<1> QED
  BY <1>1, <1>2, <1>3, Zenon DEF Elsewhere, Moves, Holding

LEMMA GuardElsewhere ==
  ASSUME Types, NEW r \in Thread,
         \/ Refused(r) \/ SwitchTo(r) \/ SwitchFails(r) \/ Brightness(r) \/ BrightnessFails(r)
         \/ Schedule(r) \/ CancelScheduled(r) \/ StatusStep(r) \/ StatusEnd(r) \/ Subscribe(r) \/ SubscribeLost(r)
  PROVE  Elsewhere(r)
<1> USE DEF Elsewhere, Moves, Holding, inhibitVars, worldVars
<1>0. {"seats", "power", "bus"} \subseteq Lock
  BY Zenon DEF Lock
<1>1. CASE Refused(r)
  <2>1. MemMoves(r)
    BY <1>1, AnswerMoves, Zenon DEF Refused
  <2>2. PcMoves(r) /\ pc'[r] = "done"
    BY <1>1, GotoMoves, Zenon DEF Refused
  <2>3. LockMoves(r)
    BY <1>1, SameLock, Zenon DEF Refused
  <2> QED
    BY <1>1, <2>1, <2>2, <2>3, Zenon DEF Refused
<1>2. CASE SwitchTo(r)
  BY <1>0, <1>2, AcquireMoves, SameMem DEF SwitchTo
<1>3. CASE SwitchFails(r)
  BY <1>3, OneMoves, Zenon DEF SwitchFails
<1>4. CASE Brightness(r)
  BY <1>0, <1>4, AcquireMoves, SameMem DEF Brightness
<1>5. CASE BrightnessFails(r)
  BY <1>5, OneMoves, Zenon DEF BrightnessFails
<1>6. CASE Schedule(r)
  BY <1>0, <1>6, AcquireMoves, SameMem DEF Schedule
<1>7. CASE CancelScheduled(r)
  BY <1>7, OneMoves, Zenon DEF CancelScheduled
<1>8. CASE StatusStep(r)
  <2>1. PICK i \in 1 .. 4 : Acquire(r, StatusOrder[i], StatusAt[i], StatusAt[i + 1])
    BY <1>8, Zenon DEF StatusStep
  <2>2. StatusOrder[i] \in Lock /\ StatusAt[i + 1] \in {"status_2", "status_3", "status_4", "status_5"}
    BY DEF StatusOrder, StatusAt, Lock
  <2> QED
    BY <1>8, <2>1, <2>2, AcquireMoves, SameMem, Zenon DEF StatusStep
<1>9. CASE StatusEnd(r)
  <2>1. MemMoves(r)
    BY <1>9, AnswerMoves, Zenon DEF StatusEnd
  <2>2. PcMoves(r) /\ pc'[r] = "done"
    BY <1>9, GotoMoves, Zenon DEF StatusEnd
  <2>3. LockMoves(r)
    BY <1>9, DroppedMoves, Zenon DEF StatusEnd
  <2> QED
    BY <1>9, <2>1, <2>2, <2>3, Zenon DEF StatusEnd
<1>10. CASE Subscribe(r)
  <2>1. MemMoves(r)
    BY <1>10, AnswerMoves, Zenon DEF Subscribe
  <2> QED
    BY <1>0, <1>10, <2>1, AcquireMoves DEF Subscribe
<1>11. CASE SubscribeLost(r)
  <2>1. MemMoves(r)
    BY <1>11, AnswerMoves, Zenon DEF SubscribeLost
  <2> QED
    BY <1>11, <2>1, StatementMoves DEF SubscribeLost
<1> QED
  BY <1>1, <1>2, <1>3, <1>4, <1>5, <1>6, <1>7, <1>8, <1>9, <1>10, <1>11, Zenon

LEMMA BridgeElsewhere ==
  ASSUME Types, StartBridge \/ BridgeStep
  PROVE  Elsewhere(Bridge)
<1> USE DEF Elsewhere, Moves, Holding, inhibitVars, worldVars
<1>0. Bridge \in Thread /\ "bus" \in Lock
  BY SpecialThreads, Zenon DEF Lock
<1>1. CASE StartBridge
  <2>1. Goto(Bridge, "started") \/ Goto(Bridge, "absent")
    BY <1>1, Zenon DEF StartBridge
  <2>2. PcMoves(Bridge) /\ pc'[Bridge] \in {"started", "absent"}
    BY <1>0, <2>1, GotoMoves, Zenon
  <2>3. LockMoves(Bridge)
    BY <1>0, <1>1, SameLock, Zenon DEF StartBridge
  <2>4. MemMoves(Bridge)
    BY <1>0, <1>1, SameMem, Zenon DEF StartBridge
  <2> QED
    BY <1>1, <2>2, <2>3, <2>4, Zenon DEF StartBridge
<1>2. CASE BridgeConnect
  BY <1>0, <1>2, GotoMoves, SameLock, SameMem, Zenon DEF BridgeConnect
<1>3. CASE BridgeObjects
  BY <1>0, <1>3, StatementMoves, SameMem DEF BridgeObjects
<1>4. CASE BridgeDeaf
  BY <1>0, <1>4, GotoMoves, SameLock, SameMem DEF BridgeDeaf
<1>5. CASE BridgeSubscribe
  BY <1>0, <1>5, AcquireMoves, SameMem DEF BridgeSubscribe
<1> QED
  BY <1>1, <1>2, <1>3, <1>4, <1>5, Zenon DEF BridgeStep

\* The ACPI and the idle thread before they have the guard of the inhibitors, and the idle
\* thread when it locks the sessions instead.
LEMMA IdleElsewhere ==
  ASSUME Types, IdleSessions \/ IdlePower \/ IdleLock
  PROVE  Elsewhere(Idle)
<1> USE DEF Elsewhere, Moves, Holding, inhibitVars, worldVars
<1>0. Idle \in Thread /\ "power" \in Lock
  BY SpecialThreads, Zenon DEF Lock
<1>1. CASE IdleSessions
  BY <1>0, <1>1, GotoMoves, SameLock, SameMem DEF IdleSessions
<1>2. CASE IdlePower
  BY <1>0, <1>2, AcquireMoves, SameMem DEF IdlePower
<1>3. CASE IdleLock
  BY <1>0, <1>3, GotoMoves, DroppedMoves, SameMem DEF IdleLock
<1> QED
  BY <1>1, <1>2, <1>3, Zenon

LEMMA AcpiElsewhere ==
  ASSUME Types, AcpiEvent
  PROVE  Elsewhere(Acpi)
<1>1. Acpi \in Thread /\ "power" \in Lock
  BY SpecialThreads, Zenon DEF Lock
<1>2. mem' = [mem EXCEPT ![Acpi] = [mem[Acpi] EXCEPT !.acpi = @ + 1]]
  BY Zenon DEF AcpiEvent
<1>3. MemMoves(Acpi)
  BY <1>1, <1>2, Zenon DEF Types, MemMoves, Fields
<1> QED
  BY <1>1, <1>3, AcquireMoves DEF AcpiEvent, Elsewhere, Moves, Holding, inhibitVars, worldVars

LEMMA InhibitorMoves ==
  ASSUME Types, NEW r \in Thread, TakeInhibitor(r) \/ DbusInhibit(r) \/ ReleaseInhibitor(r)
  PROVE  /\ Moves(r) /\ pc'[r] = "done" /\ lock["inhibitors"] = None
         /\ Answer(r, TRUE) \/ Answer(r, FALSE)
<1>1. One(r, "take", "inhibitors") \/ One(r, "release", "inhibitors")
  BY Zenon DEF TakeInhibitor, DbusInhibit, ReleaseInhibitor
<1>2. Answer(r, TRUE) \/ Answer(r, FALSE)
  BY Zenon DEF TakeInhibitor, DbusInhibit, ReleaseInhibitor, Answer
<1>3. work' = work
  <2>1. CASE TakeInhibitor(r)
    BY <2>1, Zenon DEF TakeInhibitor, worldVars
  <2>2. CASE DbusInhibit(r)
    BY <2>2, Zenon DEF DbusInhibit, worldVars
  <2>3. CASE ReleaseInhibitor(r)
    BY <2>3, Zenon DEF ReleaseInhibitor, worldVars
  <2> QED
    BY <2>1, <2>2, <2>3, Zenon
<1>4. Moves(r) /\ pc'[r] = "done"
  BY <1>1, <1>2, <1>3, OneMoves, Zenon DEF Moves
<1>5. lock["inhibitors"] = None
  BY <1>1, Zenon DEF One, Statement
<1> QED
  BY <1>2, <1>4, <1>5, Zenon

\* The two ways to the guard of the inhibitors, and the step from there to the guard of power.
Entering(r) == \/ PowerInhibitors(r) \/ PowerLock(r)
               \/ (r = Acpi /\ AcpiInhibitors) \/ (r = Idle /\ IdleInhibitors)

LEMMA EntryMoves ==
  ASSUME Types, NEW r \in Thread, Entering(r)
  PROVE  /\ Moves(r) /\ pc'[r] \in {"p_power", "p_check", "i_lock"}
         /\ mem' = mem /\ inhibitors' = inhibitors
<1>0. {"power", "inhibitors"} \subseteq Lock
  BY Zenon DEF Lock
<1>1. mem' = mem /\ inhibitors' = inhibitors /\ work' = work
  BY Zenon DEF Entering, PowerInhibitors, PowerLock, AcpiInhibitors, IdleInhibitors, inhibitVars, worldVars
<1>2. MemMoves(r)
  BY <1>1, SameMem, Zenon
<1>3. \E l \in Lock : \E a, b : Acquire(r, l, a, b) /\ b \in {"p_power", "p_check", "i_lock"}
  BY <1>0, Zenon DEF Entering, PowerInhibitors, PowerLock, AcpiInhibitors, IdleInhibitors
<1> QED
  BY <1>1, <1>2, <1>3, AcquireMoves, Zenon DEF Moves

LEMMA PowerStepMoves ==
  ASSUME Types, NEW r \in Thread, PowerStep(r), ~PowerDown(r)
  PROVE  /\ Moves(r) /\ inhibitors' = inhibitors
         /\ pc'[r] \in {"done", "sleep", "p_go", "p_delay"}
         /\ mem' = mem \/ Answer(r, TRUE) \/ Answer(r, FALSE)
<1>1. inhibitors' = inhibitors /\ work' = work
  BY Zenon DEF PowerStep, PowerStopped, PowerPasses, DelayClear, DelayElapsed, PowerDone, inhibitVars, worldVars
<1>2. CASE PowerStopped(r) \/ PowerDone(r)
  <2>1. PICK ok \in BOOLEAN : PowerReturn(r, ok)
    BY <1>2, Zenon DEF PowerStopped, PowerDone
  <2>2. mem' = mem \/ Answer(r, TRUE) \/ Answer(r, FALSE)
    BY <2>1, Zenon DEF PowerReturn
  <2>3. MemMoves(r)
    BY <2>2, AnswerMoves, SameMem, Zenon
  <2>4. PcMoves(r) /\ pc'[r] \in {"done", "sleep"}
    BY <2>1, GotoMoves, Zenon DEF PowerReturn
  <2>5. LockMoves(r)
    BY <2>1, DroppedMoves, Zenon DEF PowerReturn
  <2> QED
    BY <1>1, <2>2, <2>3, <2>4, <2>5, Zenon DEF Moves
<1>3. CASE PowerPasses(r) \/ DelayClear(r) \/ DelayElapsed(r)
  <2>1. lock' = lock /\ mem' = mem
    BY <1>3, Zenon DEF PowerPasses, DelayClear, DelayElapsed
  <2>2. PcMoves(r) /\ pc'[r] \in {"p_go", "p_delay"}
    BY <1>3, GotoMoves, Zenon DEF PowerPasses, DelayClear, DelayElapsed
  <2> QED
    BY <1>1, <2>1, <2>2, SameMem, SameLock, Zenon DEF Moves
<1> QED
  BY <1>2, <1>3, Zenon DEF PowerStep

\* The steps of no request's thread: start-up, processes that end, the GC, the clean-up.
Background == LoadLinger \/ Bind \/ Gc \/ (\E p \in Pid : Exit(p)) \/ (\E c \in cleanups : Cleanup(c))

LEMMA BackgroundIsStill ==
  ASSUME Background
  PROVE  /\ work' = work /\ pc' = pc /\ mem' = mem /\ lock' = lock
         /\ inhibitors' = inhibitors \/ lock["inhibitors"] = None
<1>1. CASE LoadLinger
  BY <1>1, Zenon DEF LoadLinger, inhibitVars
<1>2. CASE Bind
  BY <1>2, Zenon DEF Bind, inhibitVars
<1>3. CASE Gc
  BY <1>3, Zenon DEF Gc, worldVars
<1>4. ASSUME NEW p \in Pid, Exit(p)
      PROVE  work' = work /\ pc' = pc /\ mem' = mem /\ lock' = lock /\ inhibitors' = inhibitors
  BY <1>4, Zenon DEF Exit, inhibitVars
<1>5. ASSUME NEW c \in cleanups, Cleanup(c)
      PROVE  work' = work /\ pc' = pc /\ mem' = mem /\ lock' = lock /\ inhibitors' = inhibitors
  BY <1>5, Zenon DEF Cleanup, inhibitVars, worldVars
<1> QED
  BY <1>1, <1>2, <1>3, <1>4, <1>5, Zenon DEF Background

LEMMA TypesInit ==
  ASSUME Init
  PROVE  Types
<1>1. work \in Workloads /\ DOMAIN lock = Lock /\ DOMAIN pc = Thread /\ DOMAIN mem = Thread
  BY Zenon DEF Init
<1>2. \A l \in Lock : lock[l] = None
  BY Zenon DEF Init
<1>3. \A r \in Thread : DOMAIN mem[r] = Fields
  BY Zenon DEF Init, Fields
<1> QED
  BY <1>1, <1>2, <1>3, Zenon DEF Types

\* Locks and hints change other fields of a session, and activations the active one only.
LEMMA StateKeepsSeats ==
  ASSUME NumberInv, nextSession' = nextSession,
         \/ sessions' = sessions
         \/ \E A, b : sessions' = SessionLock(sessions, A, b)
         \/ \E sid \in DOMAIN sessions : \E b : sessions' = SessionIdle(sessions, sid, b)
         \/ \E sid : sessions' = SessionActivate(sessions, sid),
         \/ seat' = seat
         \/ \E sid : seat' = SeatActivate(seat, sid)
         \/ \E t : seat' = [seat EXCEPT !.taken = t]
  PROVE  SameSeats
<1>1. /\ DOMAIN sessions' = DOMAIN sessions
      /\ \A s \in DOMAIN sessions : sessions'[s].seat = sessions[s].seat /\ "seat" \in DOMAIN sessions'[s]
  <2>1. CASE sessions' = sessions
    BY <2>1, Zenon DEF NumberInv
  <2>2. ASSUME NEW A, NEW b, sessions' = SessionLock(sessions, A, b)
        PROVE  <1>1!1 /\ <1>1!2
    BY <2>2, Zenon DEF NumberInv, SessionLock
  <2>3. ASSUME NEW sid \in DOMAIN sessions, NEW b, sessions' = SessionIdle(sessions, sid, b)
        PROVE  <1>1!1 /\ <1>1!2
    BY <2>3, Zenon DEF NumberInv, SessionIdle
  <2>4. ASSUME NEW sid, sessions' = SessionActivate(sessions, sid)
        PROVE  <1>1!1 /\ <1>1!2
    BY <2>4, Zenon DEF NumberInv, SessionActivate
  <2> QED
    BY <2>1, <2>2, <2>3, <2>4, Zenon
<1>2. seat'.sessions = seat.sessions /\ {"sessions", "active", "taken"} \subseteq DOMAIN seat'
  BY Zenon DEF NumberInv, SeatActivate
<1> QED
  BY <1>1, <1>2, Zenon DEF SameSeats

\* Where the requests that open or close no session stand after a step.
Beside == {"done", "new_user", "act_on", "act_vt", "act_switch", "act_wait", "vt_wait", "switched",
           "on_seat", "hinted", "removed",
           "held", "status_2", "status_3", "status_4", "status_5", "listening",
           "p_power", "p_check", "p_delay", "p_go", "sleep", "i_lock", "i_sessions", "i_power",
           "i_inhibitors", "a_inhibitors", "absent", "started", "objects", "events", "deaf"}

LEMMA OpenAside ==
  ASSUME Types, NumberInv, NEW r \in Thread, LoginAgain(r) \/ LoginFirst(r) \/ LoginFails(r)
  PROVE  Aside(r)
<1>1. Moves(r)
  BY OpenElsewhere, Zenon DEF Elsewhere
<1>2. SameSeats
  BY StateKeepsSeats, Zenon DEF LoginAgain, LoginFirst, LoginFails, sessionVars
<1>3. SameLocals(r)
  BY LocalsStay, Zenon DEF LoginAgain, LoginFirst, LoginFails
<1>4. pc[r] = "login" /\ pc'[r] \in {"seat", "done"}
  BY GotoMoves, Zenon DEF LoginAgain, LoginFirst, LoginFails, Statement
<1> QED
  BY <1>1, <1>2, <1>3, <1>4, Zenon DEF Aside, Opening

LEMMA BesideIsAside ==
  ASSUME NEW r, Moves(r), SameSeats, SameLocals(r), pc'[r] \in Beside
  PROVE  Aside(r)
BY Zenon DEF Aside, Beside

LEMMA CloseAside ==
  ASSUME Types, NumberInv, NEW r \in Thread,
         Broadcast(r) \/ CloseUnknown(r) \/ CloseVanished(r) \/ Logout(r)
  PROVE  Aside(r)
<1>1. Moves(r)
  BY BroadcastElsewhere, CloseElsewhere, Zenon DEF Elsewhere
<1>2. SameSeats
  BY StateKeepsSeats, Zenon DEF Broadcast, CloseUnknown, CloseVanished, Logout, sessionVars
<1>3. mem' = mem \/ Answer(r, TRUE) \/ Answer(r, FALSE)
  BY Zenon DEF Broadcast, CloseUnknown, CloseVanished, Logout
<1>4. pc'[r] \in Beside
  <2>1. CASE Broadcast(r)
    <3>1. AfterEvent[pc[r]] \in {"new_user", "done"}
      BY <2>1 DEF Broadcast, Raising, AfterEvent
    <3> QED
      BY <2>1, <3>1, GotoMoves, Zenon DEF Broadcast, Beside
  <2>2. CASE CloseUnknown(r) \/ CloseVanished(r) \/ Logout(r)
    BY <2>2, GotoMoves, Zenon DEF CloseUnknown, CloseVanished, Logout, Statement, Beside
  <2> QED
    BY <2>1, <2>2, Zenon
<1> QED
  BY <1>1, <1>2, <1>3, <1>4, LocalsStay, BesideIsAside, Zenon

LEMMA ActivateAside ==
  ASSUME Types, NumberInv, NEW r \in Thread,
         \/ ActivateUnknown(r) \/ Activate(r) \/ ActivateOn(r) \/ ActivateVt(r)
         \/ ActivateSwitch(r) \/ OnSeat(r) \/ OnSeatActive(r) \/ OnSeatSession(r)
  PROVE  Aside(r)
<1>1. Moves(r)
  BY ActivateElsewhere, Zenon DEF Elsewhere
<1>2. SameSeats
  <2>1. CASE ActivateUnknown(r) \/ ActivateVt(r) \/ ActivateSwitch(r) \/ OnSeat(r)
    BY <2>1, StateKeepsSeats, Zenon DEF ActivateUnknown, ActivateVt, ActivateSwitch, OnSeat, sessionVars
  <2>2. CASE Activate(r) \/ OnSeatSession(r)
    BY <2>2, StateKeepsSeats, Zenon DEF Activate, OnSeatSession, sessionVars
  <2>3. CASE ActivateOn(r) \/ OnSeatActive(r)
    BY <2>3, StateKeepsSeats, Zenon DEF ActivateOn, OnSeatActive, sessionVars
  <2> QED
    BY <2>1, <2>2, <2>3, Zenon
<1>3. mem' = mem \/ Answer(r, TRUE) \/ Answer(r, FALSE)
  BY Zenon DEF ActivateUnknown, Activate, ActivateOn, ActivateVt, ActivateSwitch, OnSeat, OnSeatActive, OnSeatSession
<1>4. CASE Activate(r)
  <2>1. pc'[r] = "act_seat" /\ Op(r) = "activate"
    BY <1>4, GotoMoves, Zenon DEF Activate, Statement
  <2> QED
    BY <1>1, <1>2, <1>3, <2>1, LocalsStay, Zenon DEF Aside
<1>5. CASE ~Activate(r)
  <2>1. pc'[r] \in Beside
    <3> USE DEF Statement, Acquire, Beside
    <3>1. CASE ActivateUnknown(r) \/ ActivateOn(r) \/ ActivateVt(r) \/ ActivateSwitch(r)
      BY <3>1, GotoMoves, Zenon DEF ActivateUnknown, ActivateOn, ActivateVt, ActivateSwitch
    <3>2. CASE OnSeat(r) \/ OnSeatActive(r) \/ OnSeatSession(r)
      BY <3>2, GotoMoves, Zenon DEF OnSeat, OnSeatActive, OnSeatSession, One
    <3> QED
      BY <1>5, <3>1, <3>2, Zenon
  <2> QED
    BY <1>1, <1>2, <1>3, <2>1, LocalsStay, BesideIsAside, Zenon
<1> QED
  BY <1>4, <1>5, Zenon

LEMMA HintAside ==
  ASSUME Types, NumberInv, NEW r \in Thread, Hint(r) \/ HintQuiet(r) \/ HintUnknown(r) \/ HintAll(r)
  PROVE  Aside(r)
<1>1. Moves(r)
  BY HintElsewhere, Zenon DEF Elsewhere
<1>2. nextSession' = nextSession /\ seat' = seat
  BY Zenon DEF Hint, HintQuiet, HintUnknown, HintAll, sessionVars
<1>3. \/ sessions' = sessions
      \/ \E A, b : sessions' = SessionLock(sessions, A, b)
      \/ \E sid \in DOMAIN sessions : \E b : sessions' = SessionIdle(sessions, sid, b)
  <2>1. CASE Hint(r)
    BY <2>1, Zenon DEF Hint
  <2>2. CASE HintQuiet(r)
    BY <2>2, Zenon DEF HintQuiet
  <2>3. CASE HintUnknown(r)
    BY <2>3, Zenon DEF HintUnknown, sessionVars
  <2>4. CASE HintAll(r)
    BY <2>4, Zenon DEF HintAll
  <2> QED
    BY <2>1, <2>2, <2>3, <2>4, Zenon
<1>4. mem' = mem \/ Answer(r, TRUE) \/ Answer(r, FALSE)
  BY Zenon DEF Hint, HintQuiet, HintUnknown, HintAll
<1>5. pc'[r] \in {"hinted", "done"}
  BY GotoMoves, Zenon DEF Hint, HintQuiet, HintUnknown, HintAll, One, Statement
<1>6. SameSeats
  BY <1>2, <1>3, StateKeepsSeats, Zenon
<1> QED
  BY <1>1, <1>4, <1>5, <1>6, LocalsStay, BesideIsAside, Zenon DEF Beside

LEMMA UserAside ==
  ASSUME Types, NumberInv, NEW r \in Thread,
         \/ Query(r) \/ SetLinger(r) \/ UnsetLinger(r) \/ LingerFails(r) \/ TerminateUser(r)
         \/ TakeDevice(r) \/ ReleaseDevice(r) \/ TakeInhibitor(r) \/ DbusInhibit(r) \/ ReleaseInhibitor(r)
  PROVE  Aside(r)
<1>1. Moves(r)
  BY HintElsewhere, UserElsewhere, InhibitorMoves, Zenon DEF Elsewhere
<1>2. SameSeats
  <2>1. CASE Query(r) \/ SetLinger(r) \/ UnsetLinger(r) \/ LingerFails(r) \/ TerminateUser(r)
    BY <2>1, StateKeepsSeats, Zenon DEF Query, SetLinger, UnsetLinger, LingerFails, TerminateUser, sessionVars
  <2>2. CASE TakeDevice(r) \/ ReleaseDevice(r)
    BY <2>2, StateKeepsSeats, Zenon DEF TakeDevice, ReleaseDevice, sessionVars
  <2>3. CASE TakeInhibitor(r) \/ DbusInhibit(r) \/ ReleaseInhibitor(r)
    BY <2>3, StateKeepsSeats, Zenon DEF TakeInhibitor, DbusInhibit, ReleaseInhibitor, sessionVars
  <2> QED
    BY <2>1, <2>2, <2>3, Zenon
<1>3. Answer(r, TRUE) \/ Answer(r, FALSE)
  <2>1. CASE Query(r) \/ UnsetLinger(r) \/ LingerFails(r) \/ TerminateUser(r) \/ TakeDevice(r) \/ ReleaseDevice(r)
    BY <2>1, Zenon DEF Query, UnsetLinger, LingerFails, TerminateUser, TakeDevice, ReleaseDevice
  <2>2. CASE SetLinger(r)
    BY <2>2, Zenon DEF SetLinger, Answer
  <2>3. CASE TakeInhibitor(r) \/ DbusInhibit(r) \/ ReleaseInhibitor(r)
    BY <2>3, InhibitorMoves, Zenon
  <2> QED
    BY <2>1, <2>2, <2>3, Zenon
<1>4. pc'[r] = "done"
  <2>1. CASE TakeInhibitor(r) \/ DbusInhibit(r) \/ ReleaseInhibitor(r)
    BY <2>1, InhibitorMoves, Zenon
  <2>2. CASE ~(TakeInhibitor(r) \/ DbusInhibit(r) \/ ReleaseInhibitor(r))
    <3>1. \E op, l : One(r, op, l)
      BY <2>2, Zenon DEF Query, SetLinger, UnsetLinger, LingerFails, TerminateUser, TakeDevice, ReleaseDevice
    <3> QED
      BY <3>1, GotoMoves, Zenon DEF One, Statement
  <2> QED
    BY <2>1, <2>2, Zenon
<1> QED
  BY <1>1, <1>2, <1>3, <1>4, LocalsStay, BesideIsAside, Zenon DEF Beside

LEMMA GuardAside ==
  ASSUME Types, NumberInv, NEW r \in Thread,
         \/ Refused(r) \/ SwitchTo(r) \/ SwitchFails(r) \/ Brightness(r) \/ BrightnessFails(r)
         \/ Schedule(r) \/ CancelScheduled(r) \/ StatusStep(r) \/ StatusEnd(r) \/ Subscribe(r) \/ SubscribeLost(r)
  PROVE  Aside(r)
<1>1. Moves(r)
  BY GuardElsewhere, Zenon DEF Elsewhere
<1>2. sessions' = sessions /\ nextSession' = nextSession /\ seat' = seat
  BY Zenon DEF Refused, SwitchTo, SwitchFails, Brightness, BrightnessFails, Schedule, CancelScheduled,
         StatusStep, StatusEnd, Subscribe, SubscribeLost, sessionVars
<1>3. mem' = mem \/ Answer(r, TRUE) \/ Answer(r, FALSE)
  BY Zenon DEF Refused, SwitchTo, SwitchFails, Brightness, BrightnessFails, Schedule, CancelScheduled,
         StatusStep, StatusEnd, Subscribe, SubscribeLost
<1>4. pc'[r] \in Beside
  <2> USE DEF Beside, Acquire, Statement, One
  <2>1. CASE Refused(r) \/ SwitchTo(r) \/ SwitchFails(r) \/ Brightness(r) \/ BrightnessFails(r)
    BY <2>1, GotoMoves, Zenon DEF Refused, SwitchTo, SwitchFails, Brightness, BrightnessFails
  <2>2. CASE Schedule(r) \/ CancelScheduled(r) \/ StatusEnd(r) \/ Subscribe(r) \/ SubscribeLost(r)
    BY <2>2, GotoMoves, Zenon DEF Schedule, CancelScheduled, StatusEnd, Subscribe, SubscribeLost
  <2>3. CASE StatusStep(r)
    <3>1. PICK i \in 1 .. 4 : Goto(r, StatusAt[i + 1])
      BY <2>3, Zenon DEF StatusStep
    <3>2. StatusAt[i + 1] \in {"status_2", "status_3", "status_4", "status_5"}
      BY DEF StatusAt
    <3> QED
      BY <3>1, <3>2, GotoMoves, Zenon
  <2> QED
    BY <2>1, <2>2, <2>3, Zenon
<1> QED
  BY <1>1, <1>2, <1>3, <1>4, StateKeepsSeats, LocalsStay, BesideIsAside, Zenon

LEMMA SwitchAside ==
  ASSUME Types, NumberInv, NEW r \in Thread, SwitchEnds(r)
  PROVE  Aside(r)
<1>1. Moves(r)
  BY SwitchElsewhere, Zenon DEF Elsewhere
<1>2. sessions' = sessions /\ nextSession' = nextSession /\ seat' = seat /\ mem' = mem
  BY Zenon DEF SwitchEnds, sessionVars
<1>3. pc'[r] \in Beside
  BY GotoMoves, Zenon DEF SwitchEnds, Beside
<1> QED
  BY <1>1, <1>2, <1>3, StateKeepsSeats, LocalsStay, BesideIsAside, Zenon

LEMMA PowerAside ==
  ASSUME Types, NumberInv, NEW r \in Thread, Entering(r) \/ (PowerStep(r) /\ ~PowerDown(r))
  PROVE  Aside(r)
<1>1. /\ Moves(r)
      /\ mem' = mem \/ Answer(r, TRUE) \/ Answer(r, FALSE)
      /\ pc'[r] \in {"p_power", "p_check", "i_lock", "done", "sleep", "p_go", "p_delay"}
  BY EntryMoves, PowerStepMoves, Zenon
<1>2. sessions' = sessions /\ nextSession' = nextSession /\ seat' = seat
  BY Zenon DEF Entering, PowerInhibitors, PowerLock, AcpiInhibitors, IdleInhibitors,
         PowerStep, PowerStopped, PowerPasses, DelayClear, DelayElapsed, PowerDone, sessionVars
<1> QED
  BY <1>1, <1>2, StateKeepsSeats, LocalsStay, BesideIsAside, Zenon DEF Beside

LEMMA BridgeAside ==
  ASSUME Types, NumberInv, StartBridge \/ BridgeStep
  PROVE  Aside(Bridge)
<1>0. Bridge \in Thread
  BY SpecialThreads, Zenon
<1>1. Moves(Bridge)
  BY BridgeElsewhere, Zenon DEF Elsewhere
<1>2. sessions' = sessions /\ nextSession' = nextSession /\ seat' = seat /\ mem' = mem
  BY Zenon DEF StartBridge, BridgeStep, BridgeConnect, BridgeObjects, BridgeDeaf, BridgeSubscribe, sessionVars
<1>3. pc'[Bridge] \in Beside
  BY <1>0, GotoMoves, Zenon
     DEF StartBridge, BridgeStep, BridgeConnect, BridgeObjects, BridgeDeaf, BridgeSubscribe, Statement, Acquire, Beside
<1> QED
  BY <1>0, <1>1, <1>2, <1>3, StateKeepsSeats, LocalsStay, BesideIsAside, Zenon

LEMMA IdleAside ==
  ASSUME Types, NumberInv, IdleSessions \/ IdlePower \/ IdleLock
  PROVE  Aside(Idle)
<1>0. Idle \in Thread
  BY SpecialThreads, Zenon
<1>1. Moves(Idle)
  BY IdleElsewhere, Zenon DEF Elsewhere
<1>2. /\ nextSession' = nextSession /\ seat' = seat /\ mem' = mem
      /\ sessions' = sessions \/ sessions' = SessionLock(sessions, DOMAIN sessions, TRUE)
  BY Zenon DEF IdleSessions, IdlePower, IdleLock, sessionVars
<1>3. pc'[Idle] \in Beside
  BY <1>0, GotoMoves, Zenon DEF IdleSessions, IdlePower, IdleLock, Acquire, Beside
<1>4. SameSeats
  BY <1>2, StateKeepsSeats, Zenon
<1> QED
  BY <1>0, <1>1, <1>2, <1>3, <1>4, LocalsStay, BesideIsAside, Zenon

LEMMA AcpiAside ==
  ASSUME Types, NumberInv, AcpiEvent
  PROVE  Aside(Acpi)
<1>0. Acpi \in Thread
  BY SpecialThreads, Zenon
<1>1. Moves(Acpi)
  BY AcpiElsewhere, Zenon DEF Elsewhere
<1>2. mem' = [mem EXCEPT ![Acpi] = [mem[Acpi] EXCEPT !.acpi = @ + 1]]
  BY Zenon DEF AcpiEvent
<1>3. SameLocals(Acpi)
  BY <1>0, <1>2, Zenon DEF Types, Fields, SameLocals
<1>4. pc'[Acpi] \in Beside
  BY <1>0, GotoMoves, Zenon DEF AcpiEvent, Acquire, Beside
<1>5. SameSeats
  BY StateKeepsSeats, Zenon DEF AcpiEvent, sessionVars
<1> QED
  BY <1>1, <1>3, <1>4, <1>5, BesideIsAside, Zenon

LEMMA StillKeepsDead ==
  ASSUME DeadInv, work' = work, pc' = pc, mem' = mem, lock' = lock,
         sessions' = sessions, nextSession' = nextSession, seat' = seat
  PROVE  DeadInv'
<1> USE DEF DeadInv, Seated, Opening, Missed, Req, Op
<1>1. Types' /\ PlaceInv' /\ NumberInv'
  BY DEF Types, PlaceInv, NumberInv
<1>2. OpenerInv'
  BY DEF OpenerInv
<1>3. CloserInv'
  BY DEF CloserInv
<1>4. SeatInv'
  BY DEF SeatInv
<1> QED
  BY <1>1, <1>2, <1>3, <1>4

LEMMA BackgroundKeepsDead ==
  ASSUME DeadInv, Background \/ \E r \in Thread : PowerDown(r)
  PROVE  DeadInv'
<1>1. work' = work /\ pc' = pc /\ mem' = mem /\ lock' = lock
  BY BackgroundIsStill, Zenon DEF PowerDown
<1>2. sessions' = sessions /\ nextSession' = nextSession /\ seat' = seat
  BY Zenon DEF Background, LoadLinger, Bind, Gc, Exit, Cleanup, PowerDown, sessionVars
<1> QED
  BY <1>1, <1>2, StillKeepsDead, Zenon

LEMMA IdlePollKeepsDead ==
  ASSUME DeadInv, IdlePoll
  PROVE  DeadInv'
<1>1. Types /\ NumberInv /\ Idle \in Thread
  BY SpecialThreads, Zenon DEF DeadInv
<1>2. /\ work' = work /\ mem' = mem /\ lock' = lock
      /\ sessions' = sessions /\ nextSession' = nextSession /\ seat' = seat
  BY Zenon DEF IdlePoll, sessionVars
<1>3. CASE pc' = pc
  BY <1>2, <1>3, StillKeepsDead, Zenon
<1>4. CASE Goto(Idle, "i_sessions")
  <2>1. Moves(Idle) /\ pc'[Idle] \in Beside
    BY <1>1, <1>2, <1>4, GotoMoves, SameMem, SameLock, Zenon DEF Moves, Beside
  <2> QED
    BY <1>1, <1>2, <2>1, StateKeepsSeats, LocalsStay, BesideIsAside, AsideKeepsDead, Zenon
<1> QED
  BY <1>3, <1>4, Zenon DEF IdlePoll

------------------------------------------------------------------------------
(* The seat *)

LEMMA DeadInit ==
  ASSUME Init
  PROVE  DeadInv
<1>1. Types
  BY TypesInit, Zenon
<1>2. \A r \in Thread : pc[r] \notin {"login", "seat", "assign", "seat_of", "leave", "end", "act_seat"}
  BY Zenon DEF Init, First
<1>3. Req \subseteq Thread
  BY <1>1, ReqIsThread, Zenon
<1>4. \A r \in Thread : mem[r].sid = 0
  BY Zenon DEF Init
<1>5. DOMAIN sessions = {} /\ nextSession = 1 /\ seat = Seat0
  BY Zenon DEF Init
<1>6. NumberInv
  BY <1>4, <1>5 DEF NumberInv, Seat0
<1> QED
  BY <1>1, <1>2, <1>3, <1>5, <1>6 DEF DeadInv, PlaceInv, OpenerInv, CloserInv, SeatInv, Opening, Seat0

LEMMA DeadInductive ==
  ASSUME DeadInv, Next
  PROVE  DeadInv'
<1>0. Types /\ NumberInv /\ {Acpi, Idle, Bridge} \subseteq Thread
  BY SpecialThreads, Zenon DEF DeadInv
<1>1. CASE Background
  BY <1>1, BackgroundKeepsDead, Zenon
<1>2. CASE StartBridge \/ BridgeStep
  BY <1>0, <1>2, BridgeAside, AsideKeepsDead, Zenon
<1>3. CASE AcpiEvent
  BY <1>0, <1>3, AcpiAside, AsideKeepsDead, Zenon
<1>4. CASE AcpiInhibitors \/ IdleInhibitors
  BY <1>0, <1>4, PowerAside, AsideKeepsDead, Zenon DEF Entering
<1>5. CASE IdleStep /\ ~IdleInhibitors
  BY <1>0, <1>5, IdleAside, AsideKeepsDead, IdlePollKeepsDead, Zenon DEF IdleStep
<1>6. ASSUME NEW r \in Thread, PowerStep(r)
      PROVE  DeadInv'
  BY <1>0, <1>6, PowerAside, AsideKeepsDead, BackgroundKeepsDead, Zenon
<1>7. ASSUME NEW r \in Req, SessionStep(r)
      PROVE  DeadInv'
  <2>1. r \in Thread
    BY <1>0, ReqIsThread, Zenon
  <2>2. CASE \/ Open(r) \/ OpenSeat(r) \/ OpenAssign(r)
             \/ CloseUid(r) \/ CloseSeatOf(r) \/ CloseLeave(r) \/ CloseEnd(r) \/ ActivateSeatOf(r)
    BY <2>2, OpenKeepsDead, OpenSeatKeepsDead, OpenAssignKeepsDead, LookKeepsDead, CloseLeaveKeepsDead, CloseEndKeepsDead, Zenon
  <2>3. CASE ~(\/ Open(r) \/ OpenSeat(r) \/ OpenAssign(r)
               \/ CloseUid(r) \/ CloseSeatOf(r) \/ CloseLeave(r) \/ CloseEnd(r) \/ ActivateSeatOf(r))
    <3>1. Aside(r)
      BY <1>0, <1>7, <2>1, <2>3, OpenAside, CloseAside, ActivateAside, HintAside, Zenon DEF SessionStep
    <3> QED
      BY <2>1, <3>1, AsideKeepsDead, Zenon
  <2> QED
    BY <2>2, <2>3, Zenon
<1>8. ASSUME NEW r \in Req, OtherStep(r)
      PROVE  DeadInv'
  <2>1. r \in Thread
    BY <1>0, ReqIsThread, Zenon
  <2>2. Aside(r)
    BY <1>0, <1>8, <2>1, UserAside, GuardAside, PowerAside, Zenon DEF OtherStep, Entering
  <2> QED
    BY <2>1, <2>2, AsideKeepsDead, Zenon
<1>9. ASSUME NEW r \in Req, SwitchEnds(r)
      PROVE  DeadInv'
  BY <1>0, <1>9, ReqIsThread, SwitchAside, AsideKeepsDead, Zenon
<1> QED
  BY <1>1, <1>2, <1>3, <1>4, <1>5, <1>6, <1>7, <1>8, <1>9, Zenon DEF Next, StartStep, Background

\* Once every request is answered, a session that is gone and still on the seat was closed by a
\* CloseSession that had read seat_of before OpenSession assigned the seat: there is no other
\* way, for any number of requests in any order.
THEOREM DeadStaysOneWay == Spec => []DeadOnSeatOnlyByOvertaking
<1>1. Init => DeadInv
  BY DeadInit, Zenon
<1>2. DeadInv /\ [Next]_vars => DeadInv'
  <2>1. ASSUME DeadInv, UNCHANGED vars
        PROVE  DeadInv'
    BY <2>1, StillKeepsDead, Zenon DEF vars, sessionVars, worldVars
  <2> QED
    BY <2>1, DeadInductive, Zenon
<1>3. DeadInv => DeadOnSeatOnlyByOvertaking
  BY Zenon DEF DeadInv, SeatInv, Missed, DeadOnSeatOnlyByOvertaking
<1> QED
  BY <1>1, <1>2, <1>3, PTL DEF Spec

------------------------------------------------------------------------------
(* Power actions *)

PowerInv ==
  /\ Types
  /\ \A r \in Thread : pc[r] \in Holding => lock["inhibitors"] = r
  /\ PowerRespectsBlock

\* What a power action has passed depends on its own thread's locals only.
LEMMA SameAction ==
  ASSUME Types, NEW r \in Thread, NEW q \in Thread, Moves(r), q # r \/ mem' = mem
  PROVE  ActionOf(q)' = ActionOf(q) /\ Interactive(q)' = Interactive(q)
<1>1. work' = work /\ mem'[q] = mem[q]
  BY Zenon DEF Moves, MemMoves
<1> QED
  BY <1>1, Zenon DEF ActionOf, Interactive, Req, Op, Arg

\* Nobody else's guard is lost, and the inhibitors only change while nobody has their guard.
LEMMA AwayKeepsPower ==
  ASSUME PowerInv, NEW r \in Thread, Moves(r), pc'[r] \notin Holding,
         inhibitors' = inhibitors \/ lock["inhibitors"] = None
  PROVE  PowerInv'
<1> USE DEF PowerInv
<1>1. Types'
  BY MovesKeepTypes, Zenon
<1>2. \A q \in Thread : pc'[q] \in Holding => q # r /\ pc[q] = pc'[q] /\ lock["inhibitors"] = q
  BY Zenon DEF Moves, PcMoves
<1>3. \A q \in Thread : pc'[q] \in Holding => lock'["inhibitors"] = q
  BY <1>2, Zenon DEF Moves, LockMoves, Lock
<1>4. PowerRespectsBlock'
  <2> SUFFICES ASSUME NEW q \in Thread, pc'[q] \in {"p_delay", "p_go"}
               PROVE  Interactive(q)' \/ ActionOf(q)' \in IgnoresBlocks \/ ~IsBlocked(inhibitors', What(ActionOf(q)'))
    BY Zenon DEF PowerRespectsBlock
  <2>1. q # r /\ pc[q] \in {"p_delay", "p_go"} /\ lock["inhibitors"] = q
    BY <1>2, Zenon DEF Holding
  <2>2. inhibitors' = inhibitors
    BY <2>1, LogindAssumption, Zenon
  <2> QED
    BY <2>1, <2>2, SameAction, Zenon DEF PowerRespectsBlock
<1> QED
  BY <1>1, <1>3, <1>4, Zenon

LEMMA ElsewhereKeepsPower ==
  ASSUME PowerInv, NEW r \in Thread, Elsewhere(r)
  PROVE  PowerInv'
BY AwayKeepsPower, Zenon DEF Elsewhere

\* A step on the way of a power action, with the guard of the inhibitors in hand.
LEMMA HoldingKeepsPower ==
  ASSUME PowerInv, NEW r \in Thread, Moves(r), mem' = mem, inhibitors' = inhibitors,
         lock'["inhibitors"] = r, lock["inhibitors"] \in {r, None},
         pc'[r] \in {"p_delay", "p_go"} =>
           Interactive(r) \/ ActionOf(r) \in IgnoresBlocks \/ ~IsBlocked(inhibitors, What(ActionOf(r)))
  PROVE  PowerInv'
<1> USE DEF PowerInv
<1>1. Types'
  BY MovesKeepTypes, Zenon
<1>2. \A q \in Thread : pc'[q] \in Holding => q = r
  BY LogindAssumption, Zenon DEF Moves, PcMoves
<1>3. \A q \in Thread : pc'[q] \in Holding => lock'["inhibitors"] = q
  BY <1>2, Zenon
<1>4. PowerRespectsBlock'
  <2> SUFFICES ASSUME NEW q \in Thread, pc'[q] \in {"p_delay", "p_go"}
               PROVE  Interactive(q)' \/ ActionOf(q)' \in IgnoresBlocks \/ ~IsBlocked(inhibitors', What(ActionOf(q)'))
    BY Zenon DEF PowerRespectsBlock
  <2>1. q = r
    BY <1>2, Zenon DEF Holding
  <2> QED
    BY <2>1, SameAction, Zenon
<1> QED
  BY <1>1, <1>3, <1>4, Zenon

LEMMA InhibitorKeepsPower ==
  ASSUME PowerInv, NEW r \in Thread, TakeInhibitor(r) \/ DbusInhibit(r) \/ ReleaseInhibitor(r)
  PROVE  PowerInv'
<1>1. Types
  BY Zenon DEF PowerInv
<1> QED
  BY <1>1, InhibitorMoves, AwayKeepsPower, Zenon DEF Holding

LEMMA EntryKeepsPower ==
  ASSUME PowerInv, NEW r \in Thread, Entering(r)
  PROVE  PowerInv'
<1>0. Types /\ (pc[r] \in Holding => lock["inhibitors"] = r)
  BY Zenon DEF PowerInv
<1>1. /\ Moves(r) /\ pc'[r] \notin {"p_delay", "p_go"}
      /\ mem' = mem /\ inhibitors' = inhibitors
  BY <1>0, EntryMoves, Zenon
<1>2. CASE PowerLock(r)
  <2>1. lock'["inhibitors"] = r /\ lock["inhibitors"] = r
    BY <1>0, <1>2, Zenon DEF PowerLock, Acquire, Types, Lock, Holding
  <2> QED
    BY <1>1, <2>1, HoldingKeepsPower, Zenon
<1>3. CASE ~PowerLock(r)
  <2>1. \E a, b : Acquire(r, "inhibitors", a, b)
    BY <1>3, Zenon DEF Entering, PowerInhibitors, AcpiInhibitors, IdleInhibitors
  <2>2. lock'["inhibitors"] = r /\ lock["inhibitors"] = None
    BY <1>0, <2>1, Zenon DEF Acquire, Types, Lock
  <2> QED
    BY <1>1, <2>2, HoldingKeepsPower, Zenon
<1> QED
  BY <1>2, <1>3, Zenon

LEMMA StepKeepsPower ==
  ASSUME PowerInv, NEW r \in Thread, PowerStep(r), ~PowerDown(r)
  PROVE  PowerInv'
<1>0. Types /\ (pc[r] \in Holding => lock["inhibitors"] = r)
  BY Zenon DEF PowerInv
<1>1. Moves(r) /\ inhibitors' = inhibitors
  BY <1>0, PowerStepMoves, Zenon
<1>2. CASE PowerStopped(r) \/ PowerDone(r)
  <2>1. PICK ok \in BOOLEAN : PowerReturn(r, ok)
    BY <1>2, Zenon DEF PowerStopped, PowerDone
  <2>2. pc'[r] \in {"done", "sleep"}
    BY <1>0, <2>1, GotoMoves, Zenon DEF PowerReturn
  <2> QED
    BY <1>1, <2>2, AwayKeepsPower, Zenon DEF Holding
<1>3. CASE PowerPasses(r) \/ DelayClear(r) \/ DelayElapsed(r)
  <2>1. lock' = lock /\ mem' = mem /\ pc[r] \in Holding
    BY <1>3, Zenon DEF PowerPasses, DelayClear, DelayElapsed, Holding
  <2>2. Interactive(r) \/ ActionOf(r) \in IgnoresBlocks \/ ~IsBlocked(inhibitors, What(ActionOf(r)))
    <3>1. CASE PowerPasses(r)
      BY <3>1, Zenon DEF PowerPasses, Stopped
    <3>2. CASE DelayClear(r) \/ DelayElapsed(r)
      BY <3>2, Zenon DEF DelayClear, DelayElapsed, PowerInv, PowerRespectsBlock
    <3> QED
      BY <1>3, <3>1, <3>2, Zenon
  <2> QED
    BY <1>0, <1>1, <2>1, <2>2, HoldingKeepsPower, Zenon
<1> QED
  BY <1>2, <1>3, Zenon DEF PowerStep

LEMMA StillKeepsPower ==
  ASSUME PowerInv, work' = work, pc' = pc, mem' = mem, lock' = lock,
         inhibitors' = inhibitors \/ lock["inhibitors"] = None
  PROVE  PowerInv'
<1>1. Types'
  BY Zenon DEF PowerInv, Types
<1>2. PowerRespectsBlock'
  <2>1. CASE inhibitors' = inhibitors
    BY <2>1, Zenon DEF PowerInv, PowerRespectsBlock, Interactive, ActionOf, Req, Op, Arg
  <2>2. CASE lock["inhibitors"] = None
    <3>1. \A r \in Thread : pc[r] \notin {"p_delay", "p_go"}
      BY <2>2, LogindAssumption, Zenon DEF PowerInv, Holding
    <3> QED
      BY <3>1, Zenon DEF PowerRespectsBlock
  <2> QED
    BY <2>1, <2>2, Zenon
<1> QED
  BY <1>1, <1>2, Zenon DEF PowerInv

LEMMA IdlePollKeepsPower ==
  ASSUME PowerInv, IdlePoll
  PROVE  PowerInv'
<1>1. Types /\ Idle \in Thread
  BY SpecialThreads, Zenon DEF PowerInv
<1>2. work' = work /\ mem' = mem /\ lock' = lock /\ inhibitors' = inhibitors
  BY Zenon DEF IdlePoll, inhibitVars
<1>3. CASE pc' = pc
  BY <1>2, <1>3, StillKeepsPower, Zenon
<1>4. CASE Goto(Idle, "i_sessions")
  <2>1. Elsewhere(Idle)
    BY <1>1, <1>2, <1>4, GotoMoves, SameMem, SameLock DEF Elsewhere, Moves, Holding
  <2> QED
    BY <1>1, <2>1, ElsewhereKeepsPower, Zenon
<1> QED
  BY <1>3, <1>4, Zenon DEF IdlePoll

LEMMA PowerDownKeepsPower ==
  ASSUME PowerInv, NEW r \in Thread, PowerDown(r)
  PROVE  PowerInv'
BY StillKeepsPower, Zenon DEF PowerDown, inhibitVars

LEMMA RequestElsewhere ==
  ASSUME Types, NEW r \in Thread, SessionStep(r) \/ OtherStep(r),
         ~(TakeInhibitor(r) \/ DbusInhibit(r) \/ ReleaseInhibitor(r) \/ PowerInhibitors(r) \/ PowerLock(r))
  PROVE  Elsewhere(r)
BY OpenElsewhere, BroadcastElsewhere, CloseElsewhere, ActivateElsewhere, HintElsewhere, UserElsewhere, GuardElsewhere, Zenon
   DEF SessionStep, OtherStep

LEMMA PowerInit ==
  ASSUME Init
  PROVE  PowerInv
<1>1. \A r \in Thread : pc[r] \notin Holding
  BY Zenon DEF Init, First, Holding
<1> QED
  BY <1>1, TypesInit, Zenon DEF PowerInv, PowerRespectsBlock, Holding

LEMMA PowerStuttering ==
  ASSUME PowerInv, UNCHANGED vars
  PROVE  PowerInv'
BY StillKeepsPower, Zenon DEF vars, worldVars, inhibitVars

LEMMA PowerInductive ==
  ASSUME PowerInv, Next
  PROVE  PowerInv'
<1>0. Types /\ {Acpi, Idle, Bridge} \subseteq Thread
  BY SpecialThreads, Zenon DEF PowerInv
<1>1. CASE Background
  BY <1>1, BackgroundIsStill, StillKeepsPower, Zenon
<1>2. CASE StartBridge \/ BridgeStep
  BY <1>0, <1>2, BridgeElsewhere, ElsewhereKeepsPower, Zenon
<1>3. CASE AcpiEvent
  BY <1>0, <1>3, AcpiElsewhere, ElsewhereKeepsPower, Zenon
<1>4. CASE AcpiInhibitors
  BY <1>0, <1>4, EntryKeepsPower, Zenon DEF Entering
<1>5. CASE IdleStep
  BY <1>0, <1>5, IdleElsewhere, ElsewhereKeepsPower, IdlePollKeepsPower, EntryKeepsPower, Zenon DEF IdleStep, Entering
<1>6. ASSUME NEW r \in Thread, PowerStep(r)
      PROVE  PowerInv'
  BY <1>6, StepKeepsPower, PowerDownKeepsPower, Zenon
<1>7. ASSUME NEW r \in Req, SessionStep(r) \/ OtherStep(r)
      PROVE  PowerInv'
  <2>1. r \in Thread
    BY <1>0, ReqIsThread, Zenon
  <2>2. CASE TakeInhibitor(r) \/ DbusInhibit(r) \/ ReleaseInhibitor(r)
    BY <2>1, <2>2, InhibitorKeepsPower, Zenon
  <2>3. CASE PowerInhibitors(r) \/ PowerLock(r)
    BY <2>1, <2>3, EntryKeepsPower, Zenon DEF Entering
  <2>4. CASE ~(TakeInhibitor(r) \/ DbusInhibit(r) \/ ReleaseInhibitor(r) \/ PowerInhibitors(r) \/ PowerLock(r))
    BY <1>0, <1>7, <2>1, <2>4, RequestElsewhere, ElsewhereKeepsPower, Zenon
  <2> QED
    BY <2>2, <2>3, <2>4, Zenon
<1>8. ASSUME NEW r \in Req, SwitchEnds(r)
      PROVE  PowerInv'
  BY <1>0, <1>8, ReqIsThread, SwitchElsewhere, ElsewhereKeepsPower, Zenon
<1> QED
  BY <1>1, <1>2, <1>3, <1>4, <1>5, <1>6, <1>7, <1>8, Zenon DEF Next, StartStep, Background

\* However many requests, ACPI and idle actions meet: between check_block and the power action
\* no block lock against it can be taken, since handle_request and the loops of main.rs keep the
\* guard of the inhibitors all the way.
THEOREM BlockIsRespected == Spec => []PowerRespectsBlock
<1>1. Init => PowerInv
  BY PowerInit, Zenon
<1>2. PowerInv /\ [Next]_vars => PowerInv'
  BY PowerInductive, PowerStuttering, Zenon
<1>3. PowerInv => PowerRespectsBlock
  BY Zenon DEF PowerInv
<1> QED
  BY <1>1, <1>2, <1>3, PTL DEF Spec

------------------------------------------------------------------------------
(* Runtime directories *)

Layers == {"empty", "partial", "full"}
LateIs(v, u) == "late" \in DOMAIN v /\ \A c \in v.late : c.uid = u

\* A clean-up that is still to come is one the user's record knows of, if there is a record.
DirInv ==
  /\ work \in Workloads
  /\ dirs \in [Uid -> Seq(Layers)]
  /\ DOMAIN users \subseteq Uid /\ lingerFiles \subseteq Uid
  /\ \A u \in DOMAIN users : LateIs(users[u], u) /\ \A c \in cleanups : c.uid = u => c \in users[u].late
  /\ DirLostOnlyByLateCleanup

\* create_runtime_dir leaves a directory of its own, whatever was there.
LEMMA MadeIsMade ==
  ASSUME NEW d \in Seq(Layers), NEW mounted, NEW all \in BOOLEAN
  PROVE  LET made == CreateRuntimeSubdirs(CreateRuntimeDir(d, mounted), all)
         IN  made \in Seq(Layers) /\ RuntimeDirMade(made)
<1> DEFINE base == IF d = <<>> THEN <<"empty">> ELSE d
           c == CreateRuntimeDir(d, mounted)
<1>0. <<"empty">> \in Seq(Layers) /\ Len(<<"empty">>) = 1
  BY DEF Layers
<1>1. base \in Seq(Layers) /\ base # <<>>
  <2>1. CASE d = <<>>
    BY <1>0, <2>1, Zenon
  <2>2. CASE d # <<>>
    BY <2>2, Zenon
  <2> QED
    BY <2>1, <2>2, Zenon
<1>2. Len(base) \in Nat \ {0}
  BY <1>1
<1>3. c \in Seq(Layers) /\ Len(c) \in Nat \ {0}
  <2>1. CASE mounted
    <3>1. c = Append(base, "empty")
      BY <2>1, Zenon DEF CreateRuntimeDir
    <3> QED
      BY <1>1, <1>2, <3>1 DEF Layers
  <2>2. CASE ~mounted
    BY <1>1, <1>2, <2>2, Zenon DEF CreateRuntimeDir
  <2> QED
    BY <2>1, <2>2, Zenon
<1> DEFINE top == IF all THEN "full" ELSE "partial"
<1>5. top \in Layers /\ top # "empty"
  BY DEF Layers
<1>6. CreateRuntimeSubdirs(c, all) = [c EXCEPT ![Len(c)] = top]
  BY Zenon DEF CreateRuntimeSubdirs
<1> HIDE DEF c, top
<1>4. [c EXCEPT ![Len(c)] = top] \in Seq(Layers)
      /\ Len([c EXCEPT ![Len(c)] = top]) = Len(c)
      /\ [c EXCEPT ![Len(c)] = top][Len(c)] = top
  BY <1>3, <1>5
<1> DEFINE m == [c EXCEPT ![Len(c)] = top]
<1>7. m \in Seq(Layers) /\ Len(m) = Len(c) /\ m[Len(m)] = top
  BY <1>4, Zenon
<1> HIDE DEF m
<1>8. m # <<>>
  BY <1>3, <1>7
<1>9. RuntimeDirMade(m)
  BY <1>5, <1>7, <1>8, Zenon DEF RuntimeDirMade
<1> QED
  BY <1>6, <1>7, <1>9, Zenon DEF m, c

LEMMA DestroyedHasLayers ==
  ASSUME NEW d \in Seq(Layers)
  PROVE  DestroyRuntimeDir(d) \in Seq(Layers)
<1> DEFINE u == IF Len(d) > 1 THEN SubSeq(d, 1, Len(d) - 1) ELSE d
<1>1. u \in Seq(Layers)
  OBVIOUS
<1>2. Len(u) > 1 => [u EXCEPT ![Len(u)] = "empty"] \in Seq(Layers)
  BY <1>1 DEF Layers
<1>3. Len(u) \in Nat /\ <<>> \in Seq(Layers)
  BY <1>1
<1> HIDE DEF u
<1> QED
  BY <1>2, <1>3 DEF DestroyRuntimeDir, u

\* Everything else leaves the users, their directories and the pending clean-ups alone.
UsersStill == work' = work /\ userVars' = userVars

LEMMA StillKeepsDirs ==
  ASSUME DirInv, UsersStill
  PROVE  DirInv'
BY Zenon DEF DirInv, DirLostOnlyByLateCleanup, UsersStill, userVars, LateIs

\* A step that gives users a directory and a record, takes records away, or does neither, and
\* starts no clean-up of a user with a record.
LEMMA StepKeepsDirs ==
  ASSUME DirInv, work' = work, lingerFiles' \subseteq Uid, DOMAIN users' \subseteq Uid,
         dirs' \in [Uid -> Seq(Layers)],
         \A u \in DOMAIN users' : \A c \in cleanups' : c.uid = u => c \in cleanups,
         \A u \in DOMAIN users' :
           \/ RuntimeDirMade(dirs'[u]) /\ LateIs(users'[u], u) /\ \A c \in cleanups' : c.uid = u => c \in users'[u].late
           \/ /\ u \in DOMAIN users /\ dirs'[u] = dirs[u]
              /\ "late" \in DOMAIN users'[u] /\ users'[u].late = users[u].late
  PROVE  DirInv'
<1>1. \A u \in DOMAIN users' : LateIs(users'[u], u) /\ \A c \in cleanups' : c.uid = u => c \in users'[u].late
  BY Zenon DEF DirInv, LateIs
<1>2. ASSUME NEW u \in DOMAIN users'
      PROVE  RuntimeDirMade(dirs'[u]) \/ \E c \in users'[u].late : c \notin cleanups'
  <2>1. CASE RuntimeDirMade(dirs'[u])
    BY <2>1, Zenon
  <2>2. CASE u \in DOMAIN users /\ dirs'[u] = dirs[u] /\ users'[u].late = users[u].late
    <3>1. RuntimeDirMade(dirs[u]) \/ \E c \in users[u].late : c \notin cleanups
      BY <2>2, Zenon DEF DirInv, DirLostOnlyByLateCleanup
    <3>2. \A c \in users[u].late : c.uid = u
      BY <2>2, Zenon DEF DirInv, LateIs
    <3> QED
      BY <2>2, <3>1, <3>2, Zenon
  <2> QED
    BY <2>1, <2>2, Zenon
<1> QED
  BY <1>1, <1>2, Zenon DEF DirInv, DirLostOnlyByLateCleanup

LEMMA LoadLingerKeepsDirs ==
  ASSUME DirInv, LoadLinger
  PROVE  DirInv'
<1>1. PICK all \in BOOLEAN : dirs' = [u \in Uid |-> IF u \in lingerFiles THEN MakeDir(u, all) ELSE dirs[u]]
  BY Zenon DEF LoadLinger
<1>2. \A u \in Uid : MakeDir(u, all) \in Seq(Layers) /\ RuntimeDirMade(MakeDir(u, all))
  BY MadeIsMade, Zenon DEF DirInv, MakeDir
<1>3. dirs' \in [Uid -> Seq(Layers)] /\ \A u \in lingerFiles : RuntimeDirMade(dirs'[u])
  BY <1>1, <1>2, Zenon DEF DirInv
<1>4. DOMAIN users' = lingerFiles /\ work' = work /\ lingerFiles' = lingerFiles /\ cleanups' = cleanups
  BY Zenon DEF LoadLinger
<1>5. \A u \in lingerFiles : LateIs(users'[u], u) /\ users'[u].late = Pending(u)
  BY Zenon DEF LoadLinger, LateIs, Pending
<1> QED
  BY <1>3, <1>4, <1>5, StepKeepsDirs, Zenon DEF DirInv, Pending

\* The record and the directory are new.
LEMMA NewUserKeepsDirs ==
  ASSUME DirInv, work' = work, lingerFiles' \subseteq Uid, cleanups' = cleanups,
         NEW u \in Uid, NEW sids, NEW linger, NEW all \in BOOLEAN,
         users' = NewUser(users, u, sids, linger, Pending(u)), dirs' = [dirs EXCEPT ![u] = MakeDir(u, all)]
  PROVE  DirInv'
<1>1. MakeDir(u, all) \in Seq(Layers) /\ RuntimeDirMade(MakeDir(u, all))
  BY MadeIsMade, Zenon DEF DirInv, MakeDir
<1>2. dirs' \in [Uid -> Seq(Layers)] /\ RuntimeDirMade(dirs'[u]) /\ \A v \in Uid \ {u} : dirs'[v] = dirs[v]
  BY <1>1, Zenon DEF DirInv
<1>3. /\ DOMAIN users' = DOMAIN users \cup {u}
      /\ LateIs(users'[u], u) /\ users'[u].late = Pending(u)
      /\ \A v \in DOMAIN users \ {u} : users'[v] = users[v]
  <2> DEFINE rec == [sids |-> sids, linger |-> linger, late |-> Pending(u)]
  <2>1. DOMAIN users' = DOMAIN users \cup {u} /\ users'[u] = rec /\ \A v \in DOMAIN users \ {u} : users'[v] = users[v]
    BY Zenon DEF NewUser
  <2>2. "late" \in DOMAIN rec /\ rec.late = Pending(u)
    BY Zenon
  <2>3. LateIs(rec, u)
    BY <2>2, Zenon DEF LateIs, Pending
  <2> HIDE DEF rec
  <2> QED
    BY <2>1, <2>2, <2>3, Zenon
<1>4. \A c \in cleanups' : c.uid = u => c \in users'[u].late
  BY <1>3, Zenon DEF Pending
<1>5. \A v \in DOMAIN users \ {u} : "late" \in DOMAIN users'[v] /\ users'[v].late = users[v].late
  BY <1>3, Zenon DEF DirInv, LateIs
<1> QED
  BY <1>2, <1>3, <1>4, <1>5, StepKeepsDirs, Zenon DEF DirInv

\* A field of a record changes, or nothing does.
LEMMA FieldKeepsDirs ==
  ASSUME DirInv, work' = work, lingerFiles' \subseteq Uid, cleanups' = cleanups, dirs' = dirs,
         DOMAIN users' = DOMAIN users,
         \A v \in DOMAIN users : "late" \in DOMAIN users'[v] /\ users'[v].late = users[v].late
  PROVE  DirInv'
BY StepKeepsDirs, Zenon DEF DirInv

LEMMA LoginKeepsDirs ==
  ASSUME DirInv, NEW r \in Req, LoginAgain(r) \/ LoginFirst(r) \/ Logout(r)
  PROVE  DirInv'
<1> DEFINE u == Arg(r).uid
<1>0. u \in Uid
  BY LogindAssumption, Zenon DEF DirInv, Req, Arg
<1>1. CASE LoginAgain(r)
  <2>1. DOMAIN users' = DOMAIN users /\ \A v \in DOMAIN users : "late" \in DOMAIN users'[v] /\ users'[v].late = users[v].late
    <3>1. PICK x : users' = [users EXCEPT ![u] = [users[u] EXCEPT !.sids = x]]
      BY <1>1, Zenon DEF LoginAgain
    <3> HIDE DEF u
    <3> QED
      BY <3>1, Zenon DEF DirInv, LateIs
  <2>2. work' = work /\ dirs' = dirs /\ lingerFiles' = lingerFiles /\ cleanups' = cleanups
    BY <1>1, Zenon DEF LoginAgain, worldVars
  <2> QED
    BY <2>1, <2>2, FieldKeepsDirs, Zenon DEF DirInv
<1>2. CASE LoginFirst(r)
  <2>1. PICK all \in BOOLEAN : dirs' = [dirs EXCEPT ![u] = MakeDir(u, all)]
    BY <1>2, Zenon DEF LoginFirst
  <2>2. users' = NewUser(users, u, <<mem[r].sid>>, FALSE, Pending(u))
    BY <1>2, Zenon DEF LoginFirst
  <2>3. work' = work /\ lingerFiles' = lingerFiles /\ cleanups' = cleanups
    BY <1>2, Zenon DEF LoginFirst, worldVars
  <2> HIDE DEF u
  <2> QED
    BY <1>0, <2>1, <2>2, <2>3, NewUserKeepsDirs, Zenon DEF DirInv
<1>3. CASE Logout(r)
  <2> DEFINE v == mem[r].uid
             left == Without(users[v].sids, mem[r].sid)
             c == [uid |-> v, by |-> r]
  <2>1. work' = work /\ dirs' = dirs /\ lingerFiles' = lingerFiles
    BY <1>3, Zenon DEF Logout, worldVars
  <2>2. \/ users' = users /\ cleanups' = cleanups
        \/ users' = UserRemove(users, v) /\ cleanups' = cleanups \cup {c}
        \/ users' = [users EXCEPT ![v] = [users[v] EXCEPT !.sids = left]] /\ cleanups' = cleanups
    BY <1>3, Zenon DEF Logout
  <2>3. c.uid = v
    BY Zenon
  <2> HIDE DEF v, left, c
  <2>4. CASE users' = users /\ cleanups' = cleanups
    BY <2>1, <2>4, StillKeepsDirs, Zenon DEF UsersStill, userVars
  <2>5. CASE users' = UserRemove(users, v) /\ cleanups' = cleanups \cup {c}
    <3>1. DOMAIN users' = DOMAIN users \ {v} /\ \A w \in DOMAIN users \ {v} : users'[w] = users[w]
      BY <2>5, Zenon DEF UserRemove
    <3>2. \A w \in DOMAIN users' : "late" \in DOMAIN users'[w] /\ users'[w].late = users[w].late
      BY <3>1, Zenon DEF DirInv, LateIs
    <3>3. \A w \in DOMAIN users' : \A d \in cleanups' : d.uid = w => d \in cleanups
      BY <2>3, <2>5, <3>1, Zenon
    <3> QED
      BY <2>1, <3>1, <3>2, <3>3, StepKeepsDirs, Zenon DEF DirInv
  <2>6. CASE users' = [users EXCEPT ![v] = [users[v] EXCEPT !.sids = left]] /\ cleanups' = cleanups
    <3>1. DOMAIN users' = DOMAIN users /\ \A w \in DOMAIN users : "late" \in DOMAIN users'[w] /\ users'[w].late = users[w].late
      BY <2>6, Zenon DEF DirInv, LateIs
    <3> QED
      BY <2>1, <2>6, <3>1, FieldKeepsDirs, Zenon DEF DirInv
  <2> QED
    BY <2>2, <2>4, <2>5, <2>6, Zenon
<1> QED
  BY <1>1, <1>2, <1>3, Zenon

LEMMA CleanupKeepsDirs ==
  ASSUME DirInv, NEW c \in cleanups, Cleanup(c)
  PROVE  DirInv'
<1>1. cleanups' = cleanups \ {c} /\ work' = work /\ users' = users /\ lingerFiles' = lingerFiles
  BY Zenon DEF Cleanup, worldVars
<1>2. dirs' \in [Uid -> Seq(Layers)] /\ \A v \in Uid : v # c.uid => dirs'[v] = dirs[v]
  BY DestroyedHasLayers, Zenon DEF Cleanup, DirInv
<1>3. ASSUME NEW v \in DOMAIN users
      PROVE  RuntimeDirMade(dirs'[v]) \/ \E e \in users[v].late : e \notin cleanups'
  <2>1. CASE v = c.uid
    <3>1. c \in users[v].late /\ c \notin cleanups'
      BY <1>1, <2>1, Zenon DEF DirInv
    <3> QED
      BY <3>1, Zenon
  <2>2. CASE v # c.uid
    BY <1>1, <1>2, <2>2, Zenon DEF DirInv, DirLostOnlyByLateCleanup
  <2> QED
    BY <2>1, <2>2, Zenon
<1> QED
  BY <1>1, <1>2, <1>3, Zenon DEF DirInv, DirLostOnlyByLateCleanup, LateIs

LEMMA LingerKeepsDirs ==
  ASSUME DirInv, NEW r \in Req, SetLinger(r) \/ UnsetLinger(r) \/ TerminateUser(r)
  PROVE  DirInv'
<1> DEFINE u == Arg(r).uid
<1>0. u \in Uid
  BY LogindAssumption, Zenon DEF DirInv, Req, Arg
<1>1. work' = work /\ cleanups' = cleanups /\ lingerFiles' \subseteq Uid
  <2>1. CASE SetLinger(r)
    BY <1>0, <2>1, Zenon DEF SetLinger, worldVars, DirInv
  <2>2. CASE UnsetLinger(r)
    BY <2>2, Zenon DEF UnsetLinger, worldVars, DirInv
  <2>3. CASE TerminateUser(r)
    BY <2>3, Zenon DEF TerminateUser, worldVars, DirInv
  <2> QED
    BY <2>1, <2>2, <2>3, Zenon
<1>2. \/ /\ dirs' = dirs
         /\ users' = users \/ \E b : users' = [users EXCEPT ![u] = [users[u] EXCEPT !.linger = b]]
      \/ \E all \in BOOLEAN : /\ users' = NewUser(users, u, <<>>, TRUE, Pending(u))
                              /\ dirs' = [dirs EXCEPT ![u] = MakeDir(u, all)]
      \/ users' = UserRemove(users, u) /\ dirs' = [dirs EXCEPT ![u] = DestroyRuntimeDir(@)]
      \/ users' = UserRemove(users, u) /\ dirs' = dirs
  <2>1. CASE SetLinger(r)
    <3>1. \A result : (result = "made") \in BOOLEAN
      OBVIOUS
    <3> QED
      BY <2>1, <3>1, Zenon DEF SetLinger
  <2>2. CASE UnsetLinger(r)
    BY <2>2, Zenon DEF UnsetLinger
  <2>3. CASE TerminateUser(r)
    BY <2>3, Zenon DEF TerminateUser
  <2> QED
    BY <2>1, <2>2, <2>3, Zenon
<1> HIDE DEF u
<1>3. CASE dirs' = dirs /\ users' = users
  BY <1>1, <1>3, FieldKeepsDirs, Zenon DEF DirInv, LateIs
<1>4. ASSUME NEW b, dirs' = dirs, users' = [users EXCEPT ![u] = [users[u] EXCEPT !.linger = b]]
      PROVE  DirInv'
  <2>1. DOMAIN users' = DOMAIN users /\ \A w \in DOMAIN users : "late" \in DOMAIN users'[w] /\ users'[w].late = users[w].late
    BY <1>4, Zenon DEF DirInv, LateIs
  <2> QED
    BY <1>1, <1>4, <2>1, FieldKeepsDirs, Zenon
<1>5. ASSUME NEW all \in BOOLEAN, users' = NewUser(users, u, <<>>, TRUE, Pending(u)),
             dirs' = [dirs EXCEPT ![u] = MakeDir(u, all)]
      PROVE  DirInv'
  BY <1>0, <1>1, <1>5, NewUserKeepsDirs, Zenon
<1>6. CASE users' = UserRemove(users, u) /\ (dirs' = dirs \/ dirs' = [dirs EXCEPT ![u] = DestroyRuntimeDir(@)])
  <2>1. DOMAIN users' = DOMAIN users \ {u} /\ \A w \in DOMAIN users \ {u} : users'[w] = users[w]
    BY <1>6, Zenon DEF UserRemove
  <2>2. \A w \in DOMAIN users' : "late" \in DOMAIN users'[w] /\ users'[w].late = users[w].late
    BY <2>1, Zenon DEF DirInv, LateIs
  <2>3. DestroyRuntimeDir(dirs[u]) \in Seq(Layers)
    BY <1>0, DestroyedHasLayers, Zenon DEF DirInv
  <2>4. dirs' \in [Uid -> Seq(Layers)] /\ \A v \in Uid \ {u} : dirs'[v] = dirs[v]
    BY <1>0, <1>6, <2>3, Zenon DEF DirInv
  <2> QED
    BY <1>1, <2>1, <2>2, <2>4, StepKeepsDirs, Zenon DEF DirInv
<1> QED
  BY <1>2, <1>3, <1>4, <1>5, <1>6, Zenon

LEMMA SessionsLeaveUsers ==
  ASSUME NEW r, SessionStep(r), ~(LoginAgain(r) \/ LoginFirst(r) \/ Logout(r))
  PROVE  UsersStill
<1> USE DEF UsersStill, worldVars
<1>1. CASE Open(r) \/ LoginFails(r) \/ OpenSeat(r) \/ OpenAssign(r) \/ Broadcast(r)
  BY <1>1, Zenon DEF Open, LoginFails, OpenSeat, OpenAssign, Broadcast
<1>2. CASE CloseUnknown(r) \/ CloseUid(r) \/ CloseSeatOf(r) \/ CloseLeave(r) \/ CloseEnd(r) \/ CloseVanished(r)
  BY <1>2, Zenon DEF CloseUnknown, CloseUid, CloseSeatOf, CloseLeave, CloseEnd, CloseVanished
<1>3. CASE ActivateUnknown(r) \/ Activate(r) \/ ActivateSeatOf(r) \/ ActivateOn(r) \/ ActivateVt(r) \/ ActivateSwitch(r)
  BY <1>3, Zenon DEF ActivateUnknown, Activate, ActivateSeatOf, ActivateOn, ActivateVt, ActivateSwitch
<1>4. CASE OnSeat(r) \/ OnSeatActive(r) \/ OnSeatSession(r)
  BY <1>4, Zenon DEF OnSeat, OnSeatActive, OnSeatSession
<1>5. CASE Hint(r) \/ HintQuiet(r) \/ HintUnknown(r) \/ HintAll(r)
  BY <1>5, Zenon DEF Hint, HintQuiet, HintUnknown, HintAll
<1> QED
  BY <1>1, <1>2, <1>3, <1>4, <1>5, Zenon DEF SessionStep

LEMMA OthersLeaveUsers ==
  ASSUME NEW r, OtherStep(r), ~(SetLinger(r) \/ UnsetLinger(r) \/ TerminateUser(r))
  PROVE  UsersStill
<1> USE DEF UsersStill, worldVars
<1>1. CASE Refused(r) \/ Query(r) \/ LingerFails(r) \/ TakeDevice(r) \/ ReleaseDevice(r)
  BY <1>1, Zenon DEF Refused, Query, LingerFails, TakeDevice, ReleaseDevice
<1>2. CASE TakeInhibitor(r) \/ DbusInhibit(r)
  BY <1>2, Zenon DEF TakeInhibitor, DbusInhibit
<1>3. CASE ReleaseInhibitor(r)
  BY <1>3, Zenon DEF ReleaseInhibitor
<1>4. CASE SwitchTo(r) \/ SwitchFails(r) \/ Brightness(r) \/ BrightnessFails(r) \/ Schedule(r) \/ CancelScheduled(r)
  BY <1>4, Zenon DEF SwitchTo, SwitchFails, Brightness, BrightnessFails, Schedule, CancelScheduled
<1>5. CASE StatusStep(r) \/ StatusEnd(r) \/ Subscribe(r) \/ SubscribeLost(r) \/ PowerInhibitors(r) \/ PowerLock(r)
  BY <1>5, Zenon DEF StatusStep, StatusEnd, Subscribe, SubscribeLost, PowerInhibitors, PowerLock
<1> QED
  BY <1>1, <1>2, <1>3, <1>4, <1>5, Zenon DEF OtherStep

LEMMA ThreadsLeaveUsers ==
  ASSUME \/ StartBridge \/ Bind \/ BridgeStep \/ AcpiEvent \/ AcpiInhibitors \/ IdleStep \/ Gc
         \/ (\E p \in Pid : Exit(p)) \/ (\E r \in Thread : PowerStep(r))
  PROVE  UsersStill
<1> USE DEF UsersStill, worldVars
<1>1. CASE StartBridge \/ Bind \/ BridgeStep
  <2>1. CASE StartBridge
    BY <2>1, Zenon DEF StartBridge
  <2>2. CASE Bind
    BY <2>2, Zenon DEF Bind
  <2>3. CASE BridgeStep
    BY <2>3, Zenon DEF BridgeStep, BridgeConnect, BridgeObjects, BridgeDeaf, BridgeSubscribe
  <2> QED
    BY <1>1, <2>1, <2>2, <2>3, Zenon
<1>2. CASE AcpiEvent \/ AcpiInhibitors \/ IdleStep
  BY <1>2, Zenon DEF AcpiEvent, AcpiInhibitors, IdleStep, IdlePoll, IdleSessions, IdlePower, IdleInhibitors, IdleLock
<1>3. CASE Gc
  BY <1>3, Zenon DEF Gc
<1>4. ASSUME NEW p \in Pid, Exit(p)
      PROVE  UsersStill
  BY <1>4, Zenon DEF Exit
<1>5. ASSUME NEW r \in Thread, PowerStep(r)
      PROVE  UsersStill
  BY <1>5, Zenon DEF PowerStep, PowerStopped, PowerPasses, DelayClear, DelayElapsed, PowerDown, PowerDone
<1> QED
  BY <1>1, <1>2, <1>3, <1>4, <1>5, Zenon

LEMMA DirInit ==
  ASSUME Init
  PROVE  DirInv
<1>1. work \in Workloads /\ lingerFiles \subseteq Uid /\ DOMAIN users = {} /\ cleanups = {}
  BY LogindAssumption, Zenon DEF Init
<1>2. dirs \in [Uid -> Seq(Layers)]
  BY DEF Init
<1> QED
  BY <1>1, <1>2, Zenon DEF DirInv, DirLostOnlyByLateCleanup

LEMMA DirInductive ==
  ASSUME DirInv, Next
  PROVE  DirInv'
<1>1. ASSUME NEW r \in Req, SessionStep(r) \/ OtherStep(r)
      PROVE  DirInv'
  <2>1. CASE LoginAgain(r) \/ LoginFirst(r) \/ Logout(r)
    BY <2>1, LoginKeepsDirs, Zenon
  <2>2. CASE SetLinger(r) \/ UnsetLinger(r) \/ TerminateUser(r)
    BY <2>2, LingerKeepsDirs, Zenon
  <2>3. CASE ~(LoginAgain(r) \/ LoginFirst(r) \/ Logout(r) \/ SetLinger(r) \/ UnsetLinger(r) \/ TerminateUser(r))
    BY <1>1, <2>3, SessionsLeaveUsers, OthersLeaveUsers, StillKeepsDirs, Zenon
  <2> QED
    BY <2>1, <2>2, <2>3, Zenon
<1>2. CASE LoadLinger
  BY <1>2, LoadLingerKeepsDirs, Zenon
<1>3. ASSUME NEW c \in cleanups, Cleanup(c)
      PROVE  DirInv'
  BY <1>3, CleanupKeepsDirs, Zenon
<1>4. CASE \/ StartBridge \/ Bind \/ BridgeStep \/ AcpiEvent \/ AcpiInhibitors \/ IdleStep \/ Gc
           \/ (\E p \in Pid : Exit(p)) \/ (\E r \in Thread : PowerStep(r))
  BY <1>4, ThreadsLeaveUsers, StillKeepsDirs, Zenon
<1>5. ASSUME NEW r \in Req, SwitchEnds(r)
      PROVE  DirInv'
  BY <1>5, StillKeepsDirs, Zenon DEF SwitchEnds, UsersStill, worldVars
<1> QED
  BY <1>1, <1>2, <1>3, <1>4, <1>5, Zenon DEF Next, StartStep

\* Whatever log-ins, log-outs, linger settings and terminations happen in whatever order, a user
\* with a record in UserManager has the /run/user/<uid> that was prepared for it, unless a clean-up
\* thread of logout() that was asleep when the record was made has run since.  An earlier log-out
\* whose clean-up was over by then takes nothing away.
THEOREM DirIsLostOneWay == Spec => []DirLostOnlyByLateCleanup
<1>1. Init => DirInv
  BY DirInit, Zenon
<1>2. DirInv /\ [Next]_vars => DirInv'
  <2>1. ASSUME DirInv, UNCHANGED vars
        PROVE  DirInv'
    BY <2>1, StillKeepsDirs, Zenon DEF vars, UsersStill, worldVars
  <2> QED
    BY <2>1, DirInductive, Zenon
<1>3. DirInv => DirLostOnlyByLateCleanup
  BY Zenon DEF DirInv
<1> QED
  BY <1>1, <1>2, <1>3, PTL DEF Spec
=============================================================================
