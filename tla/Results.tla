------------------------------- MODULE Results -------------------------------
(***************************************************************************)
(* Functions that return a Result, as sets of results.                     *)
(*                                                                         *)
(* A function that does not wait is the set of its results [k, ok, val]:   *)
(* the state it leaves, whether it returned Ok, and the value it returned. *)
(* `?' is Then, a handled error is OrElse, an ignored one is Always.       *)
(* Every call into the kernel is refused when the state says so, and may   *)
(* also be refused at random, as often as `faults' in the state allows.    *)
(***************************************************************************)
EXTENDS Naturals, Sequences, FiniteSets

CONSTANT None

Ok(j, x) == {[k |-> j, ok |-> TRUE, val |-> x]}
Err(j) == {[k |-> j, ok |-> FALSE, val |-> None]}
Then(R, F(_, _)) == UNION {IF r.ok THEN F(r.k, r.val) ELSE {r} : r \in R}
OrElse(R, F(_)) == UNION {IF r.ok THEN {r} ELSE F(r.k) : r \in R}
Always(R, F(_)) == UNION {F(r.k) : r \in R}

\* A request in state j that the kernel grants when `can' holds and that leaves state i.
Call(j, can, i) ==
  IF ~can THEN Err(j)
  ELSE Ok(i, None) \cup IF j.faults > 0 THEN Err([j EXCEPT !.faults = @ - 1]) ELSE {}

\* F for every x of s, up to the first that fails.
Calls(j, s, F(_, _)) ==
  LET after[n \in 0 .. Len(s)] == IF n = 0 THEN Ok(j, None) ELSE Then(after[n - 1], LAMBDA i, y : F(i, s[n]))
  IN  after[Len(s)]

\* The first x of s for which F succeeds, as in `for x in s { if let Ok(..) = f(x) { return .. } }'.
FirstOf(j, s, F(_, _)) ==
  LET after[n \in 0 .. Len(s)] == IF n = 0 THEN Err(j) ELSE OrElse(after[n - 1], LAMBDA i : F(i, s[n]))
  IN  after[Len(s)]
=============================================================================
