---------------------------- MODULE ResultStream ----------------------------
(***************************************************************************)
(* What PySpark promises its user about the results of queries             *)
(* (docs/architecture.md, "Reattachable execute"): every query hands out   *)
(* its responses once and in order, and then is complete, unless it fails  *)
(* or the user drops it.  Connections, cuts, retries and reattaching are   *)
(* not visible here.                                                       *)
(***************************************************************************)
EXTENDS Naturals, Sequences

CONSTANTS
  Op,            \* the queries of the program
  MaxResponses   \* bound: responses of one query

VARIABLES
  length,     \* the number of responses of each query, 0 until it is planned
  delivered,  \* what each query has handed out
  outcome     \* "running", "complete", "failed" or "dropped"

vars == <<length, delivered, outcome>>

Response(o, i) == [op |-> o, id |-> i]

Init ==
  /\ length = [o \in Op |-> 0]
  /\ delivered = [o \in Op |-> <<>>]
  /\ outcome = [o \in Op |-> "running"]

Running(o) == outcome[o] = "running"

Plan(o, n) ==
  /\ Running(o) /\ length[o] = 0
  /\ length' = [length EXCEPT ![o] = n]
  /\ UNCHANGED <<delivered, outcome>>

\* The last response says that the result is complete.
Deliver(o) ==
  LET i == Len(delivered[o]) + 1
  IN  /\ Running(o) /\ i <= length[o]
      /\ delivered' = [delivered EXCEPT ![o] = Append(@, Response(o, i))]
      /\ outcome' = IF i = length[o] THEN [outcome EXCEPT ![o] = "complete"] ELSE outcome
      /\ UNCHANGED length

GiveUp(o) ==
  /\ Running(o)
  /\ \E e \in {"failed", "dropped"} : outcome' = [outcome EXCEPT ![o] = e]
  /\ UNCHANGED <<length, delivered>>

Next == \E o \in Op : Deliver(o) \/ GiveUp(o) \/ \E n \in 1 .. MaxResponses : Plan(o, n)

Spec == Init /\ [][Next]_vars
=============================================================================
