------------------------------ MODULE Descent ------------------------------
(***************************************************************************)
(* What a caller of Solver::solve relies on: a solve either refuses the    *)
(* problem before it has moved the design, or returns with the design the  *)
(* best point it accepted, and every point it accepted was strictly better *)
(* than the one before.                                                    *)
(***************************************************************************)
EXTENDS Integers

CONSTANTS
  Points,   \* designs the search can visit, each a value of every variable
  Big,      \* the merit of a design some goal cannot be evaluated at
  Nowhere   \* the design shown by a solve that has not returned

VARIABLES
  merit,    \* the merit of every design, smaller is better
  best,     \* the design accepted last
  shown,    \* the design the prescription and the analysis describe
  outcome   \* "starting", "running", "returned" or "refused"

vars == <<merit, best, shown, outcome>>

Init == /\ merit \in [Points -> 0 .. Big]
        /\ best \in Points
        /\ shown = Nowhere
        /\ outcome = "starting"

Begin == /\ outcome = "starting"
         /\ outcome' = "running"
         /\ UNCHANGED <<merit, best, shown>>

Refuse == /\ outcome = "starting"
          /\ outcome' = "refused"
          /\ UNCHANGED <<merit, best, shown>>

Improve == /\ outcome = "running"
           /\ \E p \in Points : merit[p] < merit[best] /\ best' = p
           /\ UNCHANGED <<merit, shown, outcome>>

Return == /\ outcome = "running"
          /\ outcome' = "returned"
          /\ shown' = best
          /\ UNCHANGED <<merit, best>>

Next == Begin \/ Refuse \/ Improve \/ Return

Spec == Init /\ [][Next]_vars
=============================================================================
