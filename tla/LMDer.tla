------------------------------- MODULE LMDer -------------------------------
(***************************************************************************)
(* A solve: LMDerMeritFunction (residuals and Jacobian, optim/LMDer.cpp),  *)
(* the Levenberg-Marquardt driver that calls it (MinPack::lmder) and       *)
(* LMDerSolver::solve around both.  They share the prescription and the    *)
(* Analysis by reference: every evaluation, of a trial or of a Jacobian    *)
(* probe, overwrites the design the caller will print.                     *)
(*                                                                         *)
(* A design is a member of Points; a probe moves one variable off a point  *)
(* by an offset, in integer units.  Evaluation is a function  *)
(* of the design (the model is rebuilt from the prescription every time),  *)
(* so a point has one merit; a probe can find any set of goals usable.     *)
(* The linear algebra of lmder (qrfac, lmpar) is abstracted to "any step": *)
(* what is kept is which steps it may accept and when it stops.            *)
(***************************************************************************)
EXTENDS Integers, FiniteSets

CONSTANTS
  Points,          \* designs: values of all the variables
  MaxVars,         \* largest number of variables (n)
  MaxGoals,        \* largest number of goals (m)
  Big,             \* merit of a design with a goal at BIGVAL
  MaxEvaluations,  \* SolverTolerances::maxEvaluations, 0 for FROM_VARIABLE_COUNT
  MAX_JACOBIAN_STEP_REDUCTIONS,
  FullStep,        \* a variable's _d_delta, in the units of the offsets
  None             \* an analysis that has not been computed

ASSUME BoundsAssumption ==
  /\ MaxVars \in Nat /\ MaxGoals \in Nat /\ MaxEvaluations \in Nat
  /\ Big \in Nat \ {0}
  /\ MAX_JACOBIAN_STEP_REDUCTIONS \in Nat
  /\ FullStep \in Nat \ {0}

\* The unit of the offsets is small enough: a step that is halved as often as
\* the reductions allow stays a whole number of them.
ASSUME HalvingAssumption ==
  \E h \in [0 .. MAX_JACOBIAN_STEP_REDUCTIONS -> 1 .. FullStep] :
    /\ h[0] = FullStep
    /\ \A k \in 1 .. MAX_JACOBIAN_STEP_REDUCTIONS : h[k - 1] = 2 * h[k]

VARIABLES
  \* the problem, fixed while it is solved
  n, m,          \* variables and goals
  start,         \* the design in the prescription when the solver is made
  merit,         \* norm of the residuals of every design
  breaks,        \* designs at which Analysis::compute throws
  badDelta,      \* variables whose _d_delta is not a positive finite number
  faulty,        \* a goal addresses results the analysis does not produce
  \* shared with the caller
  prescription,  \* per variable: the point and the offset last written
  analysis,      \* the design behind each part of the results
  \* LMDerMeritFunction::buildJacobian
  j, attempt, step, forward, backward, column, success,
  \* MinPack::lmder and LMDerSolver::solve
  pc, x, fnorm, nfev, njev, info

problem == <<n, m, start, merit, breaks, badDelta, faulty>>
shared  == <<prescription, analysis>>
jac     == <<j, attempt, step, forward, backward, column, success>>
search  == <<x, fnorm, nfev, njev, info>>
vars    == <<problem, shared, jac, pc, search>>

-----------------------------------------------------------------------------
(* The design, and what an evaluation does to it *)

Goals == 1 .. m
Vars  == 1 .. n

\* Every variable at point p, none moved off it.
At(p) == [i \in Vars |-> [at |-> p, off |-> 0]]

\* Point p with variable v moved by d.
Probe(p, v, d) == [At(p) EXCEPT ![v] = [at |-> p, off |-> d]]

Computed(design) == [model |-> design, spots |-> design, contrasts |-> design]

\* Analysis::compute replaces its results one after the other: a failure
\* leaves what it had not reached, and a contrast failure a cleared list.
PartlyComputed(design) ==
  { analysis,
    [analysis EXCEPT !.model = design],
    [analysis EXCEPT !.model = design, !.spots = design],
    [model |-> design, spots |-> design, contrasts |-> None] }

\* Write every variable, then compute.
Evaluate(design, throws) ==
  /\ prescription' = design
  /\ analysis' \in IF throws THEN PartlyComputed(design) ELSE {Computed(design)}

Complete(p) == p \notin breaks /\ merit[p] < Big

maxfev == IF MaxEvaluations = 0 THEN 100 * (n + 1) ELSE MaxEvaluations

-----------------------------------------------------------------------------
(* LMDerMeritFunction::getSolver and the head of LMDerSolver::solve *)

Init ==
  /\ n \in 0 .. MaxVars /\ m \in 0 .. MaxGoals
  /\ start \in Points
  /\ merit \in [Points -> 0 .. Big]
  /\ breaks \in SUBSET {p \in Points : merit[p] = Big}
  /\ badDelta \in SUBSET Vars
  /\ faulty \in BOOLEAN
  /\ prescription = At(start)
  /\ analysis = [model |-> None, spots |-> None, contrasts |-> None]
  /\ j = 1 /\ attempt = 0 /\ step = FullStep /\ success = FALSE
  /\ forward = [off |-> 0, ok |-> {}] /\ backward = [off |-> 0, ok |-> {}]
  /\ column = <<>>
  /\ pc = "getSolver"
  /\ x = start /\ fnorm = Big /\ nfev = 0 /\ njev = 0 /\ info = 0

\* Mutant: a start that cannot be computed is let through.
GetSolverUnchecked ==
  /\ pc = "getSolver"
  /\ Evaluate(At(start), start \in breaks)
  /\ pc' \in {"solve", "refused"}
  /\ UNCHANGED <<problem, jac, search>>

\* validateInputs: compute at the start, refuse failed contrast samples.
GetSolver ==
  /\ pc = "getSolver"
  /\ Evaluate(At(start), start \in breaks)
  /\ \E sampled \in BOOLEAN :
       pc' = IF start \notin breaks /\ sampled THEN "solve" ELSE "refused"
  /\ UNCHANGED <<problem, jac, search>>

\* Fewer goals than variables is an exception; no variable at all is an
\* improper input, for which lmder returns 0 without evaluating anything.
Solve ==
  /\ pc = "solve"
  /\ pc' = IF m < n THEN "refused" ELSE IF n = 0 THEN "final" ELSE "initial"
  /\ UNCHANGED <<problem, shared, jac, search>>

-----------------------------------------------------------------------------
(* Residuals at the starting point: apply with iflag 1 *)

\* Goal::value is called outside tryEvaluation: what it throws is not caught.
Initial ==
  /\ pc = "initial"
  /\ Evaluate(At(x), x \in breaks)
  /\ IF faulty /\ x \notin breaks
       THEN pc' = "threw" /\ UNCHANGED <<fnorm, nfev>>
       ELSE pc' = "base" /\ fnorm' = merit[x] /\ nfev' = 1
  /\ UNCHANGED <<problem, jac, x, njev, info>>

-----------------------------------------------------------------------------
(* LMDerMeritFunction::buildJacobian: apply with iflag 2 *)

\* The head of the loop over the variables, for variable v.
StartColumn(v) ==
  /\ j' = v /\ attempt' = 0 /\ step' = FullStep
  /\ pc' = IF v \in Vars \ badDelta THEN "forward" ELSE "restore"
  /\ success' = (v \notin badDelta)

FailJacobian ==
  /\ pc' = "restore" /\ success' = FALSE
  /\ UNCHANGED <<j, attempt, step>>

\* A derivative is taken only around a point every goal can be evaluated at.
Base ==
  /\ pc = "base"
  /\ Evaluate(At(x), x \in breaks)
  /\ IF Complete(x) THEN StartColumn(1) ELSE FailJacobian
  /\ UNCHANGED <<problem, forward, backward, column, search>>

\* One probe: the goals it finds usable, none when the analysis throws.
ProbeAt(d, ok) ==
  /\ \E throws \in BOOLEAN :
       /\ throws => ok = {}
       /\ Evaluate(Probe(x, j, d), throws)

Forward ==
  /\ pc = "forward"
  /\ \E ok \in SUBSET Goals :
       /\ ProbeAt(step, ok)
       /\ forward' = [off |-> step, ok |-> ok]
  /\ pc' = "backward"
  /\ UNCHANGED <<problem, j, attempt, step, backward, column, success, search>>

EveryResidualHasPerturbedValue(f, b) == f.ok \union b.ok = Goals

Incomplete(b) == forward.ok # Goals \/ b.ok # Goals

Retries(b) == Incomplete(b) /\ attempt < MAX_JACOBIAN_STEP_REDUCTIONS

\* Mutant: the step is halved after the last attempt as well.
StepAfterAlways(b) == IF Incomplete(b) THEN step \div 2 ELSE step

StepAfter(b) == IF Retries(b) THEN step \div 2 ELSE step

\* The second probe decides: halve the step while either side is incomplete
\* and reductions are left, otherwise take the column or give up.
Backward ==
  /\ pc = "backward"
  /\ \E ok \in SUBSET Goals :
       /\ ProbeAt(-step, ok)
       /\ backward' = [off |-> -step, ok |-> ok]
  /\ step' = StepAfter(backward')
  /\ IF Retries(backward')
       THEN pc' = "forward" /\ attempt' = attempt + 1 /\ UNCHANGED success
       ELSE /\ UNCHANGED attempt
            /\ success' = EveryResidualHasPerturbedValue(forward, backward')
            /\ pc' = IF success' THEN "column" ELSE "restore"
  /\ UNCHANGED <<problem, j, forward, column, search>>

\* The difference quotient of goal i: the offsets of the two values it is
\* taken between, and the distance it is divided by.
Quotient(i) ==
  IF i \in forward.ok \intersect backward.ok
    THEN [from |-> backward.off, to |-> forward.off, over |-> 2 * step]
  ELSE IF i \in forward.ok
    THEN [from |-> 0, to |-> forward.off, over |-> step]
    ELSE [from |-> backward.off, to |-> 0, over |-> step]

\* A quotient that overflows rejects the Jacobian.
Column ==
  /\ pc = "column"
  /\ column' = [i \in Goals |-> Quotient(i)]
  /\ StartColumn(j + 1) \/ FailJacobian
  /\ UNCHANGED <<problem, shared, forward, backward, search>>

\* Mutant: success && evaluate(...), which skips the restore of a failed Jacobian.
RestoreOnSuccess ==
  /\ pc = "restore"
  /\ IF success
       THEN Evaluate(At(x), x \in breaks)
       ELSE UNCHANGED shared
  /\ njev' = njev + 1
  /\ IF success /\ Complete(x)
       THEN pc' = "gradient" /\ UNCHANGED info
       ELSE pc' = "final" /\ info' = -99
  /\ UNCHANGED <<problem, j, attempt, step, forward, backward, column, success,
                 x, fnorm, nfev>>

\* The restore runs whether or not the Jacobian succeeded.
Restore ==
  /\ pc = "restore"
  /\ Evaluate(At(x), x \in breaks)
  /\ njev' = njev + 1
  /\ IF success /\ Complete(x)
       THEN pc' = "gradient" /\ UNCHANGED info
       ELSE pc' = "final" /\ info' = -99
  /\ UNCHANGED <<problem, j, attempt, step, forward, backward, column, success,
                 x, fnorm, nfev>>

-----------------------------------------------------------------------------
(* MinPack::lmder between two calls of fcn *)

\* The scaled gradient is zero at a zero residual; else it may be flat or not.
Gradient ==
  /\ pc = "gradient"
  /\ \/ pc' = "final" /\ info' = 4
     \/ fnorm # 0 /\ pc' = "trial" /\ UNCHANGED info
  /\ UNCHANGED <<problem, shared, jac, x, fnorm, nfev, njev>>

\* The convergence tests may stop the search after any trial, the evaluation
\* limit stops it for sure.
StopReasons(calls) ==
  {1, 2, 3, 6, 7, 8} \union (IF calls >= maxfev THEN {5} ELSE {0})

\* Mutant: a step that changes nothing is accepted.
AcceptsEqual(p) == merit[p] <= fnorm

\* A ratio of at least 1e-4 needs an actual reduction.
Accepts(p) == merit[p] < fnorm

\* The inner loop repeats after a rejected trial, the outer after the others.
AfterTrial(next) ==
  /\ nfev' = nfev + 1
  /\ info' \in StopReasons(nfev')
  /\ pc' = IF info' = 0 THEN next ELSE "final"
  /\ UNCHANGED <<problem, jac, njev>>

Accept ==
  /\ pc = "trial"
  /\ \E p \in Points :
       /\ Accepts(p)
       /\ Evaluate(At(p), p \in breaks)
       /\ x' = p /\ fnorm' = merit[p]
  /\ AfterTrial("base")

\* Mutant: only accepted steps count against the limit.
RejectUncounted ==
  /\ pc = "trial"
  /\ \E p \in Points : Evaluate(At(p), p \in breaks)
  /\ info' \in StopReasons(nfev)
  /\ pc' = IF info' = 0 THEN "trial" ELSE "final"
  /\ UNCHANGED <<problem, jac, x, fnorm, nfev, njev>>

\* Too small a reduction rejects the step as well.
Reject ==
  /\ pc = "trial"
  /\ \E p \in Points : Evaluate(At(p), p \in breaks)
  /\ AfterTrial("trial")
  /\ UNCHANGED <<x, fnorm>>

\* A step with a NaN: the variables before it are written, then set_scaled_value
\* throws and nothing is computed.  Every residual is BIGVAL, and an undefined
\* ratio neither accepts the step nor repeats the inner loop.
RejectNaN ==
  /\ pc = "trial"
  /\ \E p \in Points, v \in Vars :
       prescription' = [i \in Vars |-> IF i < v THEN At(p)[i] ELSE prescription[i]]
  /\ \E next \in {"trial", "base"} : AfterTrial(next)
  /\ UNCHANGED <<analysis, x, fnorm>>

\* Mutant: the accepted x is written and the analysis left as the search left it.
FinalUncomputed ==
  /\ pc = "final"
  /\ prescription' = At(x)
  /\ pc' = "done"
  /\ UNCHANGED <<problem, analysis, jac, search>>

\* The tail of LMDerSolver::solve: write the accepted x, compute unguarded.
Final ==
  /\ pc = "final"
  /\ Evaluate(At(x), x \in breaks)
  /\ pc' = IF x \in breaks THEN "threw" ELSE "done"
  /\ UNCHANGED <<problem, jac, search>>

-----------------------------------------------------------------------------
Next == \/ GetSolver \/ Solve \/ Initial
        \/ Base \/ Forward \/ Backward \/ Column \/ Restore
        \/ Gradient \/ Accept \/ Reject \/ RejectNaN
        \/ Final

\* One thread runs the solve, and every call it makes returns or throws.
Spec == Init /\ [][Next]_vars /\ WF_vars(Next)

-----------------------------------------------------------------------------
(* Properties *)

Positions == [Vars -> [at : Points, off : Int]]

Results == Positions \union {None}

Probed == [off : Int, ok : SUBSET Goals]

Places == {"getSolver", "solve", "refused", "initial", "base", "forward",
             "backward", "column", "restore", "gradient", "trial", "final",
             "done", "threw"}

ProblemOK ==
  /\ n \in 0 .. MaxVars /\ m \in 0 .. MaxGoals
  /\ start \in Points
  /\ merit \in [Points -> 0 .. Big]
  /\ breaks \in SUBSET {p \in Points : merit[p] = Big}
  /\ badDelta \in SUBSET Vars
  /\ faulty \in BOOLEAN

SharedOK ==
  /\ prescription \in Positions
  /\ analysis \in [model : Results, spots : Results, contrasts : Results]

JacobianOK ==
  /\ j \in 1 .. n + 1
  /\ attempt \in 0 .. MAX_JACOBIAN_STEP_REDUCTIONS
  /\ step \in Int
  /\ forward \in Probed /\ backward \in Probed
  /\ success \in BOOLEAN

SearchOK ==
  /\ pc \in Places
  /\ pc \in {"forward", "backward", "column"} => j \in Vars
  /\ x \in Points
  /\ fnorm \in 0 .. Big
  /\ nfev \in Nat /\ njev \in Nat
  /\ info \in {-99} \union 0 .. 8

TypeOK == ProblemOK /\ SharedOK /\ JacobianOK /\ SearchOK

\* What the caller prints after a solve is the design the search accepted: the
\* prescription and every part of the analysis describe x, whatever was probed,
\* rejected or half computed on the way.
ReportsTheAcceptedDesign ==
  pc = "done" => /\ prescription = At(x)
                 /\ analysis = Computed(At(x))

\* The recomputation at the end of solve has no guard: no design the search
\* accepts makes it throw, so only goals that do not fit the analysis make a
\* solve that got past its checks throw.
ThrowsOnlyForFaultyGoals == pc = "threw" => faulty /\ nfev = 0

\* What a caller sees of a solve, returned or thrown out of.
CallersSeeTheAccepted == ReportsTheAcceptedDesign /\ ThrowsOnlyForFaultyGoals

\* "A failed probe must never leak its prescription or partial analysis state
\* to the caller": after a Jacobian, good or bad, the design is x again.
NoProbeLeaks ==
  pc = "gradient" \/ (pc = "final" /\ info = -99) =>
    /\ prescription = At(x)
    /\ analysis = Computed(At(x))

\* At most maxfev residual evaluations, except that the limit is not looked at
\* before the first trial; and one Jacobian at most for each of them.
BudgetKept == /\ nfev <= maxfev \/ nfev <= 2
              /\ njev <= nfev

\* Every derivative is divided by the distance between the two designs its
\* values come from, each with the goal usable, however often the step was
\* halved and whichever side failed.
QuotientsSpanTheirProbes ==
  [][\A i \in Goals :
       column' # column =>
         LET q == column'[i]
         IN  /\ q.over = q.to - q.from /\ q.over > 0
             /\ q.to # 0 => i \in forward.ok /\ q.to = forward.off
             /\ q.from # 0 => i \in backward.ok /\ q.from = backward.off]_vars

\* Every solve ends, by returning or by an exception.
Terminates == <>(pc \in {"done", "refused", "threw"})

\* What a caller sees of a solve.
Shown == IF pc = "done" /\ prescription = At(x) /\ analysis = Computed(At(x))
           THEN x ELSE None

Outcome ==
  CASE pc \in {"getSolver", "solve", "initial"} -> "starting"
    [] pc \in {"refused", "threw"} -> "refused"
    [] pc = "done" -> "returned"
    [] OTHER -> "running"

Abstract == INSTANCE Descent
              WITH best <- x, shown <- Shown, outcome <- Outcome, Nowhere <- None

\* A solve is a descent: the accepted designs improve, an exception leaves the
\* search where it started, and a return shows the best design.
ImplementsDescent == Abstract!Spec
=============================================================================
