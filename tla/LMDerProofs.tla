---------------------------- MODULE LMDerProofs ----------------------------
(***************************************************************************)
(* Proofs about a solve, for any designs and merits, any number of         *)
(* variables and goals, any evaluation limit and any number of step        *)
(* reductions.  That a solve ends is left to TLC.                          *)
(***************************************************************************)
EXTENDS LMDer, TLAPS

USE DEF Goals, Vars

-----------------------------------------------------------------------------
(* Types.                                                                  *)

\* No step changes the problem, so nothing built from it alone changes.
LEMMA ProblemKept ==
  ASSUME ProblemOK, UNCHANGED problem
  PROVE  /\ ProblemOK' /\ Goals' = Goals /\ Vars' = Vars
         /\ Positions' = Positions /\ Results' = Results /\ Probed' = Probed
         /\ maxfev' = maxfev
         /\ \A p : At(p)' = At(p)
  BY DEF ProblemOK, problem, Positions, Results, Probed, maxfev, At

LEMMA AtType ==
  ASSUME NEW p \in Points
  PROVE  At(p) \in Positions
  BY DEF At, Positions

LEMMA ProbeType ==
  ASSUME NEW p \in Points, NEW v, NEW d \in Int
  PROVE  Probe(p, v, d) \in Positions
  BY AtType DEF Probe, At, Positions

\* An evaluation, complete or broken off, leaves designs in every part.
LEMMA EvaluateType ==
  ASSUME ProblemOK, SharedOK, UNCHANGED problem,
         NEW d \in Positions, NEW t, Evaluate(d, t)
  PROVE  SharedOK'
  <1>1. Positions' = Positions /\ Results' = Results
    BY ProblemKept
  <1>2. Computed(d) \in [model : Results, spots : Results, contrasts : Results]
    BY DEF Computed, Results
  <1>3. \A a \in PartlyComputed(d) :
           a \in [model : Results, spots : Results, contrasts : Results]
    <2> DEFINE R == [model : Results, spots : Results, contrasts : Results]
    <2>1. analysis \in R /\ d \in Results /\ None \in Results
      BY DEF SharedOK, Results
    <2> HIDE DEF R
    <2>2. [analysis EXCEPT !.model = d] \in R
      BY <2>1 DEF R
    <2>3. [analysis EXCEPT !.model = d, !.spots = d] \in R
      BY <2>1 DEF R
    <2>4. [model |-> d, spots |-> d, contrasts |-> None] \in R
      BY <2>1 DEF R
    <2> QED BY <2>1, <2>2, <2>3, <2>4 DEF PartlyComputed, R
  <1>4. analysis' \in [model : Results, spots : Results, contrasts : Results]
    BY <1>2, <1>3 DEF Evaluate
  <1> QED BY <1>1, <1>4 DEF Evaluate, SharedOK

LEMMA SharedKept ==
  ASSUME ProblemOK, SharedOK, UNCHANGED problem, UNCHANGED shared
  PROVE  SharedOK'
  BY ProblemKept DEF SharedOK, shared

LEMMA JacobianKept ==
  ASSUME ProblemOK, JacobianOK, UNCHANGED problem, UNCHANGED jac
  PROVE  JacobianOK'
  <1>1. n' = n /\ Probed' = Probed
    BY ProblemKept DEF problem
  <1>2. UNCHANGED <<j, attempt, step, forward, backward>>
    BY DEF jac
  <1>3. success' \in BOOLEAN
    BY DEF jac, JacobianOK
  <1> QED BY <1>1, <1>2, <1>3 DEF JacobianOK

LEMMA InitTypes == Init => TypeOK
  <1> SUFFICES ASSUME Init PROVE TypeOK
    OBVIOUS
  <1> USE BoundsAssumption
  <1>1. ProblemOK
    BY DEF Init, ProblemOK
  <1>2. SharedOK
    BY AtType DEF Init, SharedOK, Results
  <1>3. JacobianOK
    <2>1. success \in BOOLEAN
      BY DEF Init
    <2>2. forward \in Probed /\ backward \in Probed
      BY DEF Init, Probed
    <2>3. j \in 1 .. n + 1 /\ attempt \in 0 .. MAX_JACOBIAN_STEP_REDUCTIONS
          /\ step \in Int
      BY DEF Init
    <2> QED BY <2>1, <2>2, <2>3 DEF JacobianOK
  <1>4. SearchOK
    BY DEF Init, SearchOK, Places
  <1> QED BY <1>1, <1>2, <1>3, <1>4 DEF TypeOK

\* The head of the loop over the variables.
LEMMA StartColumnType ==
  ASSUME ProblemOK, UNCHANGED problem, NEW v \in 1 .. n + 1, StartColumn(v)
  PROVE  /\ j' \in 1 .. n' + 1 /\ attempt' \in 0 .. MAX_JACOBIAN_STEP_REDUCTIONS
         /\ step' \in Int /\ success' \in BOOLEAN
         /\ pc' \in {"forward", "restore"}
         /\ pc' = "forward" => j' \in Vars'
  <1> USE BoundsAssumption
  <1>1. n' = n
    BY DEF problem
  <1> QED BY <1>1 DEF StartColumn, ProblemOK

LEMMA FailJacobianType ==
  ASSUME ProblemOK, JacobianOK, UNCHANGED problem, FailJacobian
  PROVE  /\ j' \in 1 .. n' + 1 /\ attempt' \in 0 .. MAX_JACOBIAN_STEP_REDUCTIONS
         /\ step' \in Int /\ success' \in BOOLEAN
         /\ pc' = "restore"
  BY DEF FailJacobian, JacobianOK, problem

LEMMA NextTypes ==
  ASSUME TypeOK, [Next]_vars
  PROVE  TypeOK'
  <1> USE BoundsAssumption DEF TypeOK
  <1>0. CASE UNCHANGED vars
    <2>1. UNCHANGED problem /\ UNCHANGED shared /\ UNCHANGED jac
      BY <1>0 DEF vars
    <2>2. SearchOK'
      BY <1>0 DEF vars, search, problem, jac, SearchOK
    <2> QED BY <2>1, <2>2, ProblemKept, SharedKept, JacobianKept
  <1>1. CASE GetSolver
    <2>1. UNCHANGED problem /\ UNCHANGED jac /\ UNCHANGED search
      BY <1>1 DEF GetSolver
    <2>2. SharedOK'
      BY <1>1, <2>1, AtType, EvaluateType DEF GetSolver, ProblemOK
    <2>3. SearchOK'
      BY <1>1, <2>1 DEF GetSolver, search, SearchOK, Places
    <2> QED BY <2>1, <2>2, <2>3, ProblemKept, JacobianKept
  <1>2. CASE Solve
    <2>1. UNCHANGED problem /\ UNCHANGED shared /\ UNCHANGED jac /\ UNCHANGED search
      BY <1>2 DEF Solve
    <2>2. SearchOK'
      BY <1>2, <2>1 DEF Solve, search, SearchOK, Places
    <2> QED BY <2>1, <2>2, ProblemKept, SharedKept, JacobianKept
  <1>3. CASE Initial
    <2>1. UNCHANGED problem /\ UNCHANGED jac
      BY <1>3 DEF Initial
    <2>2. SharedOK'
      BY <1>3, <2>1, AtType, EvaluateType DEF Initial, SearchOK
    <2>3. SearchOK'
      BY <1>3 DEF Initial, SearchOK, Places, ProblemOK
    <2> QED BY <2>1, <2>2, <2>3, ProblemKept, JacobianKept
  <1>4. CASE Base
    <2>1. UNCHANGED problem /\ UNCHANGED search
      BY <1>4 DEF Base
    <2>2. SharedOK'
      BY <1>4, <2>1, AtType, EvaluateType DEF Base, SearchOK
    <2>3. 1 \in 1 .. n + 1
      BY DEF ProblemOK
    <2>4. /\ j' \in 1 .. n' + 1 /\ attempt' \in 0 .. MAX_JACOBIAN_STEP_REDUCTIONS
          /\ step' \in Int /\ success' \in BOOLEAN
          /\ pc' \in {"forward", "restore"}
          /\ pc' = "forward" => j' \in Vars'
      BY <1>4, <2>1, <2>3, StartColumnType, FailJacobianType DEF Base
    <2>5. JacobianOK'
      BY <1>4, <2>1, <2>4, ProblemKept DEF Base, JacobianOK
    <2>6. SearchOK'
      BY <2>1, <2>4 DEF search, SearchOK, Places
    <2> QED BY <2>1, <2>2, <2>5, <2>6, ProblemKept
  <1>5. CASE Forward
    <2>1. UNCHANGED problem /\ UNCHANGED search
          /\ UNCHANGED <<j, attempt, step, backward, success>>
      BY <1>5 DEF Forward
    <2>2. PICK ok \in SUBSET Goals : ProbeAt(step, ok) /\ forward' = [off |-> step, ok |-> ok]
      BY <1>5 DEF Forward
    <2>3. PICK t \in BOOLEAN : Evaluate(Probe(x, j, step), t)
      BY <2>2 DEF ProbeAt
    <2>4. SharedOK'
      BY <2>1, <2>3, ProbeType, EvaluateType DEF JacobianOK, SearchOK
    <2>5. JacobianOK'
      BY <2>1, <2>2, ProblemKept DEF ProbeAt, JacobianOK, Probed, problem
    <2>6. SearchOK'
      BY <1>5, <2>1 DEF Forward, search, SearchOK, Places, problem
    <2> QED BY <2>1, <2>4, <2>5, <2>6, ProblemKept
  <1>6. CASE Backward
    <2>1. UNCHANGED problem /\ UNCHANGED search /\ UNCHANGED <<j, forward>>
      BY <1>6 DEF Backward
    <2>2. PICK ok \in SUBSET Goals : ProbeAt(-step, ok) /\ backward' = [off |-> -step, ok |-> ok]
      BY <1>6 DEF Backward
    <2>3. PICK t \in BOOLEAN : Evaluate(Probe(x, j, -step), t)
      BY <2>2 DEF ProbeAt
    <2>4. SharedOK'
      BY <2>1, <2>3, ProbeType, EvaluateType DEF JacobianOK, SearchOK
    <2>5. step' \in Int
      BY <1>6 DEF Backward, StepAfter, JacobianOK
    <2>6. attempt' \in 0 .. MAX_JACOBIAN_STEP_REDUCTIONS
      BY <1>6 DEF Backward, Retries, JacobianOK
    <2>7. success' \in BOOLEAN
      BY <1>6 DEF Backward, EveryResidualHasPerturbedValue, JacobianOK
    <2>8. JacobianOK'
      BY <2>1, <2>2, <2>5, <2>6, <2>7, ProblemKept DEF ProbeAt, JacobianOK, Probed, problem
    <2>9. SearchOK'
      BY <1>6, <2>1 DEF Backward, search, SearchOK, Places, problem
    <2> QED BY <2>1, <2>4, <2>8, <2>9, ProblemKept
  <1>7. CASE Column
    <2>1. UNCHANGED problem /\ UNCHANGED shared /\ UNCHANGED search
          /\ UNCHANGED <<forward, backward>>
      BY <1>7 DEF Column
    <2>2. j + 1 \in 1 .. n + 1
      BY <1>7 DEF Column, SearchOK, ProblemOK
    <2>3. /\ j' \in 1 .. n' + 1 /\ attempt' \in 0 .. MAX_JACOBIAN_STEP_REDUCTIONS
          /\ step' \in Int /\ success' \in BOOLEAN
          /\ pc' \in {"forward", "restore"}
          /\ pc' = "forward" => j' \in Vars'
      BY <1>7, <2>1, <2>2, StartColumnType, FailJacobianType DEF Column
    <2>4. JacobianOK'
      BY <2>1, <2>3, ProblemKept DEF JacobianOK
    <2>5. SearchOK'
      BY <2>1, <2>3 DEF search, SearchOK, Places
    <2> QED BY <2>1, <2>4, <2>5, ProblemKept, SharedKept
  <1>8. CASE Restore
    <2>1. UNCHANGED problem /\ UNCHANGED <<j, attempt, step, forward, backward, success>>
      BY <1>8 DEF Restore
    <2>2. SharedOK'
      BY <1>8, <2>1, AtType, EvaluateType DEF Restore, SearchOK
    <2>3. JacobianOK'
      BY <1>8, <2>1, ProblemKept DEF Restore, JacobianOK, problem
    <2>4. SearchOK'
      BY <1>8 DEF Restore, SearchOK, Places
    <2> QED BY <2>1, <2>2, <2>3, <2>4, ProblemKept
  <1>9. CASE Gradient
    <2>1. UNCHANGED problem /\ UNCHANGED shared /\ UNCHANGED jac
      BY <1>9 DEF Gradient
    <2>2. SearchOK'
      BY <1>9 DEF Gradient, SearchOK, Places
    <2> QED BY <2>1, <2>2, ProblemKept, SharedKept, JacobianKept
  <1>10. CASE Accept
    <2>1. UNCHANGED problem /\ UNCHANGED jac
      BY <1>10 DEF Accept, AfterTrial
    <2>2. PICK p \in Points : Evaluate(At(p), p \in breaks) /\ x' = p /\ fnorm' = merit[p]
      BY <1>10 DEF Accept
    <2>3. SharedOK'
      BY <2>1, <2>2, AtType, EvaluateType
    <2>4. SearchOK'
      BY <1>10, <2>2 DEF Accept, AfterTrial, StopReasons, SearchOK, Places, ProblemOK
    <2> QED BY <2>1, <2>3, <2>4, ProblemKept, JacobianKept
  <1>11. CASE Reject
    <2>1. UNCHANGED problem /\ UNCHANGED jac
      BY <1>11 DEF Reject, AfterTrial
    <2>2. SharedOK'
      BY <1>11, <2>1, AtType, EvaluateType DEF Reject
    <2>3. SearchOK'
      BY <1>11 DEF Reject, AfterTrial, StopReasons, SearchOK, Places
    <2> QED BY <2>1, <2>2, <2>3, ProblemKept, JacobianKept
  <1>12. CASE RejectNaN
    <2>1. UNCHANGED problem /\ UNCHANGED jac /\ UNCHANGED analysis
      BY <1>12 DEF RejectNaN, AfterTrial
    <2>2. PICK p \in Points, v \in Vars :
            prescription' = [i \in Vars |-> IF i < v THEN At(p)[i] ELSE prescription[i]]
      BY <1>12 DEF RejectNaN
    <2>3. prescription' \in Positions
      BY <2>2, AtType DEF SharedOK, Positions
    <2>4. SharedOK'
      BY <2>1, <2>3, ProblemKept DEF SharedOK
    <2>5. PICK next \in {"trial", "base"} : AfterTrial(next)
      BY <1>12 DEF RejectNaN
    <2>6. SearchOK'
      BY <1>12, <2>5 DEF RejectNaN, AfterTrial, StopReasons, SearchOK, Places
    <2> QED BY <2>1, <2>4, <2>6, ProblemKept, JacobianKept
  <1>13. CASE Final
    <2>1. UNCHANGED problem /\ UNCHANGED jac /\ UNCHANGED search
      BY <1>13 DEF Final
    <2>2. SharedOK'
      BY <1>13, <2>1, AtType, EvaluateType DEF Final, SearchOK
    <2>3. SearchOK'
      BY <1>13, <2>1 DEF Final, search, SearchOK, Places
    <2> QED BY <2>1, <2>2, <2>3, ProblemKept, JacobianKept
  <1> QED BY <1>0, <1>1, <1>2, <1>3, <1>4, <1>5, <1>6, <1>7, <1>8, <1>9, <1>10,
             <1>11, <1>12, <1>13 DEF Next

\* However a solve goes, its counters and indices stay in range and the
\* prescription and every part of the analysis hold designs.
THEOREM SolveTypeCorrect == Spec => []TypeOK
  <1>1. Init => TypeOK
    BY InitTypes
  <1>2. TypeOK /\ [Next]_vars => TypeOK'
    BY NextTypes
  <1> QED BY <1>1, <1>2, PTL DEF Spec

-----------------------------------------------------------------------------
(* The search.                                                             *)

\* Before the first residual evaluation has succeeded nothing is accepted.
Unmoved == {"getSolver", "solve", "refused", "initial", "threw"}

\* The places of the loops of lmder, between two residual evaluations.
Looping == {"base", "forward", "backward", "column", "restore", "gradient", "trial"}

StartInv ==
  /\ pc \in Unmoved => x = start /\ nfev = 0 /\ njev = 0 /\ info = 0
  /\ pc = "threw" => faulty

\* A design that does not compute is never accepted: its merit is Big, and
\* what is accepted is below the merit of the point before it.
AcceptedInv ==
  /\ pc \notin {"getSolver", "refused"} => x \notin breaks
  /\ pc \in Looping => fnorm = merit[x] /\ nfev >= 1

BudgetInv ==
  /\ pc \in Looping => nfev < maxfev \/ nfev = 1
  /\ pc \in {"base", "forward", "backward", "column", "restore"} => njev < nfev
  /\ BudgetKept

ShownInv == ReportsTheAcceptedDesign /\ NoProbeLeaks

SearchInv == StartInv /\ AcceptedInv /\ BudgetInv /\ ShownInv

\* Evaluating an accepted design, which computes, shows it everywhere.
LEMMA EvaluateShows ==
  ASSUME ProblemOK, UNCHANGED problem, x \notin breaks, x' = x,
         Evaluate(At(x), x \in breaks)
  PROVE  (prescription = At(x) /\ analysis = Computed(At(x)))'
  <1>1. At(x)' = At(x)
    BY DEF At, problem
  <1>2. Computed(At(x))' = Computed(At(x))
    BY <1>1 DEF Computed
  <1> QED BY <1>1, <1>2 DEF Evaluate

LEMMA InitSearch == Init => SearchInv
  <1> SUFFICES ASSUME Init PROVE SearchInv
    OBVIOUS
  <1>1. StartInv /\ AcceptedInv
    BY DEF Init, StartInv, AcceptedInv, Unmoved, Looping
  <1>2. BudgetInv
    BY DEF Init, BudgetInv, BudgetKept, Looping
  <1>3. ShownInv
    BY DEF Init, ShownInv, ReportsTheAcceptedDesign, NoProbeLeaks
  <1> QED BY <1>1, <1>2, <1>3 DEF SearchInv

\* A step that evaluates nothing for the search and stays in a loop.
LEMMA LoopStep ==
  ASSUME TypeOK, SearchInv, UNCHANGED problem, UNCHANGED search,
         pc \in {"base", "forward", "backward", "column", "restore"},
         pc' \in {"forward", "backward", "column", "restore"}
  PROVE  SearchInv'
  <1>1. UNCHANGED <<x, fnorm, nfev, njev, info>> /\ UNCHANGED <<start, merit, breaks>>
        /\ maxfev' = maxfev
    BY ProblemKept DEF search, problem, TypeOK
  <1>2. StartInv' /\ AcceptedInv'
    BY <1>1 DEF SearchInv, StartInv, AcceptedInv, Unmoved, Looping
  <1>3. BudgetInv'
    BY <1>1 DEF SearchInv, BudgetInv, BudgetKept, Looping
  <1>4. ShownInv'
    BY DEF ShownInv, ReportsTheAcceptedDesign, NoProbeLeaks
  <1> QED BY <1>2, <1>3, <1>4 DEF SearchInv

\* A trial, accepted or not: the limit is looked at after every one of them.
LEMMA TrialStep ==
  ASSUME TypeOK, SearchInv, NEW next \in {"trial", "base"},
         pc = "trial", AfterTrial(next),
         UNCHANGED <<x, fnorm>> \/ (x' \in Points \ breaks /\ fnorm' = merit[x'])
  PROVE  SearchInv'
  <1>0. maxfev \in Int /\ nfev \in Nat
    BY BoundsAssumption DEF maxfev, TypeOK, ProblemOK, SearchOK
  <1>1. UNCHANGED problem /\ UNCHANGED njev /\ UNCHANGED <<start, merit, breaks, faulty>>
        /\ maxfev' = maxfev
    BY ProblemKept DEF AfterTrial, problem, TypeOK
  <1>2. /\ pc = "trial" /\ nfev' = nfev + 1
        /\ info' \in {1, 2, 3, 6, 7, 8} \union (IF nfev' >= maxfev THEN {5} ELSE {0})
        /\ pc' \in {"trial", "base", "final"} /\ (pc' # "final" => info' = 0)
    BY DEF AfterTrial, StopReasons
  <1>3. pc' # "final" => nfev' < maxfev
    BY <1>0, <1>1, <1>2
  <1>4. StartInv'
    BY <1>1, <1>2 DEF SearchInv, StartInv, Unmoved
  <1>5. AcceptedInv'
    BY <1>1, <1>2 DEF SearchInv, AcceptedInv, Looping, TypeOK, SearchOK
  <1>6. nfev' <= maxfev \/ nfev' <= 2
    BY <1>0, <1>2 DEF SearchInv, BudgetInv, Looping
  <1>7. BudgetInv'
    BY <1>0, <1>1, <1>2, <1>3, <1>6 DEF SearchInv, BudgetInv, BudgetKept, Looping, TypeOK, SearchOK
  <1>8. ShownInv'
    BY <1>2 DEF ShownInv, ReportsTheAcceptedDesign, NoProbeLeaks
  <1> QED BY <1>4, <1>5, <1>7, <1>8 DEF SearchInv

LEMMA NextSearch ==
  ASSUME TypeOK, SearchInv, [Next]_vars
  PROVE  SearchInv'
  <1> USE DEF SearchInv
  <1>0. CASE UNCHANGED vars
    <2>1. UNCHANGED problem /\ UNCHANGED <<pc, x, fnorm, nfev, njev, info>>
          /\ UNCHANGED <<start, merit, breaks, faulty>>
          /\ UNCHANGED <<prescription, analysis>>
      BY <1>0 DEF vars, problem, search, shared
    <2>2. maxfev' = maxfev /\ At(x)' = At(x)
      BY <2>1 DEF maxfev, At, problem
    <2>3. StartInv' /\ AcceptedInv'
      BY <2>1 DEF StartInv, AcceptedInv
    <2>4. BudgetInv'
      BY <2>1, <2>2 DEF BudgetInv, BudgetKept
    <2>5. Computed(At(x))' = Computed(At(x))
      BY <2>2 DEF Computed
    <2>6. ShownInv'
      BY <2>1, <2>2, <2>5 DEF ShownInv, ReportsTheAcceptedDesign, NoProbeLeaks
    <2> QED BY <2>3, <2>4, <2>6
  <1>1. CASE GetSolver
    <2>1. UNCHANGED problem /\ UNCHANGED <<x, fnorm, nfev, njev, info>>
          /\ UNCHANGED <<start, merit, breaks, faulty>>
      BY <1>1 DEF GetSolver, problem, search
    <2>2. pc = "getSolver" /\ pc' \in {"solve", "refused"}
          /\ (pc' = "solve" => start \notin breaks)
      BY <1>1 DEF GetSolver
    <2>3. StartInv' /\ AcceptedInv'
      BY <2>1, <2>2 DEF StartInv, AcceptedInv, Unmoved, Looping
    <2>4. BudgetInv'
      BY <2>1, <2>2, ProblemKept DEF BudgetInv, BudgetKept, Looping, TypeOK
    <2>5. ShownInv'
      BY <2>2 DEF ShownInv, ReportsTheAcceptedDesign, NoProbeLeaks
    <2> QED BY <2>3, <2>4, <2>5
  <1>2. CASE Solve
    <2>1. UNCHANGED problem /\ UNCHANGED <<x, fnorm, nfev, njev, info>>
          /\ UNCHANGED <<start, merit, breaks, faulty>>
      BY <1>2 DEF Solve, problem, search
    <2>2. pc = "solve" /\ pc' \in {"refused", "final", "initial"}
      BY <1>2 DEF Solve
    <2>3. StartInv' /\ AcceptedInv'
      BY <2>1, <2>2 DEF StartInv, AcceptedInv, Unmoved, Looping
    <2>4. BudgetInv'
      BY <2>1, <2>2, ProblemKept DEF BudgetInv, BudgetKept, Looping, TypeOK
    <2>5. info' # -99
      BY <2>1, <2>2 DEF StartInv, Unmoved
    <2>6. ShownInv'
      BY <2>2, <2>5 DEF ShownInv, ReportsTheAcceptedDesign, NoProbeLeaks
    <2> QED BY <2>3, <2>4, <2>6
  <1>3. CASE Initial
    <2>1. UNCHANGED problem /\ UNCHANGED <<x, njev, info>>
          /\ UNCHANGED <<start, merit, breaks, faulty>>
      BY <1>3 DEF Initial, problem
    <2>2. /\ pc = "initial" /\ pc' \in {"threw", "base"}
          /\ pc' = "threw" => faulty /\ nfev' = nfev
          /\ pc' = "base" => fnorm' = merit[x] /\ nfev' = 1
      BY <1>3 DEF Initial
    <2>3. x = start /\ nfev = 0 /\ njev = 0 /\ info = 0 /\ x \notin breaks
      BY <2>2 DEF StartInv, AcceptedInv, Unmoved
    <2>4. StartInv' /\ AcceptedInv'
      BY <2>1, <2>2, <2>3 DEF StartInv, AcceptedInv, Unmoved, Looping
    <2>5. BudgetInv'
      BY <2>1, <2>2, <2>3 DEF BudgetInv, BudgetKept, Looping
    <2>6. ShownInv'
      BY <2>2 DEF ShownInv, ReportsTheAcceptedDesign, NoProbeLeaks
    <2> QED BY <2>4, <2>5, <2>6
  <1>4. CASE Base
    BY <1>4, LoopStep DEF Base, StartColumn, FailJacobian
  <1>5. CASE Forward
    BY <1>5, LoopStep DEF Forward
  <1>6. CASE Backward
    BY <1>6, LoopStep DEF Backward
  <1>7. CASE Column
    BY <1>7, LoopStep DEF Column, StartColumn, FailJacobian
  <1>8. CASE Restore
    <2>1. UNCHANGED problem /\ UNCHANGED <<x, fnorm, nfev>>
          /\ UNCHANGED <<start, merit, breaks, faulty>>
      BY <1>8 DEF Restore, problem
    <2>2. pc = "restore" /\ pc' \in {"gradient", "final"} /\ njev' = njev + 1
      BY <1>8 DEF Restore
    <2>3. StartInv' /\ AcceptedInv'
      BY <2>1, <2>2 DEF StartInv, AcceptedInv, Unmoved, Looping
    <2>4. BudgetInv'
      BY <2>1, <2>2, ProblemKept DEF BudgetInv, BudgetKept, Looping, TypeOK, SearchOK
    <2>5. x \notin breaks /\ Evaluate(At(x), x \in breaks)
      BY <1>8, <2>2 DEF Restore, AcceptedInv
    <2>6. (prescription = At(x) /\ analysis = Computed(At(x)))'
      BY <2>1, <2>5, EvaluateShows DEF TypeOK
    <2>7. ShownInv'
      BY <2>2, <2>6 DEF ShownInv, ReportsTheAcceptedDesign, NoProbeLeaks
    <2> QED BY <2>3, <2>4, <2>7
  <1>9. CASE Gradient
    <2>1. UNCHANGED problem /\ UNCHANGED <<x, fnorm, nfev, njev>>
          /\ UNCHANGED <<start, merit, breaks, faulty>>
      BY <1>9 DEF Gradient, problem
    <2>2. pc = "gradient" /\ pc' \in {"final", "trial"} /\ (pc' = "final" => info' = 4)
      BY <1>9 DEF Gradient
    <2>3. StartInv' /\ AcceptedInv'
      BY <2>1, <2>2 DEF StartInv, AcceptedInv, Unmoved, Looping
    <2>4. BudgetInv'
      BY <2>1, <2>2, ProblemKept DEF BudgetInv, BudgetKept, Looping, TypeOK
    <2>5. ShownInv'
      BY <2>2 DEF ShownInv, ReportsTheAcceptedDesign, NoProbeLeaks
    <2> QED BY <2>3, <2>4, <2>5
  <1>10. CASE Accept
    <2>1. PICK p \in Points : Accepts(p) /\ x' = p /\ fnorm' = merit[p]
      BY <1>10 DEF Accept
    <2>2. p \notin breaks
      BY <2>1 DEF Accepts, TypeOK, SearchOK, ProblemOK
    <2>3. pc = "trial" /\ AfterTrial("base")
      BY <1>10 DEF Accept
    <2> QED BY <2>1, <2>2, <2>3, TrialStep
  <1>11. CASE Reject
    BY <1>11, TrialStep DEF Reject
  <1>12. CASE RejectNaN
    BY <1>12, TrialStep DEF RejectNaN
  <1>13. CASE Final
    <2>1. UNCHANGED problem /\ UNCHANGED <<x, fnorm, nfev, njev, info>>
          /\ UNCHANGED <<start, merit, breaks, faulty>>
      BY <1>13 DEF Final, problem, search
    <2>2. pc = "final" /\ x \notin breaks
      BY <1>13 DEF Final, AcceptedInv
    <2>3. pc' = "done" /\ Evaluate(At(x), x \in breaks)
      BY <1>13, <2>2 DEF Final
    <2>4. StartInv' /\ AcceptedInv'
      BY <2>1, <2>2, <2>3 DEF StartInv, AcceptedInv, Unmoved, Looping
    <2>5. BudgetInv'
      BY <2>1, <2>2, <2>3, ProblemKept DEF BudgetInv, BudgetKept, Looping, TypeOK
    <2>6. ShownInv'
      BY <2>1, <2>2, <2>3, EvaluateShows
         DEF ShownInv, ReportsTheAcceptedDesign, NoProbeLeaks, TypeOK
    <2> QED BY <2>4, <2>5, <2>6
  <1> QED BY <1>0, <1>1, <1>2, <1>3, <1>4, <1>5, <1>6, <1>7, <1>8, <1>9, <1>10,
             <1>11, <1>12, <1>13 DEF Next

LEMMA SearchInvariant == Spec => [](TypeOK /\ SearchInv)
  <1>1. Init => TypeOK /\ SearchInv
    BY InitTypes, InitSearch
  <1>2. (TypeOK /\ SearchInv) /\ [Next]_vars => (TypeOK /\ SearchInv)'
    BY NextTypes, NextSearch
  <1> QED BY <1>1, <1>2, PTL DEF Spec

\* The unguarded computation at the end of a solve cannot throw, so only a goal
\* that does not fit its analysis makes a solve that passed its checks throw.
THEOREM OnlyFaultyGoalsThrow == Spec => []ThrowsOnlyForFaultyGoals
  <1>1. SearchInv => ThrowsOnlyForFaultyGoals
    BY DEF SearchInv, StartInv, Unmoved, ThrowsOnlyForFaultyGoals
  <1> QED BY <1>1, SearchInvariant, PTL

\* Whatever was probed, rejected or left half computed, a solve that returns
\* leaves the prescription and the analysis at the design it accepted last, and
\* one that throws had not begun to search.
THEOREM SolveReportsAccepted == Spec => []CallersSeeTheAccepted
  <1>1. ReportsTheAcceptedDesign /\ ThrowsOnlyForFaultyGoals => CallersSeeTheAccepted
    BY DEF CallersSeeTheAccepted
  <1>2. SearchInv => ReportsTheAcceptedDesign
    BY DEF SearchInv, ShownInv
  <1> QED BY <1>1, <1>2, SearchInvariant, OnlyFaultyGoalsThrow, PTL

\* A Jacobian, taken or refused, never leaves a probe behind.
THEOREM JacobianLeavesNoProbe == Spec => []NoProbeLeaks
  BY SearchInvariant, PTL DEF SearchInv, ShownInv

\* The evaluation limit binds from the second evaluation on.
THEOREM EvaluationBudget == Spec => []BudgetKept
  BY SearchInvariant, PTL DEF SearchInv, BudgetInv

-----------------------------------------------------------------------------
(* Refinement.                                                             *)

LEMMA InitDescends == Init => Abstract!Init
  <1> SUFFICES ASSUME Init PROVE Abstract!Init
    OBVIOUS
  <1>1. pc = "getSolver" /\ x \in Points /\ merit \in [Points -> 0 .. Big]
    BY DEF Init
  <1>2. Shown = None /\ Outcome = "starting"
    BY <1>1 DEF Shown, Outcome
  <1> QED BY <1>1, <1>2 DEF Abstract!Init

\* A step within the search that accepts nothing is invisible outside.
LEMMA StepsMapped ==
  ASSUME TypeOK, SearchInv, SearchInv', [Next]_vars
  PROVE  [Abstract!Next]_(Abstract!vars)
  <1> DEFINE Before == {"getSolver", "solve", "initial"}
             During == Looping \union {"final"}
  <1>1. pc \in Before => Outcome = "starting" /\ Shown = None
    BY DEF Outcome, Shown
  <1>2. pc \in During => Outcome = "running" /\ Shown = None
    BY DEF Outcome, Shown, Looping
  <1>3. pc' \in Before => Outcome' = "starting" /\ Shown' = None
    BY DEF Outcome, Shown
  <1>4. pc' \in During => Outcome' = "running" /\ Shown' = None
    BY DEF Outcome, Shown, Looping
  <1>5. pc' \in {"refused", "threw"} => Outcome' = "refused" /\ Shown' = None
    BY DEF Outcome, Shown
  <1>6. pc' = "done" => Outcome' = "returned" /\ Shown' = x'
    BY DEF Outcome, Shown, SearchInv, ShownInv, ReportsTheAcceptedDesign
  <1> DEFINE Sees(a, b, w) == Outcome = a /\ Outcome' = b /\ Shown = None /\ Shown' = w
                              /\ UNCHANGED <<merit, x>>
  <1>7. ASSUME Sees("starting", "starting", None) \/ Sees("running", "running", None)
        PROVE  UNCHANGED Abstract!vars
    BY <1>7 DEF Abstract!vars
  <1>8. ASSUME Sees("starting", "running", None)
        PROVE  Abstract!Begin
    BY <1>8 DEF Abstract!Begin
  <1>9. ASSUME Sees("starting", "refused", None)
        PROVE  Abstract!Refuse
    BY <1>9 DEF Abstract!Refuse
  <1>10. ASSUME Sees("running", "returned", x)
         PROVE  Abstract!Return
    BY <1>10 DEF Abstract!Return
  <1> HIDE DEF Sees
  <1>11. CASE UNCHANGED vars
    <2>1. UNCHANGED <<merit, x, pc, prescription, analysis, n>>
      BY <1>11 DEF vars, problem, shared, search
    <2>2. At(x)' = At(x)
      BY <2>1 DEF At
    <2>3. Computed(At(x))' = Computed(At(x))
      BY <2>2 DEF Computed
    <2>4. Shown' = Shown /\ Outcome' = Outcome
      BY <2>1, <2>2, <2>3 DEF Shown, Outcome
    <2> QED BY <2>1, <2>4 DEF Abstract!vars
  <1>12. CASE GetSolver \/ Solve \/ Initial
    <2>1. UNCHANGED <<merit, x>> /\ pc \in Before
          /\ pc' \in {"solve", "initial", "final", "base", "refused", "threw"}
      BY <1>12 DEF GetSolver, Solve, Initial, problem, search
    <2>2. \/ Sees("starting", "starting", None)
          \/ Sees("starting", "running", None)
          \/ Sees("starting", "refused", None)
      BY <2>1, <1>1, <1>3, <1>4, <1>5 DEF Sees, Looping
    <2> QED BY <2>2, <1>7, <1>8, <1>9 DEF Abstract!Next
  <1>13. CASE Base \/ Forward \/ Backward \/ Column \/ Restore \/ Gradient
              \/ Reject \/ RejectNaN
    <2>1. UNCHANGED <<merit, x>> /\ pc \in Looping
      BY <1>13 DEF Base, Forward, Backward, Column, Restore, Gradient, Reject,
                   RejectNaN, AfterTrial, problem, search, Looping
    <2>2. pc' \in During
      <3>1. CASE Base \/ Column
        BY <3>1 DEF Base, Column, StartColumn, FailJacobian, Looping
      <3>2. CASE Forward \/ Backward \/ Restore \/ Gradient
        BY <3>2 DEF Forward, Backward, Restore, Gradient, Looping
      <3>3. CASE Reject \/ RejectNaN
        BY <3>3 DEF Reject, RejectNaN, AfterTrial, Looping
      <3> QED BY <1>13, <3>1, <3>2, <3>3
    <2>3. Sees("running", "running", None)
      BY <2>1, <2>2, <1>2, <1>4 DEF Sees
    <2> QED BY <2>3, <1>7
  <1>14. CASE Accept
    <2>1. PICK p \in Points : Accepts(p) /\ x' = p
      BY <1>14 DEF Accept
    <2>2. pc = "trial" /\ pc' \in During /\ UNCHANGED merit
      BY <1>14 DEF Accept, AfterTrial, problem, Looping
    <2>3. merit[p] < merit[x]
      BY <2>1, <2>2 DEF Accepts, SearchInv, AcceptedInv, Looping
    <2>4. Outcome = "running" /\ Outcome' = "running" /\ Shown' = Shown
      BY <2>2, <1>2, <1>4 DEF Looping
    <2> QED BY <2>1, <2>2, <2>3, <2>4 DEF Abstract!Next, Abstract!Improve
  <1>15. CASE Final
    <2>1. UNCHANGED <<merit, x>> /\ pc = "final" /\ pc' = "done"
      BY <1>15 DEF Final, problem, search, SearchInv, AcceptedInv
    <2>2. Sees("running", "returned", x)
      BY <2>1, <1>2, <1>6 DEF Sees
    <2> QED BY <2>2, <1>10 DEF Abstract!Next
  <1> QED BY <1>11, <1>12, <1>13, <1>14, <1>15 DEF Next

\* Seen from outside a solve is a descent, whatever fails inside it: accepted
\* designs strictly improve, and a return shows the last of them.
THEOREM SolveImplementsDescent == Spec => ImplementsDescent
  <1>1. Init => Abstract!Init
    BY InitDescends
  <1>2. (TypeOK /\ SearchInv) /\ (TypeOK /\ SearchInv)' /\ [Next]_vars
          => [Abstract!Next]_(Abstract!vars)
    BY StepsMapped
  <1> QED BY <1>1, <1>2, SearchInvariant, PTL DEF Spec, ImplementsDescent, Abstract!Spec

-----------------------------------------------------------------------------
(* Difference quotients.                                                   *)

Halving == [0 .. MAX_JACOBIAN_STEP_REDUCTIONS -> 1 .. FullStep]
Halvings(h) ==
  h[0] = FullStep /\ \A k \in 1 .. MAX_JACOBIAN_STEP_REDUCTIONS : h[k - 1] = 2 * h[k]

\* The step in use is the one its number of halvings leaves, and the values at
\* hand are those of the probes that used it.
StepInv(h) ==
  pc \in {"forward", "backward", "column"} =>
    /\ step = h[attempt]
    /\ pc # "forward" => forward.off = step
    /\ pc = "column" => backward.off = -step /\ forward.ok \union backward.ok = Goals

LEMMA ColumnStarts ==
  ASSUME NEW h \in Halving, Halvings(h), NEW v, StartColumn(v) \/ FailJacobian
  PROVE  StepInv(h)'
  <1>1. pc' \in {"forward", "restore"} /\ (pc' = "forward" => step' = h[0] /\ attempt' = 0)
    BY DEF StartColumn, FailJacobian, Halvings
  <1> QED BY <1>1 DEF StepInv

LEMMA NextSteps ==
  ASSUME NEW h \in Halving, Halvings(h), TypeOK, StepInv(h), [Next]_vars
  PROVE  StepInv(h)'
  <1> USE BoundsAssumption
  <1>1. CASE Base
    BY <1>1, ColumnStarts DEF Base
  <1>2. CASE Forward
    <2>1. /\ pc = "forward" /\ pc' = "backward" /\ forward'.off = step
          /\ step' = step /\ attempt' = attempt
      BY <1>2 DEF Forward
    <2> QED BY <2>1 DEF StepInv
  <1>3. CASE Backward
    <2>1. /\ pc = "backward" /\ forward' = forward /\ backward'.off = -step
          /\ step' = StepAfter(backward') /\ Goals' = Goals
      BY <1>3 DEF Backward, problem
    <2>2. CASE Retries(backward')
      <3>1. pc' = "forward" /\ attempt' = attempt + 1 /\ step' = step \div 2
        BY <1>3, <2>1, <2>2 DEF Backward, StepAfter
      <3>2. attempt + 1 \in 1 .. MAX_JACOBIAN_STEP_REDUCTIONS
        BY <2>2 DEF Retries, TypeOK, JacobianOK
      <3>3. h[(attempt + 1) - 1] = 2 * h[attempt + 1]
        BY <3>2 DEF Halvings
      <3>4. (attempt + 1) - 1 = attempt /\ h[attempt + 1] \in 1 .. FullStep
        BY <3>2 DEF Halving, TypeOK, JacobianOK
      <3>5. step = 2 * h[attempt + 1]
        BY <2>1, <3>3, <3>4 DEF StepInv
      <3>6. step \div 2 = h[attempt + 1]
        BY <3>4, <3>5
      <3> QED BY <3>1, <3>6 DEF StepInv
    <2>3. CASE ~Retries(backward')
      <3>1. /\ step' = step /\ attempt' = attempt
            /\ success' = EveryResidualHasPerturbedValue(forward, backward')
            /\ pc' = IF success' THEN "column" ELSE "restore"
        BY <1>3, <2>1, <2>3 DEF Backward, StepAfter
      <3>2. pc' = "column" => forward'.ok \union backward'.ok = Goals
        BY <2>1, <3>1 DEF EveryResidualHasPerturbedValue
      <3> QED BY <2>1, <3>1, <3>2 DEF StepInv
    <2> QED BY <2>2, <2>3
  <1>4. CASE Column
    BY <1>4, ColumnStarts DEF Column
  <1>5. CASE GetSolver \/ Solve \/ Initial \/ Restore \/ Gradient \/ Final
    <2>1. pc' \notin {"forward", "backward", "column"}
      BY <1>5 DEF GetSolver, Solve, Initial, Restore, Gradient, Final
    <2> QED BY <2>1 DEF StepInv
  <1>6. CASE Accept \/ Reject \/ RejectNaN
    <2>1. pc' \notin {"forward", "backward", "column"}
      BY <1>6 DEF Accept, Reject, RejectNaN, AfterTrial
    <2> QED BY <2>1 DEF StepInv
  <1>7. CASE UNCHANGED vars
    BY <1>7 DEF vars, problem, jac, StepInv
  <1> QED BY <1>1, <1>2, <1>3, <1>4, <1>5, <1>6, <1>7 DEF Next

\* Every derivative is divided by the distance between the two designs its
\* values come from: buildJacobian after any halvings and with either side of
\* a difference unusable.
THEOREM QuotientsMatchTheirProbes == Spec => QuotientsSpanTheirProbes
  <1> PICK h \in Halving : Halvings(h)
    BY HalvingAssumption DEF Halving, Halvings
  <1>1. Init => StepInv(h)
    BY DEF Init, StepInv
  <1> DEFINE Spans(i) ==
        LET q == column'[i]
        IN  /\ q.over = q.to - q.from /\ q.over > 0
            /\ q.to # 0 => i \in forward.ok /\ q.to = forward.off
            /\ q.from # 0 => i \in backward.ok /\ q.from = backward.off
  <1>2. ASSUME TypeOK, StepInv(h), Column, NEW i \in Goals PROVE Spans(i)
    <2>1. /\ column'[i] = Quotient(i) /\ pc = "column"
      BY <1>2 DEF Column
    <2>2. /\ step = h[attempt] /\ forward.off = step /\ backward.off = -step
          /\ i \in forward.ok \union backward.ok
      BY <1>2, <2>1 DEF StepInv
    <2>3. step \in 1 .. FullStep
      BY <1>2, <2>2, BoundsAssumption DEF Halving, TypeOK, JacobianOK
    <2> PICK s : s = step
      OBVIOUS
    <2>4. s \in Int /\ s > 0 /\ 2 * s > 0 /\ 2 * s = s - (-s) /\ s = s - 0 /\ s = 0 - (-s)
      BY <2>3, BoundsAssumption
    <2>5. Quotient(i) =
            IF i \in forward.ok /\ i \in backward.ok
              THEN [from |-> -s, to |-> s, over |-> 2 * s]
            ELSE IF i \in forward.ok
              THEN [from |-> 0, to |-> s, over |-> s]
              ELSE [from |-> -s, to |-> 0, over |-> s]
      BY <2>2 DEF Quotient
    <2> QED BY <2>1, <2>2, <2>4, <2>5
  <1>3. TypeOK /\ StepInv(h) /\ [Next]_vars
          => [\A i \in Goals : column' # column => Spans(i)]_vars
    <2> SUFFICES ASSUME TypeOK, StepInv(h), Next,
                        NEW i \in Goals, column' # column
                 PROVE  Spans(i)
      OBVIOUS
    <2>1. Column
      BY DEF Next, GetSolver, Solve, Initial, Base, Forward, Backward, Restore, Gradient,
             Accept, Reject, RejectNaN, AfterTrial, Final, jac
    <2> QED BY <1>2, <2>1
  <1>4. TypeOK /\ StepInv(h) /\ [Next]_vars => StepInv(h)'
    BY NextSteps
  <1> HIDE DEF Spans
  <1>5. Spec => [][\A i \in Goals : column' # column => Spans(i)]_vars
    BY <1>1, <1>3, <1>4, SolveTypeCorrect, PTL DEF Spec
  <1> QED BY <1>5 DEF QuotientsSpanTheirProbes, Spans
=============================================================================
