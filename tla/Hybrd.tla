-------------------------------- MODULE Hybrd --------------------------------
(***************************************************************************)
(* MinPack::hybrd, Powell's hybrid method, as the two-dimensional ray      *)
(* aiming drives it (hybrd1): a Jacobian by differences, trial steps in a  *)
(* trust region that shrinks and grows with the reduction they bring,      *)
(* rank-one updates of the Jacobian between two computations of it, and    *)
(* five ways to stop.                                                      *)
(*                                                                         *)
(* A point stands for a start coordinate, and norm[p] for how far from     *)
(* the target the ray through p lands: 0 on it, 1 within the tolerance of  *)
(* the caller, Dark when the ray does not get there.  The step dogleg      *)
(* proposes and the reduction its linear model predicts are any; the step  *)
(* bound and its two convergence tests may hold after any trial.           *)
(***************************************************************************)
EXTENDS Integers

CONSTANTS
  Points,    \* the coordinates the method visits
  MaxNorm,   \* bound on distances
  maxfev,    \* 200 * (n + 1) calls of the function
  Slow1,     \* iterations without a reduction of a thousandth: 10
  Slow2,     \* Jacobians without a reduction of a tenth: 5
  Probe,     \* a point next to one of Points, tried for the Jacobian
  Origin     \* the start of every search, one of Points

Dark == MaxNorm + 1
n == 2

ASSUME HybrdAssumption ==
  /\ MaxNorm \in Nat /\ maxfev \in Nat \ {0}
  /\ Slow1 \in Nat \ {0} /\ Slow2 \in Nat \ {0}
  /\ Probe \notin Points /\ Origin \in Points

VARIABLES
  norm,             \* what the ray through each point does
  x,                \* the point accepted last
  ncsuc, ncfail,    \* steps in a row that helped, or did not
  nslow1, nslow2,   \* progress monitors
  jeval,            \* no step has been tried since the Jacobian was computed
  nfev, info,
  last,             \* the point whose ray rr holds
  at                \* where in hybrd and its caller control is

monitors == <<ncsuc, ncfail, nslow1, nslow2>>
hybrd_vars == <<norm, x, monitors, jeval, nfev, info, last, at>>

HybrdInit ==
  /\ norm \in [Points -> 0 .. Dark]
  /\ x = Origin /\ jeval = FALSE
  /\ ncsuc = 0 /\ ncfail = 0 /\ nslow1 = 0 /\ nslow2 = 0
  /\ nfev = 0 /\ info = 0 /\ last = Probe /\ at = "start"

-----------------------------------------------------------------------------
(* Every evaluation leaves its ray in rr; one that ends before the stop     *)
(* throws through the solver.                                               *)

\* A counter stops counting where no test tells its values apart.
Count(c, k, top) == IF c + k < top THEN c + k ELSE top

Evaluate(p) == last' = p /\ nfev' = Count(nfev, 1, maxfev)

Throws == at' = "threw" /\ UNCHANGED <<x, monitors, jeval, info>>

First ==
  /\ at = "start" /\ Evaluate(x)
  /\ IF norm[x] = Dark THEN Throws
     ELSE at' = "jacobian" /\ UNCHANGED <<x, monitors, jeval, info>>
  /\ UNCHANGED norm

\* fdjac1, for a full matrix: one probe per coordinate.
Jacobian ==
  /\ at = "jacobian"
  /\ last' = Probe /\ nfev' = Count(nfev, n, maxfev)
  /\ jeval' = TRUE /\ at' = "trial"
  /\ UNCHANGED <<norm, x, monitors, info>>

JacobianThrows ==
  /\ at = "jacobian"
  /\ last' = Probe /\ \E k \in 1 .. n : nfev' = Count(nfev, k, maxfev)
  /\ Throws /\ UNCHANGED norm

-----------------------------------------------------------------------------
(* A trial step *)

\* Classes of actred, the actual reduction: below the thousandth and the
\* tenth the monitors look at, or not positive.
Reductions(p) ==
  IF norm[p] >= norm[x] THEN {"none"}
  ELSE IF norm[p] = 0 THEN {"tenth"}
  ELSE {"some", "thousandth", "tenth"}

\* Classes of ratio.  It has the sign of actred and is not smaller, but is 0
\* when the model predicted no reduction.
Ratios(actred) ==
  CASE actred = "none" -> {"rejected"}
    [] actred = "tenth" -> {"rejected", "fair", "good"}
    [] OTHER -> {"rejected", "low", "fair", "good"}

\* Mutant: the step is taken whatever it brought.
AcceptedAnyway(ratio) == TRUE

Accepted(ratio) == ratio # "rejected"

\* Mutant: the monitors are not consulted, nor is the number of calls.
InfosUnbounded(fnorm, converged, stuck, fev, slow1, slow2) ==
  IF converged \/ fnorm = 0 THEN 1 ELSE IF stuck THEN 3 ELSE 0

\* The five ways to stop, later ones overriding earlier ones.
Infos(fnorm, converged, stuck, fev, slow1, slow2) ==
  IF converged \/ fnorm = 0 THEN 1
  ELSE IF slow1 = Slow1 THEN 5
  ELSE IF slow2 = Slow2 THEN 4
  ELSE IF stuck THEN 3
  ELSE IF fev >= maxfev THEN 2 ELSE 0

TrialThrows ==
  /\ at = "trial"
  /\ \E p \in Points : norm[p] = Dark /\ Evaluate(p)
  /\ Throws /\ UNCHANGED norm

Trial ==
  /\ at = "trial"
  /\ \E p \in Points, converged, stuck \in BOOLEAN :
     /\ norm[p] # Dark /\ Evaluate(p)
     /\ \E actred \in Reductions(p) : \E ratio \in Ratios(actred) :
        LET next == IF Accepted(ratio) THEN p ELSE x
            helps == ratio \in {"fair", "good"}
        IN
        /\ x' = next
        /\ ncfail' = IF helps THEN 0 ELSE Count(ncfail, 1, 3)
        /\ ncsuc' = IF helps THEN Count(ncsuc, 1, 2) ELSE 0
        /\ nslow1' = IF actred \in {"thousandth", "tenth"} THEN 0
                     ELSE Count(nslow1, 1, Slow1 + 1)
        /\ nslow2' = IF actred = "tenth" THEN 0
                     ELSE IF jeval THEN Count(nslow2, 1, Slow2 + 1) ELSE nslow2
        /\ info' = Infos(norm[next], converged, stuck, nfev', nslow1', nslow2')
        /\ at' = IF info' # 0 THEN "return"
                 ELSE IF ncfail' = 2 THEN "jacobian" ELSE "trial"
        /\ jeval' = (jeval /\ at' # "trial")
  /\ UNCHANGED norm

-----------------------------------------------------------------------------
(* hybrd1 and get_2d_solution: the last ray traced is a probe or a rejected *)
(* trial, so the solution is traced once more before it is judged.          *)

\* What hybrd1 makes of the ways hybrd stops.
hybrd1(code) == IF code = 5 THEN 4 ELSE code

\* Mutant: the solution is not traced again.
JudgeLastRay ==
  /\ at = "return"
  /\ info' = hybrd1(info)
  /\ at' = IF info' \in 1 .. 4 /\ norm[x] <= 1 THEN "aimed" ELSE "threw"
  /\ UNCHANGED <<norm, x, monitors, jeval, nfev, last>>

Judge ==
  /\ at = "return"
  /\ info' = hybrd1(info)
  /\ last' = x
  /\ at' = IF info' \in 1 .. 4 /\ norm[x] <= 1 THEN "aimed" ELSE "threw"
  /\ UNCHANGED <<norm, x, monitors, jeval, nfev>>

HybrdNext == First \/ Jacobian \/ JacobianThrows \/ TrialThrows \/ Trial \/ Judge

-----------------------------------------------------------------------------
(* Properties *)

HybrdTypeOK ==
  /\ norm \in [Points -> 0 .. Dark] /\ x \in Points
  /\ jeval \in BOOLEAN
  /\ ncsuc \in 0 .. 2 /\ ncfail \in 0 .. 3
  /\ nslow1 \in 0 .. Slow1 + 1 /\ nslow2 \in 0 .. Slow2 + 1 /\ nfev \in 0 .. maxfev /\ info \in 0 .. 5 /\ last \in Points \union {Probe}
  /\ at \in {"start", "jacobian", "trial", "return", "aimed", "secant", "threw"}

\* The ray that comes with a solution is the one through it, and it lands
\* on the target; however many Jacobians and rejected trials came after.
AimedRayIsReturned == at = "aimed" => last = x /\ norm[x] <= 1
=============================================================================
