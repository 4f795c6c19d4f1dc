------------------------------- MODULE Aiming -------------------------------
(***************************************************************************)
(* Trace::aim_chief_ray and its reverse twin in eval_real_image_ht: how a  *)
(* chief ray is aimed at the stop.  A wide-angle field searches along the  *)
(* axis (EnpSearch); any other finds the point of the entrance pupil, by   *)
(* the secant method when field and target are on the y axis, by hybrd     *)
(* otherwise.  What the search for a point visits are the Points of Hybrd. *)
(***************************************************************************)
EXTENDS EnpSearch, Hybrd

VARIABLES
  how,      \* which search applies
  partial   \* the caller got a ray that failed, aimed at the origin

vars == <<enp_vars, hybrd_vars, how, partial>>

Init ==
  /\ how \in {"wide", "one", "two", "reverse one", "reverse two", "floating"}
  /\ partial = FALSE
  /\ EnpInit /\ (how # "wide" => lens = CHOOSE l \in Lenses : TRUE)
  /\ HybrdInit /\ (how \in {"wide", "floating"} => norm = [p \in Points |-> 0])

Wide == how = "wide" /\ EnpNext /\ UNCHANGED <<hybrd_vars, how, partial>>

\* For a path instead of a model, as eval_real_image_ht reverses it.
get_2d_solution_raw == how = "reverse two" /\ HybrdNext

TwoDimensional ==
  /\ (how = "two" /\ HybrdNext) \/ get_2d_solution_raw
  /\ UNCHANGED <<enp_vars, how, partial>>

\* Wherever the secant method ends is taken, the ray is the last one it
\* traced; a ray that ends before the stop throws.
FindRoot ==
  /\ at = "start"
  /\ \E p, q \in Points : last' = q /\
       IF norm[q] = Dark THEN at' = "threw" /\ UNCHANGED x
       ELSE at' = "secant" /\ x' = p

get_1d_solution_raw == how = "reverse one" /\ FindRoot

OneDimensional ==
  /\ (how = "one" /\ FindRoot) \/ get_1d_solution_raw
  /\ UNCHANGED <<enp_vars, norm, monitors, jeval, nfev, info, how, partial>>

\* iterate_ray without a stop: the target is the start coordinate.
Floating ==
  /\ how = "floating" /\ at = "start" /\ at' = "secant"
  /\ UNCHANGED <<enp_vars, norm, x, monitors, jeval, nfev, info, last, how, partial>>

\* iterate_ray_raw: the exception becomes the origin with a partial ray.
FromImage == how \in {"reverse one", "reverse two"}

CatchReverse ==
  /\ FromImage /\ at = "threw" /\ ~partial
  /\ partial' = TRUE /\ x' = Origin
  /\ UNCHANGED <<enp_vars, norm, monitors, jeval, nfev, info, last, at, how>>

Aimed ==
  /\ IF how = "wide" THEN pc = "done" /\ aims = MaxAims
     ELSE at \in {"aimed", "secant", "threw"} /\ (FromImage /\ at = "threw" => partial)
  /\ UNCHANGED vars

Next == Wide \/ TwoDimensional \/ OneDimensional \/ Floating \/ CatchReverse \/ Aimed

Spec == Init /\ [][Next]_vars /\ WF_hybrd_vars(TwoDimensional)

\* The hybrid method stops, by convergence, by its monitors or at its limit
\* of calls, whatever the rays do.
HybridStops == how \in {"two", "reverse two"} ~> at \in {"aimed", "threw"}

\* No step of the hybrid method leaves the point it has for one whose ray
\* lands further from the target.
HybridNeverWorse == [][TwoDimensional => norm'[x'] <= norm[x]]_vars

TypeOK == EnpTypeOK /\ HybrdTypeOK /\ partial \in BOOLEAN
=============================================================================
