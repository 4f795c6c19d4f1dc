------------------------------- MODULE VigCalc -------------------------------
(***************************************************************************)
(* VigCalc::calc_vignetted_ray and calc_vignetted_ray_by_bisection: the    *)
(* search, along a half axis of the pupil, for the ray the lens just lets  *)
(* through.  Coordinate Unit is the edge of the unvignetted pupil; the     *)
(* vignetting factor returned is 1 - rel_p1 / Unit.                        *)
(*                                                                         *)
(* The search traces rays with RayTrace and moves to the edge of whichever *)
(* surface stopped the last one.  The inner root finder                    *)
(* (iterate_pupil_ray over SecantSolver) works on |y| at that surface, so  *)
(* the edge it finds is the one on the side of the axis where it started.  *)
(***************************************************************************)
EXTENDS RayTrace

CONSTANTS
  Unit,              \* the edge of the pupil
  EdgeIterations,    \* max_iter_count of the search along edges
  BisectIterations,  \* and of the bisection
  MaxSurfaces,       \* largest number of surfaces after the object
  Images,            \* the surfaces that can be the image
  Coords             \* where a root finder that does not converge can end

\* The step of the bisection after k halvings.
step_size(k) == Unit \div 2^k

ASSUME SearchAssumption ==
  /\ Unit \in Nat \ {0} /\ EdgeIterations \in Nat /\ BisectIterations \in Nat
  /\ MaxSurfaces \in Nat /\ Images \subseteq Interfaces /\ Coords \subseteq Int

\* The unit of coordinates is fine enough for every step.
ASSUME HalvingAssumption ==
  /\ step_size(0) = Unit
  /\ \A k \in 0 .. BisectIterations : step_size(k) \in Nat
  /\ \A k \in 0 .. BisectIterations - 1 : step_size(k) = 2 * step_size(k + 1)

None == 0   \* no surface: the object neither stops nor limits a ray

VARIABLES
  bisecting,        \* which of the two searches
  stop,             \* the aperture stop, None when it floats
  rel_p1,           \* the coordinate to try next
  clip_indx,        \* the surface whose edge rel_p1 was aimed at
  iter_count, still_iterating,
  pc

search == <<bisecting, stop, rel_p1, clip_indx, iter_count, still_iterating>>
vars == <<ifcs, trace, search, pc>>

Surfaces == 1 .. image

-----------------------------------------------------------------------------
(* Fn_r_pupil_coordinate and R_Pupil_Coordinate: the radius at a surface *)

\* The ray, traced without checking apertures, has a point at surface s.
Evaluable(s, q) == Reaches(s, q, FALSE) /\ ~Misses(s, q)

\* find_edge: three bisections between the chief ray, at 0, and q.
Halve(s) ==
  [bracket \in [a : Int, b : Int] |->
     LET c == bracket.a + (bracket.b - bracket.a) \div 2
     IN  IF Evaluable(s, c) THEN [bracket EXCEPT !.a = c]
                            ELSE [bracket EXCEPT !.b = c]]

find_edge(s, q) == Halve(s)[Halve(s)[Halve(s)[[a |-> 0, b |-> q]]]].a

\* find_edge has no value to return when the ray fails all the way in.
EdgeKnown(s, q) == Evaluable(s, find_edge(s, q))

-----------------------------------------------------------------------------
(* iterate_pupil_ray *)

\* The zero of |y| - r on the side of the surface's axis the search starts.
EdgeFrom(s, from) ==
  LET c == ifcs[s].clear IN IF 2 * from >= c.lo + c.hi THEN c.hi ELSE c.lo

\* 0.9 of a coordinate is some coordinate nearer to the chief ray.
Inward(q) == {c \in Coords : (0 < c /\ c < q) \/ (q < c /\ c < 0)}

\* A ray that fails during the search ends it at 0.9 of its coordinate, and
\* the last iterate of a search that did not converge is used as it is.
PupilRays(s, from) ==
  LET edge == EdgeFrom(s, from)
  IN  IF ~ifcs[s].steady
        THEN Coords
        ELSE IF Evaluable(s, edge) THEN {edge} ELSE Inward(edge)

\* The second point of the search is a fraction of the first: starting on
\* the chief ray, both are 0 and find_root refuses.
Iterate(s, from) ==
  IF from = 0
    THEN pc' = "threw" /\ UNCHANGED <<rel_p1, clip_indx>>
    ELSE /\ rel_p1' \in PupilRays(s, from)
         /\ clip_indx' = s /\ pc' = "loop"

-----------------------------------------------------------------------------
(* calc_vignetted_ray *)

Init ==
  /\ ifcs \in UNION {[1 .. k -> Interfaces] : k \in 2 .. MaxSurfaces}
  /\ ifcs[image] \in Images
  /\ pupil = Unit /\ check = TRUE /\ surf = 0 /\ ray = <<>> /\ opl = {}
  /\ status = "tracing"
  /\ bisecting \in BOOLEAN
  /\ stop \in 0 .. image - 1
  /\ rel_p1 = Unit /\ clip_indx = None
  /\ iter_count = 0 /\ still_iterating = TRUE
  /\ pc = "loop"

max_iter_count == IF bisecting THEN BisectIterations ELSE EdgeIterations

KeepGoing == still_iterating /\ iter_count < max_iter_count

\* Mutant: the iterations are not counted.
TryRayUncounted ==
  /\ pc = "loop" /\ KeepGoing
  /\ Begin(rel_p1, TRUE)
  /\ pc' = "tracing"
  /\ UNCHANGED <<ifcs, search>>

\* Count, and trace_base at rel_p1 with check_apertures.
TryRay ==
  /\ pc = "loop" /\ KeepGoing
  /\ iter_count' = iter_count + 1
  /\ Begin(rel_p1, TRUE)
  /\ pc' = "tracing"
  /\ UNCHANGED <<ifcs, bisecting, stop, rel_p1, clip_indx, still_iterating>>

Leave ==
  /\ pc = "loop" /\ ~KeepGoing
  /\ pc' = "done"
  /\ UNCHANGED <<ifcs, trace, search>>

Tracing ==
  /\ pc = "tracing" /\ TraceStep
  /\ UNCHANGED <<ifcs, search, pc>>

Ended(how) == pc = "tracing" /\ ~bisecting /\ status \in how

Failures == {"missed", "blocked", "tir"}

\* A ray through the edge of the surface that stopped an earlier one.
PassedAtLimit ==
  /\ Ended({"traced"}) /\ clip_indx # None
  /\ still_iterating' = FALSE /\ pc' = "loop"
  /\ UNCHANGED <<ifcs, trace, bisecting, stop, rel_p1, clip_indx, iter_count>>

\* The edge of the pupil is let through: go to the edge of the stop.
PassedFirstTime ==
  /\ Ended({"traced"}) /\ clip_indx = None /\ stop # None
  /\ Iterate(stop, rel_p1)
  /\ UNCHANGED <<ifcs, trace, bisecting, stop, iter_count, still_iterating>>

PassedWithoutStop ==
  /\ Ended({"traced"}) /\ clip_indx = None /\ stop = None
  /\ still_iterating' = FALSE /\ pc' = "loop"
  /\ UNCHANGED <<ifcs, trace, bisecting, stop, rel_p1, clip_indx, iter_count>>

\* Mutant: any ray stopped after the first is taken for the limiting ray.
BlockedAfterLimit ==
  /\ Ended(Failures) /\ clip_indx # None
  /\ still_iterating' = FALSE /\ pc' = "loop"
  /\ UNCHANGED <<ifcs, trace, bisecting, stop, rel_p1, clip_indx, iter_count>>

\* Mutant: the limiting ray is pulled in after it was traced.
BlockedAtLimitPulledIn ==
  /\ Ended(Failures) /\ surf = clip_indx
  /\ still_iterating' = FALSE /\ pc' = "loop"
  /\ rel_p1' \in Inward(rel_p1)
  /\ UNCHANGED <<ifcs, trace, bisecting, stop, clip_indx, iter_count>>

\* Stopped by the surface it was aimed at: taken for the limiting ray.
BlockedAtLimit ==
  /\ Ended(Failures) /\ surf = clip_indx
  /\ still_iterating' = FALSE /\ pc' = "loop"
  /\ UNCHANGED <<ifcs, trace, bisecting, stop, rel_p1, clip_indx, iter_count>>

BlockedElsewhere ==
  /\ Ended({"blocked", "tir"}) /\ surf # clip_indx
  /\ Iterate(surf, rel_p1)
  /\ UNCHANGED <<ifcs, trace, bisecting, stop, iter_count, still_iterating>>

MissedElsewhere ==
  /\ Ended({"missed"}) /\ surf # clip_indx
  /\ IF EdgeKnown(surf, rel_p1)
       THEN Iterate(surf, find_edge(surf, rel_p1))
       ELSE pc' = "threw" /\ UNCHANGED <<rel_p1, clip_indx>>
  /\ UNCHANGED <<ifcs, trace, bisecting, stop, iter_count, still_iterating>>

-----------------------------------------------------------------------------
(* calc_vignetted_ray_by_bisection *)

BisectPassed ==
  /\ pc = "tracing" /\ bisecting /\ status = "traced"
  /\ rel_p1' = rel_p1 + step_size(iter_count) /\ pc' = "loop"
  /\ UNCHANGED <<ifcs, trace, bisecting, stop, clip_indx, iter_count,
                 still_iterating>>

BisectBlocked ==
  /\ pc = "tracing" /\ bisecting /\ status \in Failures
  /\ rel_p1' = rel_p1 - step_size(iter_count) /\ clip_indx' = surf /\ pc' = "loop"
  /\ UNCHANGED <<ifcs, trace, bisecting, stop, iter_count, still_iterating>>

Returned == pc \in {"done", "threw"} /\ UNCHANGED vars

Next ==
  \/ TryRay \/ Leave \/ Tracing
  \/ PassedAtLimit \/ PassedFirstTime \/ PassedWithoutStop
  \/ BlockedAtLimit \/ BlockedElsewhere \/ MissedElsewhere
  \/ BisectPassed \/ BisectBlocked
  \/ Returned

Spec == Init /\ [][Next]_vars /\ WF_vars(Next)

-----------------------------------------------------------------------------
(* Properties *)

TypeOK ==
  /\ TraceTypeOK
  /\ bisecting \in BOOLEAN /\ still_iterating \in BOOLEAN
  /\ stop \in 0 .. image - 1
  /\ rel_p1 \in Int
  /\ clip_indx \in 0 .. image
  /\ iter_count \in Nat
  /\ pc \in {"loop", "tracing", "done", "threw"}

\* The search along edges returns the ray its vignetting factor describes,
\* and names the surface that limits it, unless it used up its iterations:
\* then rel_p1 is a coordinate no ray was traced at.
ReturnsItsRay ==
  pc = "done" /\ ~bisecting =>
    \/ still_iterating /\ iter_count = EdgeIterations
    \/ /\ ~still_iterating /\ pupil = rel_p1
       /\ status = "traced" \/ (status \in Failures /\ surf = clip_indx)

Edges(s) == {ifcs[s].clear.lo, ifcs[s].clear.hi}

\* Clear apertures limit the beam, not the shape of the surfaces: the rays
\* through the edges trace to the image when apertures are not checked.
AperturesLimit ==
  /\ \A s \in Surfaces : ifcs[s].steady
  /\ \A s \in 1 .. image - 1, t \in Surfaces :
       \A e \in Edges(s) : ~Misses(t, e) /\ ~Reflects(t, e)
  /\ ~Misses(image, Unit) /\ ~Reflects(image, Unit)

\* In such a lens the ray the search settles on passes every aperture and
\* no ray beyond it does; without a stop the whole pupil is the limit.
FindsLimitingRay ==
  pc = "done" /\ ~bisecting /\ ~still_iterating /\ AperturesLimit =>
    /\ Traces(rel_p1)
    /\ \/ stop = None /\ rel_p1 = Unit
       \/ \A q \in Coords : Traces(q) => q <= rel_p1
       \/ \A q \in Coords : Traces(q) => q >= rel_p1

\* The bisection keeps the limit between a ray that traces and one that
\* does not, one step either side, when the chief ray gets through.
BisectionBrackets ==
  bisecting /\ pc \in {"loop", "done"} /\ Traces(0) /\ ~Traces(2 * Unit) =>
    /\ Traces(rel_p1 - step_size(iter_count))
    /\ ~Traces(rel_p1 + step_size(iter_count))

\* Every search ends, whatever the lens does to the rays.
Terminates == <>(pc \in {"done", "threw"})
=============================================================================
