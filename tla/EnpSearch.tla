------------------------------ MODULE EnpSearch ------------------------------
(***************************************************************************)
(* Wideangle::find_real_enp: where, along the axis, the chief ray of a     *)
(* wide-angle field has to be aimed so that it meets the centre of the     *)
(* stop.  Rays are tried in steps from the paraxial entrance pupil until   *)
(* two of them straddle the stop centre; the secant method, and Brent's    *)
(* when it does not converge, finish.  A field is aimed again whenever     *)
(* the model is updated, and the pupil it already has is tried first.      *)
(*                                                                         *)
(* Positions are integers.  A lens lets the rays through an interval of    *)
(* them reach the image; any other ray fails, at the first surface or      *)
(* further in.  Rays meet the stop at a height with one root or two.       *)
(***************************************************************************)
EXTENDS Integers

CONSTANTS
  Lenses,        \* the lenses, for the direction of one field
  Step,          \* one step of the search
  Divisions,     \* steps from the paraxial pupil to the first surface: 16
  MaxTrials,     \* rays tried before giving up: 64
  EdgeHalvings,  \* bisections towards the edge of the beam: 6
  Samples,       \* rays tried around a single one that traced: 8
  MaxAims        \* bound: how often the field is aimed

ASSUME StepAssumption ==
  /\ Step \in Nat \ {0} /\ Divisions \in Nat \ {0}
  /\ MaxTrials \in Nat /\ EdgeHalvings \in Nat /\ MaxAims \in Nat \ {0}
  /\ Samples \in Nat \ {0, 1} /\ (2 * Step) % (Samples - 1) = 0

\* Positions are in units no finer than find_edge resolves.
ASSUME UnitAssumption ==
  \E h \in [0 .. EdgeHalvings -> 1 .. Step] :
    /\ h[0] = Step /\ h[EdgeHalvings] = 1
    /\ \A k \in 1 .. EdgeHalvings : h[k - 1] <= 2 * h[k]

ASSUME LensAssumption ==
  \A l \in Lenses :
    /\ {l.lo, l.hi, l.front_lo, l.front_hi, l.root, l.root2} \subseteq Int
    /\ {l.deep, l.bent, l.axial} \subseteq BOOLEAN

CONSTANT None   \* std::nullopt
ASSUME NoneAssumption == None \notin Int

VARIABLES
  lens,
  fld_z_enp,                    \* what the field keeps from the last aiming
  z_enp, del_z,                 \* the position to try and the step to the next
  start_z, prev_z, end_z,       \* positions of rays that traced
  direction, keep_going,
  first_surf_misses, trial, successes,
  bracket,                      \* the interval and estimate for the root finders
  result, reused,               \* what is returned, and that it is fld_z_enp
  aims, pc

found == <<start_z, prev_z, end_z>>
counts == <<first_surf_misses, trial, successes>>
search == <<z_enp, del_z, found, direction, keep_going, counts>>
enp_vars == <<lens, fld_z_enp, search, bracket, result, reused, aims, pc>>

enp_dist == Divisions * Step

Abs(x) == IF x < 0 THEN -x ELSE x

-----------------------------------------------------------------------------
(* enp_z_coordinate and the functions the root finders evaluate *)

Passes(z) == z \in lens.lo .. lens.hi
MissesFirst(z) == z \notin lens.front_lo .. lens.front_hi

\* A ray that fails may have met the stop before.
ReachesStop(z) == Passes(z) \/ (lens.deep /\ ~MissesFirst(z))

\* Where the ray meets the stop, if it gets there.
Height(z) == (z - lens.root) * (IF lens.bent THEN z - lens.root2 ELSE 1)

\* Eval_Z_Enp_Function: the height of a ray that fails is zero.
Eval(z) == IF Passes(z) THEN Height(z) ELSE 0

Straddle(y, z) == Height(y) * Height(z) < 0

\* Mutant: the edge is looked for at the far end only.
find_edgeUnhalved(z, w) == IF Passes(w) THEN w ELSE z

\* find_edge on [z, w], with z a ray that traces.
find_edge(z, w) ==
  LET Halve(e) == LET c == e[1] + (e[2] - e[1]) \div 2
                  IN  IF Passes(c) THEN <<c, e[2]>> ELSE <<e[1], c>>
      edges[i \in 0 .. EdgeHalvings] == IF i = 0 THEN <<z, w>> ELSE Halve(edges[i - 1])
      edge == edges[EdgeHalvings]
  IN  IF Passes(edge[2]) THEN edge[2] ELSE edge[1]

\* M::isZero(z_enp): the vertex of the first surface is avoided, by a tenth
\* of a step.
Nudged(z, del) == IF z # 0 THEN z ELSE IF del > 0 THEN 1 ELSE -1

-----------------------------------------------------------------------------
(* find_real_enp_rev1 before the loop *)

Fresh ==
  /\ z_enp' = enp_dist /\ del_z' = -Step
  /\ start_z' = None /\ prev_z' = None /\ end_z' = None
  /\ direction' = "first" /\ keep_going' = TRUE
  /\ first_surf_misses' = 0 /\ trial' = 0 /\ successes' = 0

EnpInit ==
  /\ lens \in Lenses
  /\ fld_z_enp = None
  /\ z_enp = enp_dist /\ del_z = -Step
  /\ start_z = None /\ prev_z = None /\ end_z = None
  /\ direction = "first" /\ keep_going = TRUE
  /\ first_surf_misses = 0 /\ trial = 0 /\ successes = 0
  /\ bracket = None /\ result = None /\ reused = FALSE
  /\ aims = 1 /\ pc = "cached"

Return(z) == result' = z /\ pc' = "done"

\* Mutant: the search starts from the pupil the field has.
TryCachedWarm ==
  /\ pc = "cached"
  /\ IF fld_z_enp # None /\ Eval(fld_z_enp) = 0
       THEN Return(fld_z_enp) /\ reused' = TRUE /\ UNCHANGED z_enp
       ELSE /\ UNCHANGED <<reused, result>> /\ pc' = "search"
            /\ z_enp' = IF fld_z_enp # None THEN fld_z_enp ELSE z_enp
  /\ UNCHANGED <<lens, fld_z_enp, del_z, found, direction, keep_going, counts, bracket, aims>>

\* The field's own pupil is good when its ray is at the stop centre; a ray
\* along the axis is aimed at the paraxial pupil.
TryCached ==
  /\ pc = "cached"
  /\ IF fld_z_enp # None /\ Eval(fld_z_enp) = 0
       THEN Return(fld_z_enp) /\ reused' = TRUE
       ELSE /\ UNCHANGED reused
            /\ IF lens.axial THEN Return(enp_dist)
                             ELSE pc' = "search" /\ UNCHANGED result
  /\ UNCHANGED <<lens, fld_z_enp, search, bracket, aims>>

-----------------------------------------------------------------------------
(* The loop *)

Searching ==
  /\ pc = "search" /\ keep_going
  /\ trial < MaxTrials /\ first_surf_misses < 2

\* The end of a pass of the loop, with the step as it is by now.
Advance(from, del) ==
  /\ del_z' = del /\ z_enp' = Nudged(from + del, del)
  /\ trial' = trial + 1

TurnRound(first, last) ==
  /\ direction' = "reverse"
  /\ start_z' = last /\ end_z' = first

\* The second ray is further from the stop centre than the first.
WrongWay(first) ==
  /\ successes = 1 /\ direction = "first"
  /\ Abs(Height(first)) < Abs(Height(z_enp))

RayPasses ==
  /\ Searching /\ Passes(z_enp)
  /\ successes' = successes + 1
  /\ prev_z' = end_z
  /\ keep_going' = ~(successes > 0 /\ Straddle(end_z, z_enp))
  /\ LET first == IF start_z = None THEN z_enp ELSE start_z
     IN  IF WrongWay(first)
           THEN TurnRound(first, z_enp) /\ Advance(enp_dist, -del_z)
           ELSE /\ start_z' = first /\ end_z' = z_enp
                /\ Advance(z_enp, del_z) /\ UNCHANGED direction
  /\ UNCHANGED <<lens, fld_z_enp, first_surf_misses, bracket, result, reused, aims, pc>>

\* A miss of the first surface turns the search round; so does any failure
\* after a ray has passed, the first time.  A miss after a ray has passed
\* does both: the step keeps its sign.
RayFails ==
  /\ Searching /\ ~Passes(z_enp)
  /\ LET miss == MissesFirst(z_enp)
         turn == start_z # None /\ direction = "first"
         del  == IF miss = turn THEN del_z ELSE -del_z
     IN  /\ first_surf_misses' = first_surf_misses + (IF miss THEN 1 ELSE 0)
         /\ Advance(IF miss \/ turn THEN enp_dist ELSE z_enp, del)
         /\ keep_going' = (start_z = None \/ turn)
         /\ IF turn THEN TurnRound(start_z, end_z)
                    ELSE UNCHANGED <<start_z, end_z, direction>>
  /\ UNCHANGED <<lens, fld_z_enp, prev_z, successes, bracket, result, reused, aims, pc>>

-----------------------------------------------------------------------------
(* From the rays found to an interval with an estimate *)

Searched == pc = "search" /\ ~Searching

Quotient(p, q) == IF q > 0 THEN p \div q ELSE (-p) \div (-q)

\* Where a straight line through both heights is zero.
Estimate(y, z) ==
  IF Height(z) = Height(y) THEN y
  ELSE y - Quotient((z - y) * Height(y), Height(z) - Height(y))

Solve(a, b, from, to) ==
  /\ bracket' = [a |-> a, b |-> b, from |-> from, to |-> to, estimate |-> Estimate(from, to)]
  /\ pc' = "solve" /\ UNCHANGED <<result, reused>>

NothingPasses ==
  /\ Searched /\ start_z = None
  /\ Return(None)
  /\ UNCHANGED <<lens, fld_z_enp, search, bracket, reused, aims>>

\* linspace one step to either side of z.
Around(z) == {z - del_z + (2 * del_z * i) \div (Samples - 1) : i \in 0 .. Samples - 1}

\* The samples on the side of the start and of the end that trace.
FirstOf(S) == CHOOSE z \in S : \A y \in S : (y - z) * del_z >= 0
LastOf(S) == CHOOSE z \in S : \A y \in S : (z - y) * del_z >= 0

SingleRay ==
  /\ Searched /\ start_z # None /\ start_z = end_z
  /\ LET S == {z \in Around(start_z) : Passes(z)}
     IN  IF S = {} THEN Return(None) /\ UNCHANGED <<bracket, reused>>
         ELSE Solve(FirstOf(S), LastOf(S), FirstOf(S), LastOf(S))
  /\ UNCHANGED <<lens, fld_z_enp, search, aims>>

\* Mutant: the previous ray is taken without looking at its side.
CrossingLoose ==
  /\ Searched /\ start_z # None /\ start_z # end_z /\ Straddle(start_z, end_z)
  /\ IF prev_z # None THEN Solve(prev_z, end_z, prev_z, end_z)
                      ELSE Solve(start_z, end_z, start_z, end_z)
  /\ UNCHANGED <<lens, fld_z_enp, search, aims>>

Crossing ==
  /\ Searched /\ start_z # None /\ start_z # end_z /\ Straddle(start_z, end_z)
  /\ IF prev_z # None /\ Straddle(prev_z, end_z)
       THEN Solve(prev_z, end_z, prev_z, end_z)
       ELSE Solve(start_z, end_z, start_z, end_z)
  /\ UNCHANGED <<lens, fld_z_enp, search, aims>>

\* No two rays straddle: look for the edges of the beam, beyond the end and
\* then beyond the start.  If they do not help, no ray meets the centre.
EdgesOfBeam ==
  /\ Searched /\ start_z # None /\ start_z # end_z /\ ~Straddle(start_z, end_z)
  /\ LET edge_b == find_edge(end_z, end_z + del_z)
         edge_a == find_edge(start_z, start_z - del_z)
     IN  IF Straddle(edge_b, end_z) THEN Solve(end_z, edge_b, end_z, edge_b)
         ELSE IF Straddle(edge_a, start_z) THEN Solve(start_z, edge_a, start_z, edge_a)
         ELSE Return(end_z) /\ UNCHANGED <<bracket, reused>>
  /\ UNCHANGED <<lens, fld_z_enp, search, aims>>

-----------------------------------------------------------------------------
(* find_z_enp_on_interval *)

Positions == (lens.lo - Step) .. (lens.hi + Step)

Root(z, converged, last) == [z |-> z, converged |-> converged, last |-> last]

\* SecantSolver::find_root.  Two points in the dark have equal values, and
\* the search ends where it started; a straight line leads to its root, even
\* if the ray there fails and so reads as zero; otherwise the iterates may
\* end on any zero, or nowhere.
Secant(from) ==
  IF ~Passes(from) THEN {Root(from, FALSE, from)}
  ELSE IF ~lens.bent THEN {Root(lens.root, TRUE, lens.root)}
  ELSE {Root(z, TRUE, z) : z \in {p \in Positions : Eval(p) = 0}}
         \union {Root(z, FALSE, z) : z \in Positions}

\* BrentSolver::find_root refuses an interval whose ends do not straddle.
Brent(a, b) ==
  IF Eval(a) = 0 THEN {Root(a, TRUE, a)}
  ELSE IF Eval(b) = 0 THEN {Root(b, TRUE, b)}
  ELSE IF ~Straddle(a, b) THEN {Root(0, FALSE, b)}
  ELSE {Root(z, TRUE, z) : z \in {p \in Positions :
                                    Eval(p) = 0 /\ (p - a) * (p - b) <= 0}}

\* The last ray of the secant method is read at the stop: one that failed
\* before it has no such segment, which ends the search (IndexOutOfBounds).
SecantThenBrent ==
  /\ pc = "solve"
  /\ \E s \in Secant(bracket.estimate) :
       IF ~ReachesStop(s.last) THEN Return(None)
       ELSE IF s.converged \/ Height(s.last) = 0 THEN Return(s.z)
       ELSE \E t \in Brent(bracket.a, bracket.b) :
              Return(IF t.converged THEN t.z ELSE s.z)
  /\ UNCHANGED <<lens, fld_z_enp, search, bracket, reused, aims>>

-----------------------------------------------------------------------------
(* aim_chief_ray: the caller keeps the result, or that there is none, and   *)
(* the next update of the model aims again.                                 *)

AimAgain ==
  /\ pc = "done" /\ aims < MaxAims
  /\ fld_z_enp' = result
  /\ Fresh /\ bracket' = None /\ result' = None /\ reused' = FALSE
  /\ aims' = aims + 1 /\ pc' = "cached"
  /\ UNCHANGED lens

EnpNext ==
  \/ TryCached \/ RayPasses \/ RayFails
  \/ NothingPasses \/ SingleRay \/ Crossing \/ EdgesOfBeam
  \/ SecantThenBrent \/ AimAgain

-----------------------------------------------------------------------------
(* Properties *)

EnpTypeOK ==
  /\ lens \in Lenses /\ {fld_z_enp, result, start_z, prev_z, end_z} \subseteq Int \union {None}
  /\ z_enp \in Int /\ del_z \in {Step, -Step}
  /\ direction \in {"first", "reverse"} /\ keep_going \in BOOLEAN /\ reused \in BOOLEAN
  /\ first_surf_misses \in 0 .. 2 /\ trial \in 0 .. MaxTrials /\ successes \in 0 .. trial
  /\ bracket = None \/ bracket \in [a : Int, b : Int, from : Int, to : Int, estimate : Int]
  /\ aims \in 1 .. MaxAims /\ pc \in {"cached", "search", "solve", "done"}

\* The interval the root finders get, unless it comes from a single ray that
\* traced, is between two rays that trace and pass the stop centre on
\* different sides, however often the search turned round.
IntervalStraddles ==
  pc = "solve" /\ start_z # end_z =>
    /\ Passes(bracket.a) /\ Passes(bracket.b)
    /\ Straddle(bracket.a, bracket.b)
    /\ ~lens.bent => Passes(bracket.estimate)

\* The paraxial ray traces; the centre is strictly inside the beam, which is
\* wider than the gaps between the samples around a single ray; it is within
\* the trials, and no step lands on it exactly, be it counted from the
\* paraxial pupil or from where the search steps past the vertex.
InReach(l) ==
  /\ Passes(enp_dist) /\ l.lo < l.root /\ l.root < l.hi
  /\ (2 * Step) \div (Samples - 1) <= l.hi - l.lo
  /\ Abs(l.root - enp_dist) < (MaxTrials - 2) * Step
  /\ l.root % Step # 0 /\ (l.root < 0 => (l.root + 1) % Step # 0)

\* A search in which no ray misses the first surface finds the ray through
\* the stop centre, on whichever side of the paraxial pupil it is and whatever
\* fails on the way.
FindsPupil ==
  pc = "done" /\ ~reused /\ ~lens.axial /\ ~lens.bent
    /\ first_surf_misses = 0 /\ InReach(lens)
    => result = lens.root

\* The two of one search: its interval is sound, and it finds the pupil.
SearchFindsPupil == IntervalStraddles /\ FindsPupil

\* Aiming again, at every update of the model, does not move the pupil of a
\* field whose lens has not changed.
AimingIsStable == pc = "done" /\ aims > 1 /\ ~lens.bent => result = fld_z_enp

=============================================================================
