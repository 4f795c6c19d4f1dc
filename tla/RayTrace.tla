------------------------------ MODULE RayTrace ------------------------------
(***************************************************************************)
(* RayTrace::trace_raw: one ray carried from the object through every      *)
(* surface of the path, which ends with a whole ray or with an exception   *)
(* that carries the part of it traced so far.                              *)
(*                                                                         *)
(* The rays are those of one field and wavelength along one half axis of   *)
(* the pupil: a ray is its coordinate on that axis, an integer, positive   *)
(* outwards.  What a surface does to a ray depends on the coordinate only: *)
(* the rays it intersects, those inside its clear aperture, those it can   *)
(* refract are intervals.  The object is a plane that every ray meets.     *)
(***************************************************************************)
EXTENDS Integers, Sequences

CONSTANTS
  Interfaces    \* the surfaces a lens can be made of

VARIABLES
  ifcs,     \* surfaces 1 .. image; the object is surface 0
  pupil,    \* the coordinate of the ray being traced
  check,    \* RayTraceOptions::check_apertures
  surf,     \* index of the surface reached
  ray,      \* the segments: the surface each starts from, the gap it spans
  opl,      \* the gaps whose optical path has been added up
  status    \* "tracing", or how the trace ended

trace == <<pupil, check, surf, ray, opl, status>>

NoGap == -1   \* the length of a segment that reaches no next surface

Interval == [lo : Int, hi : Int]

\* A clear aperture is not empty.
ASSUME InterfacesAssumption ==
  /\ Interfaces \subseteq
       [clear : Interval, reach : Interval, bends : Interval, steady : BOOLEAN]
  /\ \A i \in Interfaces : i.clear.lo <= i.clear.hi

In(interval, q) == interval.lo <= q /\ q <= interval.hi

image == Len(ifcs)

-----------------------------------------------------------------------------
(* What happens at a surface *)

Misses(s, q) == ~In(ifcs[s].reach, q)

in_surface_range(s) == 1 <= s /\ s <= image - 1

Blocks(s, q) == in_surface_range(s) /\ ~In(ifcs[s].clear, q)

Reflects(s, q) == ~In(ifcs[s].bends, q)

\* trace() asks for the path between surfaces 1 and image - 1.
in_gap_range(gap) == 1 # image - 1 /\ 1 <= gap /\ gap < image - 1

-----------------------------------------------------------------------------
(* The trace *)

Begin(q, checked) ==
  /\ pupil' = q /\ check' = checked
  /\ surf' = 0 /\ ray' = <<>> /\ opl' = {} /\ status' = "tracing"

Segment(s, gap) == [at |-> s, gap |-> gap]

Through == Append(ray, Segment(surf, surf))

AddPath == opl' = IF in_gap_range(surf) THEN opl \union {surf} ELSE opl

\* Blocked and totally reflected rays end with the point of incidence.
StopAt(kind) ==
  /\ ray' = Append(Through, Segment(surf + 1, NoGap))
  /\ surf' = surf + 1 /\ status' = kind
  /\ AddPath /\ UNCHANGED <<pupil, check>>

\* A missed surface has no point of incidence: the previous point again.
Miss ==
  /\ surf < image /\ Misses(surf + 1, pupil)
  /\ ray' = Append(ray, Segment(surf, NoGap))
  /\ surf' = surf + 1 /\ status' = "missed"
  /\ UNCHANGED <<pupil, check, opl>>

Blocked ==
  /\ surf < image /\ ~Misses(surf + 1, pupil)
  /\ check /\ Blocks(surf + 1, pupil)
  /\ StopAt("blocked")

TIR ==
  /\ surf < image /\ ~Misses(surf + 1, pupil)
  /\ ~(check /\ Blocks(surf + 1, pupil))
  /\ Reflects(surf + 1, pupil)
  /\ StopAt("tir")

Pass ==
  /\ surf < image /\ ~Misses(surf + 1, pupil)
  /\ ~(check /\ Blocks(surf + 1, pupil))
  /\ ~Reflects(surf + 1, pupil)
  /\ ray' = Through /\ surf' = surf + 1
  /\ AddPath /\ UNCHANGED <<pupil, check, status>>

EndOfPath ==
  /\ surf = image
  /\ ray' = Append(ray, Segment(surf, NoGap)) /\ status' = "traced"
  /\ UNCHANGED <<pupil, check, surf, opl>>

TraceStep ==
  /\ status = "tracing"
  /\ Miss \/ Blocked \/ TIR \/ Pass \/ EndOfPath

-----------------------------------------------------------------------------
(* What a trace comes to, as its callers see it *)

FailsAt(s, q, checked) ==
  Misses(s, q) \/ (checked /\ Blocks(s, q)) \/ Reflects(s, q)

\* The ray reaches surface s.
Reaches(s, q, checked) == \A t \in 1 .. s - 1 : ~FailsAt(t, q, checked)

Traces(q) == \A t \in 1 .. image : ~FailsAt(t, q, TRUE)

\* Length of the ray that comes with a failure at s.
PartialLength(s, q) == IF Misses(s, q) THEN s ELSE s + 1

-----------------------------------------------------------------------------
(* Properties *)

TraceTypeOK ==
  /\ ifcs \in Seq(Interfaces)
  /\ pupil \in Int /\ check \in BOOLEAN
  /\ surf \in 0 .. image
  /\ ray \in Seq([at : Nat, gap : Int])
  /\ opl \subseteq Int
  /\ status \in {"tracing", "traced", "missed", "blocked", "tir"}

\* Entry k of a ray, whole or partial, belongs to surface k, and its callers
\* index it so; a segment spans the gap behind its own surface.
RayAligned ==
  \A k \in 1 .. Len(ray) :
    /\ ray[k].at = k - 1
    /\ ray[k].gap \in {k - 1, NoGap}
    /\ k < Len(ray) => ray[k].gap = k - 1

\* A trace ends at the first surface that fails the ray, with the segments
\* its callers count on, and only a ray no surface fails is whole.
FailsFirst ==
  status # "tracing" =>
    IF status = "traced"
      THEN Reaches(image + 1, pupil, check) /\ Len(ray) = image + 1
      ELSE /\ FailsAt(surf, pupil, check) /\ Reaches(surf, pupil, check)
           /\ Len(ray) = PartialLength(surf, pupil)

\* The path length that comes with a ray is that of the gaps between the
\* first and the last lens surface which its segments span.
OpdSpansTheRay ==
  status # "tracing" => opl = {g \in 1 .. image - 2 : g + 1 < Len(ray)}
=============================================================================
