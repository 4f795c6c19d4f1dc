------------------------------ MODULE Analyses ------------------------------
(***************************************************************************)
(* What an evaluation makes of the rays that fail, up to the value a goal  *)
(* is given: the patterns rays are traced in, the arrays the spot, fan and *)
(* contrast analyses keep of them, and what the goals read there.          *)
(*                                                                         *)
(* A ray is <<pattern, field, wavelength, sample, partner>>: samples count *)
(* from 0, and the partner is a fan's direction, or 0 for the reference    *)
(* and otherwise the direction of a contrast ray.  lost is the set of rays *)
(* that fail.  A goal's value is the tuple of rays it is made from, or Big.*)
(***************************************************************************)
EXTENDS Integers, Sequences, FiniteSets, SequencesExt

Big == <<"Big">>

\* What a pattern keeps of a ray that may fail.
Item(ray, lost) == [ray |-> ray, valid |-> ray \notin lost]
Survivors(items) == SelectSeq(items, LAMBDA item : item.valid)

\* A mistake: rays that fail are left out although the caller wants their places.
LeftOut(items, append_if_none) == Survivors(items)

Kept(items, append_if_none) == IF append_if_none THEN items ELSE Survivors(items)

-----------------------------------------------------------------------------
(* Tracing the patterns. *)

trace_fan(f, xy, w, num_rays, append_if_none, lost) ==
  Kept([i \in 1..num_rays |-> Item(<<"fan", f, w, i - 1, xy>>, lost)], append_if_none)

\* The centre, and 6 r points on ring r.
hexapolar_points(num_rings) == 1 + 3 * num_rings * (num_rings + 1)

trace_rings(f, w, num_rings, lost) ==
  Kept([i \in 1..hexapolar_points(num_rings) |-> Item(<<"ring", f, w, i - 1, 0>>, lost)], FALSE)

trace_gaussian_quadrature(f, w, sampling, append_if_none, lost) ==
  Kept([i \in 1..(sampling[1] * sampling[2]) |-> Item(<<"gauss", f, w, i - 1, 0>>, lost)],
       append_if_none)

\* Every sample is returned: its reference ray (0) and the partners sheared in
\* either direction.
ContrastRay(f, w, i, sample, o) == <<"contrast", f, w, <<i, sample>>, o>>

trace_triplets(f, w, i, sampling, lost) ==
  [s \in 1..(sampling[1] * sampling[2]) |->
     LET triplet == [o \in 0..2 |-> ContrastRay(f, w, i, s - 1, o)]
     IN [rays |-> triplet, valid |-> \A o \in 0..2 : triplet[o] \notin lost]]

-----------------------------------------------------------------------------
(* Analysis::compute for c fields and wavelengths, as a trial configures it. *)

SpotsOf(analysis, f, w, lost) ==
  IF analysis.hexapolar THEN trace_rings(f, w, analysis.hexapolarRays, lost)
  ELSE trace_gaussian_quadrature(f, w, analysis.gaussian, analysis.retainFailedRays, lost)

compute(analysis, fields, wavelengths, num_rays, lost) ==
  [spots |-> IF ~analysis.spots THEN <<>>
             ELSE [f \in fields |-> [w \in wavelengths |-> SpotsOf(analysis, f, w, lost)]],
   fans |-> IF ~analysis.rays THEN <<>>
            ELSE [f \in fields |-> [xy \in 1..2 |->
                    [w \in wavelengths |-> trace_fan(f, xy, w, num_rays, TRUE, lost)]]],
   contrasts |-> [i \in 1..analysis.contrasts |->
                    [f \in fields |-> [w \in wavelengths |->
                       trace_triplets(f, w, i, analysis.contrastSampling, lost)]]]]

-----------------------------------------------------------------------------
(* What the goals of one ray read: goals are numbered as the builder does.   *)

At(items, sample) ==
  IF sample + 1 \in DOMAIN items /\ items[sample + 1].valid THEN items[sample + 1].ray ELSE Big

GoalSpotDeviation(results, goal) == At(results.spots[goal[2]][goal[3]], goal[4])

GoalRayAberration(results, goal) == At(results.fans[goal[2]][goal[5]][goal[3]], goal[4])

GoalContrast(results, goal) ==
  LET samples == results.contrasts[goal[4][1]][goal[2]][goal[3]]
      number == goal[4][2] + 1
  IN IF number \in DOMAIN samples /\ samples[number].valid
     THEN <<samples[number].rays[0], samples[number].rays[goal[5]]>> ELSE Big

validateInitialContrastSamples(results) ==
  \A i \in DOMAIN results.contrasts :
    \A f \in DOMAIN results.contrasts[i] :
      \A w \in DOMAIN results.contrasts[i][f] :
        Survivors(results.contrasts[i][f][w]) = results.contrasts[i][f][w]

-----------------------------------------------------------------------------
(* The histogram an MTF is taken from.  The intercept of a failed ray is NaN,*)
(* which passes the comparisons with the window; what its conversion to an   *)
(* integer gives is the machine's: an index outside the histogram, or bin 0. *)

accumulate(intercepts, NaNIsZero) ==
  {item.ray : item \in {other \in ToSet(intercepts) : other.valid \/ NaNIsZero}}
=============================================================================
