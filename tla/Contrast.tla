------------------------------- MODULE Contrast -------------------------------
(***************************************************************************)
(* Contrast by differences of wavefront: the pattern of pupil points that  *)
(* leaves every ray and its two displaced partners in the vignetted pupil, *)
(* the search for the partner that meets a given point of the exit pupil,  *)
(* and the residuals of the samples with the image displacement taken off. *)
(*                                                                         *)
(* A pupil coordinate is an integer, Radius of them to the pupil's radius; *)
(* vignetting factors are in quarters, contractions of the pattern in      *)
(* 2^Halvings-ths, and an offset of the residuals is a fraction.           *)
(***************************************************************************)
EXTENDS Integers, Sequences, FiniteSetsExt

CONSTANTS
    Radius,             \* of the pupil
    Halvings,           \* of the contraction (60 in the code)
    Requests,           \* [fld, cx, cy, nominal, nu, fno, unity, gain, calibrate]
    Levels,             \* how far from its target a ray may end, 0 being on it
    acceptable,         \* the furthest level that is good enough
    MaxIterations,      \* of the search (10 in the code)
    LineSearches,       \* in each of them (8 in the code)
    Traces,             \* [reference, blocks]: what the rays of a field found
    Gone,               \* a ray that failed
    NotFinite           \* a path difference or a coordinate that is not a number

ASSUME SearchAssumption == /\ Halvings \in Nat /\ MaxIterations \in Nat
                           /\ LineSearches \in Nat \ {0} /\ Levels \subseteq Nat
                           /\ acceptable \in Levels

VARIABLES
    request, points,    \* the points of a field, or that there are none
    aiming,             \* the search for a partner
    contrast            \* the samples of the field's wavelengths

contrastVars == <<request, points, aiming, contrast>>

Unasked == << >>

ContrastIdle == request = Unasked /\ points = Unasked /\ aiming = Unasked /\ contrast = Unasked

magnitude(x) == IF x < 0 THEN -x ELSE x
Moved(p, q) == <<p[1] + q[1], p[2] + q[2]>>

-----------------------------------------------------------------------------
(* The pupil *)

\* In quarters.
vignetting_scale(coordinate, lower, upper) == 4 - (IF coordinate < 0 THEN lower ELSE upper)
vignetting_scale_x(p, fld) == vignetting_scale(p[1], fld.vlx, fld.vux)
vignetting_scale_y(p, fld) == vignetting_scale(p[2], fld.vly, fld.vuy)

apply_vignetting(p, fld) ==
    <<(p[1] * vignetting_scale_x(p, fld)) \div 4, (p[2] * vignetting_scale_y(p, fld)) \div 4>>

\* The first two comparisons keep the squares small.
inside_vignetted_pupil(p, fld) ==
    LET xs == vignetting_scale_x(p, fld)
        ys == vignetting_scale_y(p, fld)
        x == 4 * p[1] * ys
        y == 4 * p[2] * xs
    IN  /\ xs > 0 /\ ys > 0
        /\ magnitude(x) <= Radius * xs * ys /\ magnitude(y) <= Radius * xs * ys
        /\ x * x + y * y <= Radius * xs * ys * Radius * xs * ys

\* A mistake: a partner is not looked at.
valid_lone_point(p, s, t, fld) == \A q \in {p, Moved(p, s)} : inside_vignetted_pupil(q, fld)

valid_point(p, s, t, fld) == \A q \in {p, Moved(p, s), Moved(p, t)} : inside_vignetted_pupil(q, fld)

Whole == 2 ^ Halvings
Contracted(offset, contraction) ==
    <<(offset[1] * contraction) \div Whole, (offset[2] * contraction) \div Whole>>

valid_pattern(offsets, centre, contraction, s, t, fld) ==
    \A i \in DOMAIN offsets :
        valid_point(Moved(centre, Contracted(offsets[i], contraction)), s, t, fld)

Offsets(r) ==
    LET centre == apply_vignetting(<<r.cx, r.cy>>, r.fld)
    IN  [i \in DOMAIN r.nominal |->
            LET p == apply_vignetting(r.nominal[i].pupil, r.fld)
            IN  <<p[1] - centre[1], p[2] - centre[2]>>]

OverlapCentre(r, s, t) ==
    LET centre == apply_vignetting(<<r.cx, r.cy>>, r.fld)
    IN  <<centre[1] - ((s[1] + t[1]) \div 2), centre[2] - ((s[2] + t[2]) \div 2)>>

Contraction(r, s, t) ==
    LET fits(c) == valid_pattern(Offsets(r), OverlapCentre(r, s, t), c, s, t, r.fld)
        range[n \in 0 .. Halvings] ==
            IF n = 0 THEN <<0, Whole>>
            ELSE LET low == range[n - 1][1]
                     high == range[n - 1][2]
                     trial == (low + high) \div 2
                 IN  IF fits(trial) THEN <<trial, high>> ELSE <<low, trial>>
    IN  IF fits(Whole) THEN Whole ELSE range[Halvings][1]

Jacobian(p, fld) == vignetting_scale_x(p, fld) * vignetting_scale_y(p, fld)
WeightOf(weighed) == FoldFunction(LAMBDA p, sum : sum + p.weight, 0, weighed)

\* The weights are left unnormalized.
generate_quadrature(r, s, t) ==
    LET centre == OverlapCentre(r, s, t)
        contraction == Contraction(r, s, t)
        found == [i \in DOMAIN r.nominal |->
                    [pupil |-> Moved(centre, Contracted(Offsets(r)[i], contraction)),
                     weight |-> r.nominal[i].weight * Jacobian(r.nominal[i].pupil, r.fld)]]
    IN  IF \/ ~valid_point(centre, s, t, r.fld)
           \/ 10 * contraction < Whole
           \/ WeightOf(found) <= 0
        THEN [thrown |-> TRUE]
        ELSE [thrown |-> FALSE, s |-> s[1], t |-> t[2], points |-> found]

\* nu is the wavelength times the frequency, fno is in pupil coordinates.
normalized_entry_pupil_shift(r) == 2 * r.nu * magnitude(r.fno)

\* Of a lens whose cosines are proportional to the pupil coordinate, unity
\* of them to one.
image_direction(r, axis, coordinate) ==
    IF r.gain[axis] = Gone THEN Gone ELSE r.gain[axis] * coordinate

exit_pupil_frequency_calibration(r, shift, axis) ==
    LET required == r.unity * r.nu
        low == image_direction(r, axis, -(shift \div 2))
        high == image_direction(r, axis, shift \div 2)
        realized == magnitude(high - low)
    IN  IF /\ r.calibrate /\ shift > 0 /\ required > 0
           /\ low # Gone /\ high # Gone
           /\ realized > 0
           /\ 2 * required > realized /\ required < 2 * realized
        THEN <<required, realized>>
        ELSE <<1, 1>>

Calibrated(r, axis) ==
    LET shift == normalized_entry_pupil_shift(r)
        scale == exit_pupil_frequency_calibration(r, shift, axis)
    IN  (shift * scale[1]) \div scale[2]

RequestInit == /\ request \in Requests
               /\ points = Unasked /\ aiming = Unasked /\ contrast = Unasked

Generate == /\ request # Unasked /\ points = Unasked
            /\ points' = generate_quadrature(request, <<Calibrated(request, 1), 0>>,
                                             <<0, Calibrated(request, 2)>>)
            /\ UNCHANGED <<request, aiming, contrast>>

-----------------------------------------------------------------------------
(* Aiming a partner: a ray fails, or has no point on the reference sphere, *)
(* or ends at a level from its target.  The pupil points traced are        *)
(* numbered in order, and the two probes of an iteration are not among     *)
(* them.                                                                   *)

Answers == {Gone, NotFinite} \cup Levels

AimInit == /\ aiming = [phase |-> "start", log |-> << >>, pupil |-> 0, current |-> 0,
                        iteration |-> 0, search |-> 0, ray |-> Unasked]
           /\ request = Unasked /\ points = Unasked /\ contrast = Unasked

Error(a) == a.log[a.current]

Found(a, iterations) ==
    [a EXCEPT !.phase = "done", !.iteration = iterations,
              !.ray = [at |-> a.current, pupil |-> a.pupil, error |-> Error(a)]]
aimFailed(a) == [a EXCEPT !.phase = "done", !.iteration = MaxIterations, !.ray = Gone]

\* A mistake: only the target's own tolerance is good enough.
FinishStrictly(a) == IF Error(a) = 0 THEN Found(a, MaxIterations) ELSE aimFailed(a)

Finish(a) == IF Error(a) <= acceptable THEN Found(a, MaxIterations) ELSE aimFailed(a)

\* Without a chief ray, or with no reference sphere or a plane for one,
\* nothing is traced.
WithoutSphere == aiming.phase = "start" /\ aiming' = aimFailed(aiming)

FirstEvaluation ==
    /\ aiming.phase = "start"
    /\ \E answer \in Answers :
         LET a == [aiming EXCEPT !.log = <<answer>>, !.pupil = 1, !.current = 1]
         IN  aiming' = CASE answer = Gone -> [a EXCEPT !.phase = "done", !.ray = Gone]
                         [] answer = NotFinite -> aimFailed(a)
                         [] OTHER -> [a EXCEPT !.phase = "iterate"]

\* A step needs both probes and a Jacobian that can be inverted.
Aim == /\ aiming.phase = "iterate"
       /\ \E stepped \in BOOLEAN :
            aiming' = CASE Error(aiming) = 0 -> Found(aiming, aiming.iteration)
                        [] aiming.iteration = MaxIterations \/ ~stepped -> Finish(aiming)
                        [] OTHER -> [aiming EXCEPT !.phase = "search", !.search = 0]

Accepts(a, answer) == answer \in Levels /\ answer < Error(a)

Search == /\ aiming.phase = "search"
          /\ \E answer \in Answers :
               LET a == [aiming EXCEPT !.log = Append(@, answer), !.search = @ + 1]
               IN  aiming' =
                     IF Accepts(aiming, answer)
                     THEN [a EXCEPT !.phase = "iterate", !.iteration = @ + 1,
                                    !.pupil = Len(a.log), !.current = Len(a.log)]
                     ELSE IF a.search = LineSearches THEN Finish(a) ELSE a

AimNext == aiming # Unasked /\ (WithoutSphere \/ FirstEvaluation \/ Aim \/ Search)
           /\ UNCHANGED <<request, points, contrast>>

-----------------------------------------------------------------------------
(* The samples of a field: a block of them for each wavelength, each of    *)
(* three rays that found an optical path difference, or something that is  *)
(* not a number, or failed.                                                *)

RayNames == <<"reference", "sagittal", "tangential">>

failure(rays) == RayNames[Min({k \in 1 .. 3 : rays[k] = Gone})]

\* A mistake: the differences of a failed sample count as nought.
sampleAnyway(triplet) ==
    LET rays == triplet.rays
        number(k) == rays[k] \notin {NotFinite, Gone}
    IN  [differences |-> IF \A k \in 1 .. 3 : number(k)
                         THEN <<rays[2] - rays[1], rays[3] - rays[1]>> ELSE <<0, 0>>,
         weight |-> triplet.weight, valid |-> TRUE, failure |-> "none"]

\* The differences are those of the sagittal and the tangential partner.
sample(triplet) ==
    LET rays == triplet.rays
        number(k) == rays[k] # NotFinite
        minusReference(k) == IF number(1) /\ number(k) THEN rays[k] - rays[1] ELSE NotFinite
    IN  IF \E k \in 1 .. 3 : rays[k] = Gone
        THEN [differences |-> <<0, 0>>, weight |-> triplet.weight, valid |-> FALSE,
              failure |-> failure(rays)]
        ELSE LET valid == \A k \in 1 .. 3 : number(k)
             IN  [differences |-> <<minusReference(2), minusReference(3)>>,
                  weight |-> triplet.weight, valid |-> valid,
                  failure |-> IF valid THEN "none" ELSE "OPD"]

Nought == [sum |-> 0, weight |-> 1]

WavelengthResult(triplets) ==
    [samples |-> [i \in DOMAIN triplets |-> sample(triplets[i])], offsets |-> <<Nought, Nought>>]

Valid(block) == {i \in DOMAIN block.samples : block.samples[i].valid}
Summed(block, of(_)) == FoldSet(LAMBDA i, sum : sum + of(i), 0, Valid(block))

weighted_mean(block, orientation) ==
    LET weight == Summed(block, LAMBDA i : block.samples[i].weight)
    IN  IF weight > 0
        THEN [sum |-> Summed(block, LAMBDA i :
                        block.samples[i].weight * block.samples[i].differences[orientation]),
              weight |-> weight]
        ELSE Nought

\* A mistake: every wavelength is centred on its own mean.
centerEach(blocks, reference) ==
    [w \in DOMAIN blocks |->
        [blocks[w] EXCEPT !.offsets = [o \in 1 .. 2 |-> weighted_mean(blocks[w], o)]]]

center_residuals(blocks, reference) ==
    IF reference \in DOMAIN blocks
    THEN LET offsets == [o \in 1 .. 2 |-> weighted_mean(blocks[reference], o)]
         IN  [w \in DOMAIN blocks |-> [blocks[w] EXCEPT !.offsets = offsets]]
    ELSE blocks

\* The square of a residual, in offset.weight^2-ths.
SquaredResidual(block, i, orientation) ==
    LET offset == block.offsets[orientation]
        d == block.samples[i].differences[orientation] * offset.weight - offset.sum
    IN  block.samples[i].weight * d * d

\* The square of ContrastReport's figure, in the same units.
rms(block, orientation) ==
    [sum |-> Summed(block, LAMBDA i : SquaredResidual(block, i, orientation)),
     weight |-> Summed(block, LAMBDA i : block.samples[i].weight)]

\* GoalContrastBalance::value, in the same units; the weights are those of
\* the wavelengths and of the orientations.
balance(blocks, weights, orientations) ==
    IF Len(blocks) > Len(weights) \/ \A w \in DOMAIN blocks : Valid(blocks[w]) = {}
    THEN "BIGVAL"
    ELSE FoldSet(LAMBDA w, sum :
            sum + weights[w] * (orientations[1] * rms(blocks[w], 1).sum
                                    - orientations[2] * rms(blocks[w], 2).sum),
            0, DOMAIN blocks)

TraceInit == /\ contrast \in {[traced |-> trace, blocks |-> << >>, centred |-> FALSE] : trace \in Traces}
             /\ request = Unasked /\ points = Unasked /\ aiming = Unasked

Sampled == /\ contrast.blocks = << >>
           /\ contrast' = [contrast EXCEPT !.blocks =
                [w \in DOMAIN contrast.traced.blocks |-> WavelengthResult(contrast.traced.blocks[w])]]

\* Only if the options ask for it.
Centred == /\ contrast.blocks # << >> /\ ~contrast.centred
           /\ contrast' = [contrast EXCEPT !.centred = TRUE,
                !.blocks = center_residuals(@, contrast.traced.reference)]

ContrastInit == RequestInit \/ AimInit \/ TraceInit
ContrastNext == \/ Generate
                \/ AimNext
                \/ contrast # Unasked /\ (Sampled \/ Centred) /\ UNCHANGED <<request, points, aiming>>

-----------------------------------------------------------------------------
(* The properties *)

\* Whether light at a point passes: it lies in the quarter of an ellipse
\* that the field's factors leave on its side of the axes.
Transparent(p, fld) ==
    LET a == Radius * (4 - (IF p[1] < 0 THEN fld.vlx ELSE fld.vux))
        b == Radius * (4 - (IF p[2] < 0 THEN fld.vly ELSE fld.vuy))
        x == (4 * p[1] * b) \div Radius
        y == (4 * p[2] * a) \div Radius
    IN  /\ a > 0 /\ b > 0
        /\ magnitude(4 * p[1]) <= a /\ magnitude(4 * p[2]) <= b
        /\ x * x + y * y <= (a \div Radius) * b * (a \div Radius) * b

\* The contractions that leave every ray of the pattern in the pupil.
Fitting(s, t) ==
    {c \in 0 .. Whole : \A offset \in {Offsets(request)[i] : i \in DOMAIN request.nominal} :
        \A shift \in {<<0, 0>>, <<s, 0>>, <<0, t>>} :
            Transparent(Moved(Moved(OverlapCentre(request, <<s, 0>>, <<0, t>>), shift),
                        Contracted(offset, c)), request.fld)}

\* The pattern is as large as the pupil allows, a tenth of itself at the
\* least or there is none.
PatternFillsTheOverlap ==
    LET s == Calibrated(request, 1)
        t == Calibrated(request, 2)
        lit == \E i \in DOMAIN request.nominal : Jacobian(request.nominal[i].pupil, request.fld) > 0
        fitting == Fitting(s, t)
    IN  /\ points.thrown <=> ~lit \/ fitting = {} \/ 10 * Max(fitting \cup {0}) < Whole
        /\ ~points.thrown =>
             \A i \in DOMAIN request.nominal :
                points.points[i].pupil = Moved(OverlapCentre(request, <<s, 0>>, <<0, t>>),
                                               Contracted(Offsets(request)[i], Max(fitting)))

\* A calibrated pair of rays differs by the cosine asked for, unless the
\* probes say that half or twice the frequency would come of it.
PairsRealiseTheFrequency ==
    ~points.thrown /\ request.calibrate =>
        \A axis \in 1 .. 2 :
            LET shift == IF axis = 1 THEN points.s ELSE points.t
                asked == request.unity * request.nu
                uncalibrated == 2 * request.nu * magnitude(request.fno)
                gain == request.gain[axis]
            IN  IF gain = Gone \/ gain = 0
                THEN shift = uncalibrated
                ELSE \/ magnitude(gain) * shift = asked
                     \/ shift = uncalibrated /\ \/ 2 * asked <= magnitude(gain) * shift
                                                \/ asked >= 2 * magnitude(gain) * shift

\* A search ends with the ray nearest to the target of all it traced, found
\* where it says it is, if that is near enough, and fails only if none is.
AimFindsTheNearest ==
    aiming.phase = "done" =>
        LET levels == {aiming.log[i] : i \in DOMAIN aiming.log} \cap Levels
        IN  IF \E level \in levels : level <= acceptable
            THEN /\ aiming.ray # Gone
                 /\ aiming.ray.at = aiming.ray.pupil
                 /\ aiming.ray.error = aiming.log[aiming.ray.at]
                 /\ \A level \in levels : aiming.ray.error <= level
                 /\ aiming.iteration < MaxIterations => aiming.ray.error = 0
            ELSE aiming.ray = Gone

\* A sample counts only if all of its rays were traced and found a number,
\* and the first that was not is named.
SamplesAreComplete ==
    \A w \in DOMAIN contrast.blocks : \A i \in DOMAIN contrast.blocks[w].samples :
        LET rays == contrast.traced.blocks[w][i].rays
            taken == contrast.blocks[w].samples[i]
        IN  /\ taken.valid <=> \A k \in 1 .. 3 : rays[k] \notin {Gone, NotFinite}
            /\ \A k \in 1 .. 3 : taken.failure = RayNames[k] <=>
                   rays[k] = Gone /\ \A j \in 1 .. k - 1 : rays[j] # Gone

\* The samples as they would be if the image lay elsewhere.
Displaced(blocks, by) ==
    [w \in DOMAIN blocks |->
        [blocks[w] EXCEPT !.samples = [i \in DOMAIN @ |->
            IF @[i].valid
            THEN [@[i] EXCEPT !.differences = [o \in 1 .. 2 |-> @[o] + by[o]]] ELSE @[i]]]]

\* Once centred, residuals do not depend on where the image lies: they sum
\* to nought at the reference wavelength, and a displacement of the whole
\* image changes no residual, no figure of the report and no balance.
DisplacementCostsNothing ==
    LET blocks == contrast.blocks
        reference == contrast.traced.reference
    IN  contrast.centred /\ reference \in DOMAIN blocks /\ Valid(blocks[reference]) # {} =>
          /\ \A o \in 1 .. 2 : \A w \in DOMAIN blocks :
               /\ blocks[w].offsets[o] = blocks[reference].offsets[o]
               /\ w = reference =>
                    Summed(blocks[w], LAMBDA i : blocks[w].samples[i].weight *
                        (blocks[w].samples[i].differences[o] * blocks[w].offsets[o].weight
                            - blocks[w].offsets[o].sum)) = 0
          /\ LET elsewhere == center_residuals(Displaced(blocks, <<3, -7>>), reference)
             IN  /\ \A w \in DOMAIN blocks : \A o \in 1 .. 2 :
                        /\ rms(elsewhere[w], o) = rms(blocks[w], o)
                        /\ \A i \in Valid(blocks[w]) :
                             SquaredResidual(elsewhere[w], i, o) = SquaredResidual(blocks[w], i, o)
                 /\ balance(elsewhere, <<1, 2, 1>>, <<2, 3>>) = balance(blocks, <<1, 2, 1>>, <<2, 3>>)

\* Contrast is measured where light passes, at the frequency asked for, by
\* rays that are where they say, on samples of which none counts unless it
\* is complete, and without what merely displaces the image.
ContrastSamplesThePupil ==
    /\ points # Unasked => PatternFillsTheOverlap /\ PairsRealiseTheFrequency
    /\ aiming # Unasked => AimFindsTheNearest
    /\ contrast # Unasked => SamplesAreComplete /\ DisplacementCostsNothing
=============================================================================
