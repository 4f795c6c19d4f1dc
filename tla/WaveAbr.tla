------------------------------- MODULE WaveAbr --------------------------------
(***************************************************************************)
(* The wavefront of a field: how far each ray of a grid is ahead of the    *)
(* chief ray at the reference sphere, computed outright, or in two parts   *)
(* the first of which is kept while the focus changes.                     *)
(*                                                                         *)
(* Lengths, indices and cosines are elements of the field.  A ray is where *)
(* and in what direction it enters the first surface and leaves the last,  *)
(* and its optical path between the two.  No surface is decentred, since   *)
(* nothing builds one, and the image surface is plane.                     *)
(***************************************************************************)
EXTENDS PrimeCircle

CONSTANTS
    Systems,        \* [n_obj, n_img, thi, parax, object, chief, rays]
    Foci,           \* defocus amounts
    Targets,        \* [pt, delta]: an image point asked for, and a shift of it
    KindaBig        \* the radii that stand for an infinite one

VARIABLES
    system,         \* the lens and its rays, or NoSystem
    setting,        \* [foc, target] of the latest computation
    fld,            \* the chief ray and sphere left at the field
    kept,           \* what trace_wavefront keeps of every ray
    result          \* [status, opd, abr], the latter two one for each ray

waveVars == <<system, setting, fld, kept, result>>

NoSystem == << >>
NaN == << >>        \* a result is NaN or <<number>>
Lost == << >>       \* a ray of the grid that fails, instead of a record

Entering(ray) == [p |-> ray.p1, d |-> ray.d0]
Leaving(ray)  == [p |-> ray.p, d |-> ray.d]

\* In coordinates of the image plane.
BeforeImage(ray) == [p |-> minus(ray.p, <<0, 0, system.thi>>), d |-> ray.d]
AtImage(ray) ==
    LET r == BeforeImage(ray)
    IN  [r EXCEPT !.p = plus(@, times(r.d, Over(-r.p[3], r.d[3])))]

-----------------------------------------------------------------------------
(* The exit pupil and the reference sphere *)

transfer_to_exit_pupil(ray, exp_dst_parax) ==
    LET exp_dst == IF ray.d[2] = 0 THEN exp_dst_parax ELSE Over(-ray.p[2], ray.d[2])
    IN  [exp_dst |-> exp_dst, exp_pt |-> plus(ray.p, times(ray.d, exp_dst))]

\* Along the chief ray to the defocused plane.
Defocused(ray, foc) ==
    LET r == AtImage(ray) IN plus(r.p, times(r.d, Over(foc, r.d[3])))

ImagePoint(foc, target) ==
    plus(IF target.pt = << >> THEN Defocused(system.chief, foc)
                              ELSE <<target.pt[1], target.pt[2], foc>>,
         <<target.delta[1], target.delta[2], 0>>)

FromLast(point) == plus(point, <<0, 0, system.thi>>)

PupilToImage(exit, foc, target) == minus(FromLast(ImagePoint(foc, target)), exit.exp_pt)

calculate_reference_sphere(exit, foc, target) ==
    LET v == PupilToImage(exit, foc, target)
    IN  [image_pt |-> ImagePoint(foc, target), ref_dir |-> normalize(v), radius |-> length(v)]

\* What setup_pupil_coords hands to its callers.
Pupil(foc, target) ==
    LET exit == transfer_to_exit_pupil(Leaving(system.chief), system.parax)
    IN  [cr |-> exit, sphere |-> calculate_reference_sphere(exit, foc, target)]

-----------------------------------------------------------------------------
(* The distances along a pair of rays *)

\* A mistake: the distance is measured along the other ray.
OtherWay(r, r0) ==
    Over(dot(plus(r.d, r0.d), minus(r0.p, r.p)), 1 + dot(r.d, r0.d))

eic_distance(r, r0) ==
    Over(dot(plus(r.d, r0.d), minus(r.p, r0.p)), 1 + dot(r.d, r0.d))

ray_dist_to_perp_from_origin(r) == dot(r.d, negate(r.p))

\* The points of two rays that are closest.
dist_to_shortest_join(r1, r2) ==
    LET n == cross(r1.d, r2.d)
        nn == dot(n, n)
        apart == minus(r2.p, r1.p)
        along(r, t) == plus(r.p, times(r.d, t))
    IN  IF nn = 0
        THEN <<r1.p, along(r2, dot(minus(r1.p, r2.p), r1.d) ** dot(r1.d, r2.d))>>
        ELSE <<along(r1, Over(dot(cross(r2.d, n), apart), nn)),
               along(r2, Over(dot(cross(r1.d, n), apart), nn))>>

-----------------------------------------------------------------------------
(* A finite reference sphere *)

E1(ray)  == eic_distance(Entering(ray), Entering(system.chief))
Ekp(ray) == eic_distance(Leaving(ray), Leaving(system.chief))

\* From the chief ray's exit pupil point to the equally inclined point.
PCoord(ray, cr) ==
    minus(minus(ray.p, times(ray.d, Ekp(ray) - cr.exp_dst)), cr.exp_pt)

wave_abr_pre_calc_finite_pup(ray, cr) ==
    [kind |-> "finite", p_coord |-> PCoord(ray, cr), d |-> ray.d,
     pre_opd |-> (-(abs(system.n_obj) ** E1(ray)) - ray.op
                    + abs(system.n_img) ** Ekp(ray) + system.chief.op) % Prime]

\* A mistake: the sphere is crossed on the far side of the image.
FarSide(sphere, p_coord, d) == 1

sign_soln(sphere, p_coord, d) ==
    IF IsPositive(sphere.ref_dir[3] ** system.chief.d[3]) THEN 1 ELSE -1

\* From the equally inclined point to the sphere.
Ep(sphere, p_coord, d) ==
    LET R == sphere.radius
        F == dot(sphere.ref_dir, d) - Over(dot(d, p_coord), R)
        J == Over(dot(p_coord, p_coord), R) - 2 * dot(sphere.ref_dir, p_coord)
        discriminant == F ** F - Over(J, R)
    IN  IF HasRoot(discriminant)
        THEN <<Over(J, F + sign_soln(sphere, p_coord, d) * sqrt(discriminant))>>
        ELSE NaN

wave_abr_calc_finite_pup(pre, sphere) ==
    LET ep == Ep(sphere, pre.p_coord, pre.d)
    IN  IF ep = NaN THEN NaN ELSE <<(pre.pre_opd - abs(system.n_img) ** ep[1]) % Prime>>

\* The full calculation, and where it finds the ray on the sphere.
wave_abr_calc_finite_pupil(ray, cr, sphere) ==
    LET p_coord == PCoord(ray, cr)
        ep == Ep(sphere, p_coord, ray.d)
    IN  [e1 |-> E1(ray), ekp |-> Ekp(ray), ep |-> ep,
         ray_exit_pupil_coord |->
            IF ep = NaN THEN NaN ELSE <<plus(p_coord, times(ray.d, ep[1]))>>]

wave_abr_full_calc_finite_pup(ray, cr, sphere) ==
    LET r == wave_abr_calc_finite_pupil(ray, cr, sphere)
    IN  IF r.ep = NaN THEN NaN
        ELSE <<(-(abs(system.n_obj) ** r.e1) - ray.op + system.chief.op
                  + abs(system.n_img) ** (r.ekp - r.ep[1])) % Prime>>

-----------------------------------------------------------------------------
(* An infinite one *)

Midpoint(a, b) == divide(plus(a, b), 2)

W0(ray) ==
    LET r == BeforeImage(ray)
        cr == BeforeImage(system.chief)
        join == dist_to_shortest_join(AtImage(system.chief), AtImage(ray))
        V_B == ray.op + ray_dist_to_perp_from_origin(r)
        V_BE == system.chief.op + ray_dist_to_perp_from_origin(cr)
    IN  V_B - V_BE + abs(system.n_img) ** dot(minus(r.d, cr.d), Midpoint(join[1], join[2]))

wave_abr_pre_calc_inf_ref(ray) ==
    [kind |-> "infinite", d |-> ray.d, d_cr |-> system.chief.d,
     pre_opd |-> (-(abs(system.n_obj) ** E1(ray)) - W0(ray)) % Prime]

\* The tilt of the wavefront towards the image point.
Tilt(ray, d, d_cr, sphere) ==
    LET ta == minus(AtImage(ray).p, sphere.image_pt)
    IN  abs(system.n_img)
          ** Over(dot(minus(d_cr, times(d, dot(d, d_cr))), ta), 1 + dot(d, d_cr))

wave_abr_calc_inf_ref(ray, pre, sphere) ==
    <<(pre.pre_opd - Tilt(ray, pre.d, pre.d_cr, sphere)) % Prime>>

wave_abr_full_calc_inf_ref(ray, sphere) ==
    <<(-(abs(system.n_obj) ** E1(ray)) - W0(ray)
         - Tilt(ray, ray.d, system.chief.d, sphere)) % Prime>>

-----------------------------------------------------------------------------
(* One or the other *)

is_kinda_big(sphere) == sphere.radius \in KindaBig
Kind(sphere) == IF is_kinda_big(sphere) THEN "infinite" ELSE "finite"

wave_abr_full_calc(ray, cr, sphere) ==
    IF is_kinda_big(sphere) THEN wave_abr_full_calc_inf_ref(ray, sphere)
    ELSE wave_abr_full_calc_finite_pup(ray, cr, sphere)

wave_abr_pre_calc(ray, cr, sphere) ==
    IF is_kinda_big(sphere) THEN wave_abr_pre_calc_inf_ref(ray)
    ELSE wave_abr_pre_calc_finite_pup(ray, cr)

wave_abr_calc(ray, pre, sphere) ==
    IF is_kinda_big(sphere) THEN wave_abr_calc_inf_ref(ray, pre, sphere)
    ELSE wave_abr_calc_finite_pup(pre, sphere)

-----------------------------------------------------------------------------
(* The analyses of a field *)

Unanalysed == [status |-> "none", opd |-> << >>, abr |-> << >>]

WaveInit ==
    /\ system \in Systems
    /\ setting = << >> /\ fld = << >> /\ kept = << >> /\ result = Unanalysed

\* The field can tell the length of its sphere's radius.
Measured(foc, target) ==
    LET exit == transfer_to_exit_pupil(Leaving(system.chief), system.parax)
        v == PupilToImage(exit, foc, target)
    IN  IsPositive(dot(v, v))

OfEach(value(_)) ==
    [i \in DOMAIN system.rays |-> IF system.rays[i] = Lost THEN NaN ELSE value(system.rays[i])]

eval_wavefront(foc, target) ==
    LET pupil == Pupil(foc, target)
    IN  /\ fld' = pupil
        /\ result' = [Unanalysed EXCEPT !.status = "opd",
             !.opd = OfEach(LAMBDA ray : wave_abr_full_calc(ray, pupil.cr, pupil.sphere))]
        /\ setting' = <<foc, target>>
        /\ UNCHANGED <<system, kept>>

trace_wavefront(foc, target) ==
    LET pupil == Pupil(foc, target)
    IN  /\ fld' = pupil
        /\ kept' = OfEach(LAMBDA ray : <<wave_abr_pre_calc(ray, pupil.cr, pupil.sphere)>>)
        /\ result' = Unanalysed
        /\ setting' = <<foc, target>>
        /\ UNCHANGED system

\* The sphere of the new focus is not left at the field.  What was kept for
\* one kind of sphere cannot serve the other.
focus_wavefront(foc, target) ==
    LET sphere == Pupil(foc, target).sphere
        refocused(i) == IF kept[i] = NaN THEN NaN
                        ELSE wave_abr_calc(system.rays[i], kept[i][1], sphere)
    IN  /\ kept # << >>
        /\ result' = IF \E i \in DOMAIN kept : kept[i] # NaN /\ kept[i][1].kind # Kind(sphere)
                     THEN [Unanalysed EXCEPT !.status = "bad_cast"]
                     ELSE [Unanalysed EXCEPT !.status = "opd",
                             !.opd = [i \in DOMAIN kept |-> refocused(i)]]
        /\ setting' = <<foc, target>>
        /\ UNCHANGED <<system, fld, kept>>

\* Where a ray meets the defocused plane, from the image point.
t_abr(ray, foc, sphere) == minus(Defocused(ray, foc), sphere.image_pt)

\* The fans and spots of a field, whose callbacks read what was left at it.
trace_fan(foc, target) ==
    /\ fld' = Pupil(foc, target)
    /\ result' = [status |-> "opd",
         opd |-> OfEach(LAMBDA ray : wave_abr_full_calc(ray, fld'.cr, fld'.sphere)),
         abr |-> OfEach(LAMBDA ray : <<t_abr(ray, foc, fld'.sphere)>>)]
    /\ setting' = <<foc, target>>
    /\ UNCHANGED <<system, kept>>

\* Each behaviour analyses one field once, and refocuses what it kept.
WaveNext ==
    /\ system # NoSystem
    /\ \E foc \in Foci, target \in Targets :
         /\ Measured(foc, target)
         /\ \/ /\ setting = << >>
               /\ \/ eval_wavefront(foc, target) \/ trace_wavefront(foc, target)
                  \/ trace_fan(foc, target)
            \/ focus_wavefront(foc, target)

-----------------------------------------------------------------------------
(* Properties *)

\* The optical path from the object to the last surface.
PathTo(ray) ==
    abs(system.n_obj) ** dot(ray.d0, minus(ray.p1, system.object)) + ray.op

\* With what is left of the chief ray's path the ray reaches the sphere round
\* the image point through the exit pupil, on the same side of the image.
ReachesSphere(ray, opd, E, C) ==
    LET chief == system.chief
        reached == dot(chief.d, minus(E, chief.p))
        left == Over(PathTo(chief) - PathTo(ray) - opd, abs(system.n_img)) + reached
        B == plus(ray.p, times(ray.d, left))
    IN  /\ dot(minus(C, B), minus(C, B)) = dot(minus(C, E), minus(C, E))
        /\ B = E \/ (IsPositive(dot(ray.d, minus(C, B))) <=> IsPositive(chief.d[3] ** (C[3] - E[3])))

MissesSphere(ray, E, C) ==
    LET b == dot(ray.d, minus(C, ray.p))
    IN  ~HasRoot(b ** b - dot(minus(C, ray.p), minus(C, ray.p)) + dot(minus(C, E), minus(C, E)))

\* The path from the object to the plane wave through the image point, in air.
PathToWave(ray, C) == PathTo(ray) + dot(ray.d, minus(C, ray.p))

\* The OPD of a ray is the difference between the optical paths of the chief
\* ray and of the ray from the object to the reference sphere, or to a plane
\* wave through the chief ray's image point when the sphere is infinite, also
\* when its first part was computed for another focus; and the transverse
\* aberration leads from the image point to where the ray meets the image
\* plane.  (WaveAbr::wave_abr_full_calc and its parts, Analyses::eval_wavefront,
\* focus_wavefront, ray_abr and spot.)
OpdIsPathDifference ==
    result.status = "opd" =>
      LET foc == setting[1]
          target == setting[2]
          E == transfer_to_exit_pupil(Leaving(system.chief), system.parax).exp_pt
          image == ImagePoint(foc, target)
          C == FromLast(image)
          sphere == Pupil(foc, target).sphere
      IN  \A i \in DOMAIN system.rays : system.rays[i] # Lost =>
            LET ray == system.rays[i]
                opd == result.opd[i]
            IN  /\ ~is_kinda_big(sphere) =>
                     IF opd = NaN THEN MissesSphere(ray, E, C)
                     ELSE ReachesSphere(ray, opd[1], E, C)
                /\ is_kinda_big(sphere) /\ system.n_img = 1 /\ target.pt = << >>
                      /\ target.delta = <<0, 0>> =>
                     Same(opd[1], PathToWave(system.chief, C) - PathToWave(ray, C))
                /\ result.abr # << >> =>
                     LET end == plus(image, result.abr[i][1])
                     IN  /\ end[3] = image[3]
                         /\ cross(minus(FromLast(end), ray.p), ray.d) = <<0, 0, 0>>
=============================================================================
