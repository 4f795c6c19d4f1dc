----------------------------- MODULE FirstOrder -----------------------------
(***************************************************************************)
(* First order (paraxial) optics on top of the sequential model: each      *)
(* update of the optical model traces two paraxial rays from object to     *)
(* image and derives from them the data everything else starts from        *)
(* (src/rayoptics/parax/FirstOrder.cpp, ParaxModel.cpp), and what each     *)
(* surface adds to the five Seidel sums (ThirdOrder.cpp).                  *)
(*                                                                         *)
(* Heights, slopes, curvatures and the derived data are numbers of the     *)
(* prime field.  Distances and indices stay small integers, so that their  *)
(* signs are kept.  The sine and tangent of apertures and angles are left  *)
(* out: such a specification is given by its slope.                        *)
(***************************************************************************)
EXTENDS SequentialModel, PrimeField

CONSTANTS
    CurvatureOf,        \* CurvatureOf[id]: curvature an interface starts with
    EvenPolynomial,     \* by interface id: [cc, a4] of an asphere, or Null
    Specs,              \* [pupil, fov]: apertures and fields, [oi, key, value]
    Far                 \* 1e10, for what is infinitely far or large

VARIABLES
    curv,               \* curvature of each interface, by id
    pupil, fov,         \* optical_spec's aperture and field
    parax_data,         \* optical_spec->parax_data: [ax, pr, fod], or Null
    lens,               \* parax_model's reduced system and rays, or Null
    due,                \* update_optical_properties() is to be called
    since               \* history: what happened since parax_data was computed

paraxVars == <<curv, pupil, fov, parax_data, lens, due, since>>

At(s, i) == IF i < 0 THEN s[Len(s) + 1 + i] ELSE s[i + 1]

central_rndx(i) == At(rndx, i)[osp.reference_wvl]
SignedIndex(i)  == At(z_dir, i) * central_rndx(i)
Thi(gap)  == gaps[CHOOSE i \in DOMAIN gaps : gaps[i].id = gap].thi
Ifc(id)   == ifcs[CHOOSE i \in DOMAIN ifcs : ifcs[i].id = id]
optical_power(id) == (Ifc(id).delta_n * curv[id]) % Prime

Magnitude(n) == IF n < 0 THEN -n ELSE n

CentralPath == BuildPath([wl |-> CentralWvl, start |-> Null, stop |-> Null, step |-> 1])

-----------------------------------------------------------------------------
Yu(ht, slp) == [ht |-> ht % Prime, slp |-> slp % Prime]

(* An iteration of paraxial_trace(): over the gap to the next interface,   *)
(* which bends the ray unless it is a dummy.  n and z are n_before and     *)
(* z_dir_before; the image has neither an index nor a direction.           *)
Bent(b4, gap, seg) ==
    LET ht  == (b4.ht + Thi(gap) * b4.slp) % Prime
        z   == IF seg.zdir = Null THEN b4.z ELSE seg.zdir
        n   == z * (IF seg.indx = Null THEN Magnitude(b4.n) ELSE seg.indx)
        k   == IF Ifc(seg.ifc).mode = "dummy" THEN b4
               ELSE [slp |-> Over(b4.n * b4.slp - ht * optical_power(seg.ifc), n),
                     n |-> n, z |-> z]
    IN  [ht |-> ht, slp |-> k.slp, aoi |-> (k.slp + ht * curv[seg.ifc]) % Prime,
         n |-> k.n, z |-> k.z]

(* paraxial_trace() of one ray.  Rays that start at the first surface are  *)
(* first taken back to the object.                                         *)
paraxial_trace(path, start, yu) ==
    LET ht == yu.ht - (IF start = 1 THEN Thi(path[1].gap) * yu.slp ELSE 0)
        at[i \in 1 .. Len(path)] ==
          IF i = 1
            THEN [ht |-> ht % Prime, slp |-> yu.slp,
                  aoi |-> (yu.slp + (ht % Prime) * curv[path[1].ifc]) % Prime,
                  n |-> path[1].zdir * path[1].indx, z |-> path[1].zdir]
            ELSE Bent(at[i - 1], path[i - 1].gap, path[i])
    IN  [i \in 1 .. Len(path) |-> [ht |-> at[i].ht, slp |-> at[i].slp, aoi |-> at[i].aoi]]

(* The rays that enter the first surface parallel to the axis and on it,   *)
(* and the matrix they give from there to an interface.                    *)
p_ray == paraxial_trace(CentralPath, 1, Yu(1, 0))
q_ray == paraxial_trace(CentralPath, 1, Yu(0, Reciprocal(SignedIndex(0))))

get_parax_matrix(p, q, kth, n_k) ==
    [a |-> At(p, kth).ht, b |-> At(q, kth).ht,
     c |-> (n_k * At(p, kth).slp) % Prime, d |-> (n_k * At(q, kth).slp) % Prime]

Forward(M, v)  == [ht |-> (M.a * v.ht + M.b * v.slp) % Prime,
                   slp |-> (M.c * v.ht + M.d * v.slp) % Prime]
Backward(M, v) == [ht |-> (M.d * v.ht - M.b * v.slp) % Prime,
                   slp |-> (M.a * v.slp - M.c * v.ht) % Prime]

-----------------------------------------------------------------------------
(* The entrance pupil.  Without a stop surface the stop floats: the first  *)
(* time it is put on the first surface or, if the object is not away from  *)
(* that, behind the first gap; from then on the pupil stays where the last *)
(* chief ray had it.                                                       *)
FreshStop == IF gaps[1].thi # 0 THEN 1
             ELSE IF \E i \in DOMAIN gaps : gaps[i].thi # 0
                    THEN CHOOSE i \in DOMAIN gaps :
                            /\ gaps[i].thi # 0
                            /\ \A j \in 1 .. i - 1 : gaps[j].thi = 0
                    ELSE Null

StopUsed == IF stop_surface # Null THEN stop_surface
            ELSE IF parax_data = Null THEN FreshStop ELSE Null

(* Mutant: the stop is taken to be on the first surface.                   *)
ThroughFirst(p, q) == Yu(-At(q, 1).ht, At(p, 1).ht)

(* ybar1 and ubar1: a ray through the middle of the stop.                  *)
ThroughStop(p, q) == LET s == IF StopUsed = Null THEN 1 ELSE StopUsed
                     IN  Yu(-At(q, s).ht, At(p, s).ht)

(* Mutant: the chief ray is followed back from behind the first surface.   *)
EnpDistBehind(p, q) ==
    LET n_0 == SignedIndex(0)
    IN  IF StopUsed # Null
          THEN LET t == ThroughStop(p, q) IN Over(-t.ht, central_rndx(0) * t.slp)
          ELSE IF parax_data = Null THEN 0
          ELSE Over(-parax_data.pr[2].ht, n_0 * parax_data.pr[2].slp)

EnpDist(p, q) ==
    LET n_0 == SignedIndex(0)
    IN  IF StopUsed # Null
          THEN LET t == ThroughStop(p, q) IN Over(-t.ht, central_rndx(0) * t.slp)
          ELSE IF parax_data = Null THEN 0
          ELSE Over(-parax_data.pr[2].ht, n_0 * parax_data.pr[1].slp)

(* PupilSpec::derive_parax_params() and FieldSpec::derive_parax_params().  *)
PupilParax ==
    CASE pupil.key = "NA"   -> [oi |-> pupil.oi, key |-> "Slope", value |-> pupil.value]
      [] pupil.key = "Fnum" -> [oi |-> pupil.oi, key |-> "Slope",
                                value |-> Over(-1, 2 * pupil.value)]
      [] pupil.key = "EPD"  -> [oi |-> pupil.oi, key |-> "Height",
                                value |-> Over(pupil.value, 2)]

FieldParax ==
    [oi |-> fov.oi, key |-> IF fov.key = "Angle" THEN "Slope" ELSE "Height",
     value |-> IF fov.value = 0 THEN 1 ELSE fov.value]

(* Where the two rays start, at the object.  red is the reduction ratio.   *)
AxialStart(enp, red) ==
    LET spec == PupilParax
        slp  == IF spec.key = "Height" THEN Over(spec.value, gaps[1].thi + enp)
                ELSE spec.value
    IN  Yu(0, IF spec.oi = "Object" THEN slp ELSE Over(slp, red))

(* An image height is traced back from the image, an image slope from the  *)
(* last surface, through the exit pupil.                                   *)
ChiefStart(p, q, enp, img) ==
    LET spec == FieldParax
        n_k  == SignedIndex(-1)
        Mk   == get_parax_matrix(p, q, img, n_k)
        k    == Forward(Mk, ThroughStop(p, q))
        exp_dist == Over(-k.ht, n_k * k.slp)
        img2exp  == exp_dist - At(gaps, -1).thi
        fromImage ==
          IF spec.key = "Height"
            THEN Backward(get_parax_matrix(p, q, -1, n_k),
                          Yu(spec.value, Over(-spec.value, img2exp)))
            ELSE Backward(Mk, Yu(-spec.value * exp_dist, spec.value))
        obj2enp  == gaps[1].thi + enp
        From(slp) == Yu(-slp * obj2enp, slp)
    IN  CASE spec.oi = "Object" /\ spec.key = "Slope"  -> From(spec.value)
          [] spec.oi = "Object" /\ spec.key = "Height" ->
               Yu(spec.value, Over(-spec.value, obj2enp))
          [] spec.oi = "Image" -> From(fromImage.slp)

(* Mutant: up to the image.                                                *)
LengthToImage == FoldLeft(LAMBDA a, g : a + g.thi, 0, Slice(gaps, 1, Null, 1))

(* overall_length(): from the first surface to the last.                   *)
overall_length == FoldLeft(LAMBDA a, g : a + g.thi, 0, Slice(gaps, 1, -1, 1))

(* The data of FirstOrderData.  An absolute value is kept with its sign.   *)
Fod(M, ax, pr, img) ==
    LET n_0  == SignedIndex(0)
        n_k  == SignedIndex(-1)
        thi0 == gaps[1].thi
        inv  == (n_0 * (ax[2].ht * pr[1].slp - pr[2].ht * ax[1].slp)) % Prime
        axk  == At(ax, -1).slp
        prk  == At(pr, -1)
        afocal   == M.c = 0
        power    == (-M.c) % Prime
        img_dist == IF afocal \/ At(ax, img).slp = 0 THEN Far
                    ELSE Over(-At(ax, img).ht, At(ax, img).slp)
        fl_obj == IF afocal THEN 0 ELSE Over(n_0, power)
        fl_img == IF afocal THEN 0 ELSE Over(n_k, power)
        pp1 == ((1 - M.d) * fl_obj) % Prime
        ppk == ((M.a - 1) * fl_img) % Prime
        nu_pr0 == n_0 * pr[1].slp
    IN  [opt_inv |-> inv, power |-> power, img_dist |-> img_dist,
         fl_obj |-> fl_obj, efl |-> fl_img, pp1 |-> pp1, ppk |-> ppk,
         ffl |-> (pp1 - fl_obj) % Prime, bfl |-> (ppk + fl_img) % Prime,
         pp_sep |-> (overall_length - pp1 + ppk) % Prime,
         fno    |-> IF At(ax, img).slp = 0 THEN Far ELSE Over(-1, 2 * n_k * axk),
         img_ht |-> IF At(ax, img).slp = 0 THEN Far ELSE Over(-inv, n_k * axk),
         m   |-> (M.a + Over(M.c * img_dist, n_k)) % Prime,
         red |-> (M.d + M.c * thi0) % Prime,
         enp_dist   |-> IF pr[1].slp = 0 THEN -Far ELSE Over(-pr[2].ht, nu_pr0),
         enp_radius |-> IF pr[1].slp = 0 THEN Far ELSE Over(inv, nu_pr0),
         exp_dist   |-> IF prk.slp = 0 THEN -Far
                        ELSE (img_dist - Over(prk.ht, prk.slp)) % Prime,
         exp_radius |-> IF prk.slp = 0 THEN Far ELSE Over(inv, n_k * prk.slp),
         obj_na |-> (n_0 * z_dir[1] * ax[1].slp) % Prime,
         img_na |-> (n_k * At(z_dir, -1) * axk) % Prime]

compute_first_order ==
    LET p   == p_ray
        q   == q_ray
        img == IF NumIfcs > 2 THEN -2 ELSE -1
        M   == get_parax_matrix(p, q, img, SignedIndex(-1))
        enp == EnpDist(p, q)
        ax  == paraxial_trace(CentralPath, 0, AxialStart(enp, M.d + gaps[1].thi * M.c))
        pr  == paraxial_trace(CentralPath, 0, ChiefStart(p, q, enp, img))
    IN  [ax |-> ax, pr |-> pr, fod |-> Fod(M, ax, pr, img)]

(* ParaxModel::build_lens(): per interface its power, the reduced distance *)
(* to the next and the index, and the two rays with reduced slopes.        *)
build_lens(data) ==
    LET path == BuildPath([wl |-> Null, start |-> Null, stop |-> Null, step |-> Null])
        n(i) == LET k == IF path[i].gap = Null THEN i - 1 ELSE i
                IN  path[k].zdir * path[k].indx
        tau(i) == IF path[i].gap = Null THEN 0 ELSE Over(Thi(path[i].gap), n(i))
        Reduced(ray) == [i \in 1 .. Len(path) |-> Yu(ray[i].ht, n(i) * ray[i].slp)]
    IN  [sys |-> [i \in 1 .. Len(path) |->
                    [power |-> optical_power(path[i].ifc), tau |-> tau(i), indx |-> n(i)]],
         ax |-> Reduced(data.ax), pr |-> Reduced(data.pr)]

-----------------------------------------------------------------------------
(* One iteration of compute_third_order(), at a surface between indices.   *)
Contribution(i, n_before, n_after) ==
    LET y   == parax_data.ax[i].ht
        inv == parax_data.fod.opt_inv
        A     == (n_after * parax_data.ax[i].aoi) % Prime
        Abar  == (n_after * parax_data.pr[i].aoi) % Prime
        P     == (curv[ifcs[i].id] * (Over(1, n_after) - Over(1, n_before))) % Prime
        delta == (y * (Over(parax_data.ax[i].slp, n_after)
                        - Over(parax_data.ax[i - 1].slp, n_before))) % Prime
        dn2   == (Over(1, n_after * n_after) - Over(1, n_before * n_before)) % Prime
        Abar2 == (Abar * Abar) % Prime
        lean  == (((inv + Abar * y) % Prime) * parax_data.pr[i].ht) % Prime
    IN  [A |-> A, Abar |-> Abar,
         SI   |-> (-((A * A) % Prime) * delta) % Prime,
         SII  |-> (-((A * Abar) % Prime) * delta) % Prime,
         SIII |-> (-Abar2 * delta) % Prime,
         SIV  |-> (-((inv * inv) % Prime) * P) % Prime,
         SV   |-> (-Abar * ((((Abar2 * dn2) % Prime) * y - lean * P) % Prime)) % Prime]

(* aspheric_seidel_contribution(): the sums of a plate at the surface, by  *)
(* the eccentricity e of the chief ray there.                              *)
calc_4th_order_aspheric_term(id) ==
    LET c == curv[id]
    IN  (Over(EvenPolynomial[id].cc * ((c * c) % Prime), 8) * c
            + EvenPolynomial[id].a4) % Prime

delta_E(z, y, u, n) == Over(-z, ((n * y) % Prime) * ((y + z * u) % Prime))

Aspheric(i, n_before, n_after) ==
    LET ax == parax_data.ax[i]
        pr == parax_data.pr[i]
        y2 == (ax.ht * ax.ht) % Prime
        e  == IF pr.slp = 0 THEN Over(pr.ht, ax.ht)
              ELSE (parax_data.fod.opt_inv
                      * delta_E(Over(-pr.ht, pr.slp), ax.ht, ax.slp, n_after)) % Prime
        SI == (((8 * calc_4th_order_aspheric_term(ifcs[i].id) * (n_after - n_before))
                    % Prime) * ((y2 * y2) % Prime)) % Prime
        e2 == (e * e) % Prime
    IN  [SI |-> SI, SII |-> (SI * e) % Prime, SIII |-> (SI * e2) % Prime,
         SIV |-> 0, SV |-> (SI * ((e2 * e) % Prime)) % Prime]

(* compute_third_order(): the index changes along, signed by the direction,*)
(* but the object's, which has no sign.                                    *)
IndexAfter(i)  == z_dir[i] * rndx[i][osp.reference_wvl]

(* Mutant: the index before every surface is the object's.                 *)
IndexOfObject(i) == central_rndx(0)

IndexBefore(i) == IF i = 2 THEN central_rndx(0) ELSE IndexAfter(i - 1)

compute_third_order ==
    [i \in 2 .. NumIfcs - 1 |->
       [seidel |-> Contribution(i, IndexBefore(i), IndexAfter(i)),
        aspheric |-> IF EvenPolynomial[ifcs[i].id] = Null THEN Null
                     ELSE Aspheric(i, IndexBefore(i), IndexAfter(i))]]

-----------------------------------------------------------------------------
ParaxInit ==
    /\ Init
    /\ curv = CurvatureOf
    /\ \E spec \in Specs : pupil = spec.pupil /\ fov = spec.fov
    /\ parax_data = Null /\ lens = Null
    /\ due = FALSE /\ since = "edit"

(* The client builds and edits the design (bounds: once updated, in one    *)
(* step between two updates; once scaled, no more).                        *)
Design ==
    /\ \/ \E mode \in Mode, m \in Medium, t \in Thickness :
            \/ AddSurface(mode, m, t)
            \/ \E idx \in 1 .. NumIfcs - 1 : InsertSurface(idx, mode, m, t)
       \/ \E i \in DOMAIN gaps, t \in Thickness : EditGap(i, t)
       \/ \E idx \in 0 .. NumIfcs - 1 : SetStop(idx)
    /\ ~due
    /\ parax_data = Null \/ since # "edit"
    /\ curv = CurvatureOf
    /\ since' = "edit"
    /\ UNCHANGED <<curv, pupil, fov, parax_data, lens, due>>

(* OpticalModel::update_model(): the sequential model first ...            *)
Update ==
    /\ ~due
    /\ UpdateModel
    /\ due' = TRUE
    /\ UNCHANGED <<curv, pupil, fov, parax_data, lens, since>>

(* ... OpticalModel::apply_scale_factor(): the design and those of the     *)
(* specifications that are lengths, but real image heights (bound: once)   *)
(* ...                                                                     *)
Scale(factor) ==
    /\ ~due /\ ~edited /\ since = "nothing" /\ curv = CurvatureOf
    /\ ApplyScaleFactor(factor, << >>)
    /\ curv' = [id \in DOMAIN curv |-> Over(curv[id], factor)]
    /\ pupil' = IF pupil.key = "EPD" THEN [pupil EXCEPT !.value = factor * @] ELSE pupil
    /\ fov' = IF fov.key = "Height" THEN [fov EXCEPT !.value = factor * @] ELSE fov
    /\ due' = TRUE
    /\ since' = "scale"
    /\ UNCHANGED <<parax_data, lens>>

(* ... then, for both, what depends on it, if there are surfaces.          *)
UpdateOpticalProperties ==
    /\ due
    /\ due' = FALSE
    /\ IF NumIfcs > 2
         THEN /\ parax_data' = compute_first_order
              /\ lens' = build_lens(parax_data')
              /\ since' = "nothing"
         ELSE UNCHANGED <<parax_data, lens, since>>
    /\ UNCHANGED <<vars, curv, pupil, fov>>

ParaxNext == Design \/ Update \/ Scale(2) \/ UpdateOpticalProperties

ParaxSpec == ParaxInit /\ [][ParaxNext]_<<vars, paraxVars>>
-----------------------------------------------------------------------------
(* The data is that of the design as it is.                                *)
Computed == ~due /\ since = "nothing" /\ parax_data # Null

(* The index behind an interface, negative behind an odd number of mirrors;*)
(* behind the image that of the last gap.                                  *)
N(i) == LET k == Min({i, Len(gaps)})
            mirrors == {j \in 1 .. k : ifcs[j].mode = "reflect"}
        IN  (IF Cardinality(mirrors) % 2 = 0 THEN 1 ELSE -1)
                * RIndex[gaps[k].medium][CentralWvl]

(* Between the interfaces the rays are straight, and at each of them they  *)
(* keep n (u + y c), the first order form of the law of refraction and of  *)
(* reflection, however the powers, directions and indices they are traced  *)
(* with were put together.  The reduced system holds the same two rays.    *)
RaysObeyFirstOrderOptics ==
    Computed =>
        /\ \A ray \in {parax_data.ax, parax_data.pr} : \A i \in 2 .. NumIfcs :
              LET c == curv[ifcs[i].id]
              IN  /\ Same(ray[i].ht, ray[i - 1].ht + gaps[i - 1].thi * ray[i - 1].slp)
                  /\ Same(N(i) * (ray[i].slp + ray[i].ht * c),
                          N(i - 1) * (ray[i - 1].slp + ray[i].ht * c))
        /\ \A pair \in {<<lens.ax, parax_data.ax>>, <<lens.pr, parax_data.pr>>} :
              \A i \in 2 .. NumIfcs :
                LET ray == pair[1]
                    b4  == lens.sys[i - 1]
                IN  /\ ray[i].ht = pair[2][i].ht
                    /\ Same(ray[i].slp, N(i) * pair[2][i].slp)
                    /\ Same(ray[i].ht, ray[i - 1].ht + b4.tau * ray[i - 1].slp)
                    /\ Same(ray[i].slp, ray[i - 1].slp - ray[i].ht * lens.sys[i].power)

(* The rays are those that were asked for: the axial ray has the aperture  *)
(* and the chief ray the field that is specified, and the chief ray goes   *)
(* through the middle of the stop -- where the stop, the pupils and the    *)
(* object are not where one of these cannot be had.  An image height is met*)
(* only where the light arrives in air and forwards.                       *)
FirstOrderMeetsSpecs ==
    Computed =>
        LET ax == parax_data.ax
            pr == parax_data.pr
            obj2enp == (gaps[1].thi + parax_data.fod.enp_dist) % Prime
            p == p_ray
            q == q_ray
            k == Forward(get_parax_matrix(p, q, -1, SignedIndex(-1)), ThroughStop(p, q))
            regular == /\ stop_surface # Null
                       /\ At(p, stop_surface).ht # 0
                       /\ pr[1].slp # 0 /\ obj2enp # 0
        IN  /\ regular => pr[stop_surface + 1].ht = 0
            /\ pupil.key = "Fnum" /\ parax_data.fod.red # 0 =>
                  Same(2 * N(NumIfcs) * At(ax, -1).slp * pupil.value, -1)
            /\ pupil.key = "EPD" /\ regular =>
                  Same(2 * ax[1].slp * obj2enp, pupil.value)
            /\ fov.key = "Angle" => pr[1].slp = fov.value
            /\ fov.oi = "Object" /\ fov.key = "Height" => pr[1].ht = fov.value
            /\ fov.oi = "Image" /\ regular /\ N(NumIfcs) = 1 /\ k.ht # 0 /\ k.slp # 0 =>
                  At(pr, -1).ht = fov.value

(* The derived data describe one system: principal planes, focal lengths   *)
(* and distances satisfy the lens equation, the magnification is the       *)
(* reciprocal of the reduction and the ratio of image and object height, a *)
(* parallel ray meets the axis in the focal point, and the planes are as   *)
(* far apart as the layout has them.                                       *)
DataDescribeOneSystem ==
    Computed /\ parax_data.fod.power # 0 /\ At(parax_data.ax, -2).slp # 0 =>
        LET d == parax_data.fod
            y == parax_data.pr[1].ht
            s  == (gaps[1].thi + d.pp1) % Prime
            s_ == (d.img_dist - d.ppk) % Prime
            p  == At(p_ray, -2)
        IN  /\ Same(N(1) * s_ + N(NumIfcs) * s, d.power * ((s * s_) % Prime))
            /\ Same(d.m * d.red, 1)
            /\ Same(At(parax_data.pr, -2).ht + d.img_dist * At(parax_data.pr, -2).slp,
                    d.m * y)
            /\ Same(d.img_ht, d.m * y)
            /\ Same(p.ht + d.bfl * p.slp, 0)
            /\ Same(d.pp_sep, gbl_tfrms[NumIfcs - 1] + d.ppk - d.pp1)

(* The five sums of a surface belong together: distortion is to coma what  *)
(* field curvature is to spherical aberration -- A SV = Abar (SIII + SIV) --*)
(* although its formula is another, one that does not divide by A; and     *)
(* what an asphere adds goes by the ratio of the chief to the axial height,*)
(* however the eccentricity was computed.                                  *)
SeidelSumsAgree ==
    Computed =>
        \A i \in 2 .. NumIfcs - 1 :
            LET s == compute_third_order[i].seidel
                a == compute_third_order[i].aspheric
                y == parax_data.ax[i].ht
            IN  /\ Same(s.A * s.SV, s.Abar * ((s.SIII + s.SIV) % Prime))
                /\ a # Null /\ y # 0 /\ parax_data.fod.opt_inv # 0 =>
                      /\ Same(a.SII * y, a.SI * parax_data.pr[i].ht)
                      /\ Same(a.SV * y, a.SIII * parax_data.pr[i].ht)

(* The first-order data are of the system asked for and of one system, and *)
(* so are the aberration sums.                                             *)
FirstOrderFitsTogether ==
    FirstOrderMeetsSpecs /\ DataDescribeOneSystem /\ SeidelSumsAgree

Seen(ray)     == [i \in DOMAIN ray |-> Yu(ray[i].ht, ray[i].slp)]
Enlarged(ray) == [i \in DOMAIN ray |-> Yu(2 * ray[i].ht, ray[i].slp)]

(* Updating a design that has not changed changes nothing, although a      *)
(* floating stop is then found another way -- unless the object is at the  *)
(* first surface, where the two ways differ.  And a scaled lens has the old*)
(* rays, longer: the heights grow, the slopes do not -- but for a floating *)
(* stop and a real image height, which stay behind.                        *)
RecomputingKeepsTheRays ==
    [][due /\ ~due' =>
         /\ /\ since = "nothing" /\ parax_data.pr[1].slp # 0
            /\ stop_surface = Null => gaps[1].thi # 0
            => UNCHANGED <<parax_data, lens>>
         /\ since = "scale" /\ stop_surface # Null =>
              /\ Seen(parax_data'.ax) = Enlarged(parax_data.ax)
              /\ fov.key # "RealHeight" =>
                    Seen(parax_data'.pr) = Enlarged(parax_data.pr)
      ]_<<vars, paraxVars>>
=============================================================================
