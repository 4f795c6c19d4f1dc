---------------------------- MODULE SurfaceProfile ----------------------------
(***************************************************************************)
(* What one surface does to one ray: where the ray meets it, which way it  *)
(* faces there, and where it sends the ray, for spheres, aspheres of even  *)
(* powers and aspheres of all powers of the distance from the axis, and    *)
(* after a lens has been scaled.                                           *)
(*                                                                         *)
(* Coordinates, cosines and indices are elements of the field.  Apertures  *)
(* are left to RayTrace.                                                   *)
(***************************************************************************)
EXTENDS PrimeCircle

CONSTANTS
    Incidents,      \* [profile, p, d, z_dir, n_in, n_out, mode]: a ray and a surface
    Distances,      \* along a ray to where it may meet an asphere
    ScaleFactors,   \* by which a lens is scaled
    MaxScalings     \* how often

VARIABLES
    incident,       \* as designed, or NoIncident
    profile,        \* of the surface
    scalings,       \* the factors applied so far
    refracted       \* what became of the ray

surfaceVars == <<incident, profile, scalings, refracted>>

NoIncident == << >>
NotTraced == << >>

SurfaceIdle == incident = NoIncident /\ profile = << >> /\ scalings = << >> /\ refracted = NotTraced

-----------------------------------------------------------------------------
(* The profiles: cv is the curvature, ec the conic asphere, coefs the      *)
(* coefficients, of even powers from the second or of all from the first.  *)

SumOf(terms) == FoldFunction(LAMBDA a, b : (a + b) % Prime, 0, terms)

r2(p) == p[1] ** p[1] + p[2] ** p[2]
t(s, p) == 1 - s.ec ** s.cv ** s.cv ** r2(p)

\* No surface above or below the point.
MissesAt(s, p) ==
    IF s.kind = "Spherical" THEN s.cv # 0 /\ ~HasRoot(Reciprocal(s.cv ** s.cv) - r2(p))
    ELSE ~HasRoot(t(s, p))

\* The powers are of the distance, whose root has to be in the field.
Asphere(s, p) ==
    LET step == IF s.kind = "Even" THEN r2(p) ELSE sqrt(r2(p))
    IN  SumOf([i \in DOMAIN s.coefs |-> s.coefs[i] ** Raised(step % Prime, i)])

sag(s, p) ==
    IF s.kind = "Spherical"
    THEN IF s.cv = 0 THEN 0
         ELSE LET r == Reciprocal(s.cv)
                  adj == sqrt(r ** r - r2(p))
              IN  r ** (1 - abs(Over(adj, r)))
    ELSE (Over(s.cv ** r2(p), 1 + sqrt(t(s, p))) + Asphere(s, p)) % Prime

f(s, p) ==
    IF s.kind = "Spherical" THEN (p[3] - Over(s.cv ** dot(p, p), 2)) % Prime
    ELSE (p[3] - sag(s, p)) % Prime

\* The slope of the polynomial, over the distance from the axis.
AsphereSlope(s, p) ==
    LET r == sqrt(r2(p))
    IN  IF s.kind = "Even"
        THEN SumOf([i \in DOMAIN s.coefs |-> (2 * i) ** s.coefs[i] ** Raised(r2(p) % Prime, i - 1)])
        ELSE (IF r = 0 THEN 1 ELSE Reciprocal(r))
                ** SumOf([i \in DOMAIN s.coefs |-> i ** s.coefs[i] ** Raised(r, i - 1)])

df(s, p) ==
    IF s.kind = "Spherical" THEN <<(-s.cv) ** p[1], (-s.cv) ** p[2], (1 - s.cv ** p[3]) % Prime>>
    ELSE LET e_tot == Over(s.cv, sqrt(t(s, p))) + AsphereSlope(s, p)
         IN  <<(-e_tot) ** p[1], (-e_tot) ** p[2], 1>>

normal(s, p) == normalize(df(s, p))

\* A mistake: a coefficient is scaled by the power of its term.
ByPower(s, k) ==
    LET sf == Reciprocal(k)
    IN  [s EXCEPT !.cv = @ ** sf, !.coefs = [i \in DOMAIN @ |->
            @[i] ** Raised(sf, IF s.kind = "Even" THEN 2 * i ELSE i)]]

apply_scale_factor(s, k) ==
    LET sf == Reciprocal(k)
    IN  [s EXCEPT !.cv = @ ** sf, !.coefs = [i \in DOMAIN @ |->
            @[i] ** Raised(sf, IF s.kind = "Even" THEN 2 * i - 1 ELSE i - 1)]]

-----------------------------------------------------------------------------
(* Where a ray meets the surface: a set of the ways it may end *)

MetAt(p) == [status |-> "met", p |-> p]
MissedSurface == [status |-> "missed"]

intersect_spherical(s, p, d, z_dir) ==
    LET cx2 == s.cv ** dot(p, p) - 2 * p[3]
        b == (s.cv ** dot(d, p) - d[3]) % Prime
        tmp == b ** b - s.cv ** cx2
        under == (z_dir * sqrt(tmp) - b) % Prime
    IN  IF b = 0 /\ cx2 % Prime = 0 /\ s.cv = 0 THEN {MetAt(p)}
        ELSE IF ~HasRoot(tmp) THEN {MissedSurface}
        ELSE IF under = 0 THEN {[status |-> "not finite"]}
        ELSE {MetAt(plus(p, times(d, Over(cx2, under))))}

\* The iteration ends on the surface, where it no longer moves, or throws on
\* its way, or gives up silently after a thousand steps anywhere on the ray.
intersect_spencer(s, p, d, size) ==
    LET reached == {plus(p, times(d, distance ** size)) : distance \in Distances}
        crossing == {q \in reached : ~MissesAt(s, q) /\ f(s, q) = 0}
    IN  {MetAt(q) : q \in crossing} \cup {MissedSurface}
          \cup {[status |-> "given up", p |-> q] : q \in reached \ crossing}

intersect(s, p, d, z_dir, size) ==
    IF s.kind = "Spherical" THEN intersect_spherical(s, p, d, z_dir)
    ELSE intersect_spencer(s, p, d, size)

-----------------------------------------------------------------------------
(* Where the surface sends it *)

\* A mistake: the root of a refracted ray always points along the normal.
Onwards(cosI, root) == root
AlongTheRay(cosI, root) == IF IsPositive(cosI) THEN root ELSE -root

TIR == << >>

bend(d_in, n, n_in, n_out) ==
    LET cosI == Over(dot(d_in, n), length(n))
        sqrrt_in == n_out ** n_out - n_in ** n_in ** (1 - cosI ** cosI)
        alpha == AlongTheRay(cosI, sqrt(sqrrt_in)) - n_in ** cosI
    IN  IF ~IsPositive(sqrrt_in) THEN TIR
        ELSE divide(plus(times(d_in, n_in), times(n, alpha)), n_out)

reflect(d_in, n) == minus(d_in, times(n, 2 * Over(dot(d_in, n), length(n))))

After(d_in, n) ==
    CASE incident.mode = "reflect" -> reflect(d_in, n)
      [] incident.mode = "transmit" -> bend(d_in, n, incident.n_in, incident.n_out)
      [] OTHER -> d_in

-----------------------------------------------------------------------------
(* The behaviours *)

SurfaceInit == /\ incident \in Incidents
               /\ profile = incident.profile /\ scalings = << >> /\ refracted = NotTraced

Size == FoldFunction(LAMBDA a, b : a ** b, 1, scalings)

\* Whether the field has the roots that the real numbers have.
Faces(s, p) ==
    /\ s.kind # "Spherical" => HasRoot(r2(p)) /\ t(s, p) % Prime # 0
    /\ ~MissesAt(s, p) => IsPositive(dot(df(s, p), df(s, p)))

Scale == /\ incident # NoIncident /\ refracted = NotTraced /\ Len(scalings) < MaxScalings
         /\ \E k \in ScaleFactors : /\ profile' = apply_scale_factor(profile, k)
                                /\ scalings' = Append(scalings, k)
         /\ UNCHANGED <<incident, refracted>>

\* The lens stands as scaled, and so does the start of the ray.
TraceSurface ==
    /\ incident # NoIncident /\ refracted = NotTraced
    /\ \E end \in intersect(profile, times(incident.p, Size), incident.d, incident.z_dir, Size) :
         IF end.status \in {"missed", "not finite"} THEN refracted' = end
         ELSE IF end.status = "given up" /\ MissesAt(profile, end.p) THEN refracted' = MissedSurface
         ELSE /\ Faces(profile, end.p)
              /\ refracted' = [status |-> end.status, p |-> end.p,
                                d |-> After(incident.d, normal(profile, end.p))]
    /\ UNCHANGED <<incident, profile, scalings>>

SurfaceNext == Scale \/ TraceSurface

-----------------------------------------------------------------------------
(* Properties *)

\* The designed surface from its equation rather than its solution: a conic
\* and a polynomial, whose terms are added up over the distance from the axis
\* and whose slope is taken over that distance.
PowerOf(s, i) == IF s.kind = "Even" THEN 2 * i ELSE i
Polynomial(s, p, factor(_)) ==
    SumOf([i \in DOMAIN s.coefs |-> factor(i) ** s.coefs[i] ** Raised(sqrt(r2(p)), PowerOf(s, i))])
Conic(s, p) == (p[3] - Polynomial(s, p, LAMBDA i : 1)) % Prime
SlopeOf(s, p) ==
    IF s.coefs = << >> \/ r2(p) = 0 THEN 0
    ELSE Over(Polynomial(s, p, LAMBDA i : PowerOf(s, i)), r2(p))
Side(s, p) == (1 - s.cv ** s.ec ** Conic(s, p)) % Prime
OnDesign(s, p) ==
    Same(s.cv ** (r2(p) + s.ec ** Conic(s, p) ** Conic(s, p)), 2 * Conic(s, p))
Facing(s, p) ==
    LET across == -(s.cv + Side(s, p) ** SlopeOf(s, p))
    IN  <<across ** p[1], across ** p[2], Side(s, p)>>

\* On the vertex's side of an asphere, and where the ray crosses a sphere in
\* the sense of its propagation.
OnItsSide(s, p) ==
    LET along == dot(incident.d, Facing(s, p))
    IN  IF s.kind = "Spherical" THEN along = 0 \/ (IsPositive(along) <=> incident.z_dir = 1)
        ELSE IsPositive(Side(s, p))

\* A ray meets a lens that was scaled where the designed surface is, on the
\* scale of the lens, and on the right side of it.  It leaves by the laws of
\* refraction and reflection, or is totally reflected exactly if no direction
\* obeys them.  (SurfaceProfile::intersect, apply_scale_factor and df,
\* RayTrace::bend and reflect.)
SurfacesBendRays ==
    refracted # NotTraced /\ refracted.status \in {"met", "given up"} =>
      LET s == incident.profile
          p == divide(refracted.p, Size)
          G == Facing(s, p)
          d_in == incident.d
          d == refracted.d
          along == dot(d_in, G)
          n_in == incident.n_in
          n_out == incident.n_out
          left == n_out ** n_out ** dot(G, G) - n_in ** n_in ** dot(cross(d_in, G), cross(d_in, G))
      IN  /\ refracted.status = "met" <=> OnDesign(s, p) /\ OnItsSide(s, p)
          /\ cross(minus(p, incident.p), d_in) = <<0, 0, 0>>
          /\ refracted.status = "met" =>
               CASE incident.mode = "reflect" ->
                      dot(d, d) = 1 /\ cross(d, G) = cross(d_in, G) /\ Same(dot(d, G), -along)
                 [] incident.mode = "transmit" /\ d = TIR -> ~IsPositive(left)
                 [] incident.mode = "transmit" /\ d # TIR ->
                      /\ IsPositive(left) /\ dot(d, d) = 1
                      /\ times(cross(d, G), n_out) = times(cross(d_in, G), n_in)
                      /\ along # 0 => (IsPositive(n_out ** dot(d, G)) <=> IsPositive(along))
                 [] OTHER -> d = d_in
=============================================================================
