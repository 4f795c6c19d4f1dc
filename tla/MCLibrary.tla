------------------------------ MODULE MCLibrary -------------------------------
(***************************************************************************)
(* The parts that know nothing of a lens but what is handed to them, one   *)
(* of them in each behaviour: the ring of paths with the callers that hold *)
(* references into it, transforms of a line and MTFs of a pupil, the steps *)
(* of the two solvers, sets of interpolated samples, rays at one surface,  *)
(* wavefronts from traced rays, and contrast samples.  The circle of Prime = 5879 has 5880  *)
(* = 8 * 3 * 5 * 49 points, so that every length below has its angles; the *)
(* lengths meet each pass first, last and between others, the general one  *)
(* (7, 49) included.                                                       *)
(***************************************************************************)
EXTENDS PathCacheClient, DiffractionMTF, LeastSquares, Interpolated1d,
        SurfaceProfile, WaveAbr, Contrast

MCUnit == <<21, 2174>>

(* Lines with one number other than nought, which together decide a linear *)
(* map, and one with none.                                                 *)
UnitAt(n, k, v) == [m \in 0 .. n - 1 |-> IF m = k THEN v ELSE Zero]
Generic(n) == [m \in 0 .. n - 1 |-> <<(m * m + 3) % Prime, (5 * m * m * m + m) % Prime>>]
MCInputs(n) == {Generic(n)} \cup
    IF n > 12 THEN {} ELSE {UnitAt(n, k, v) : k \in 0 .. n - 1, v \in {One, <<0, 1>>}}
MCSizes == {1, 2, 3, 4, 5, 6, 7, 8, 10, 12, 14, 15, 20, 21, 24, 28, 30, 35, 40, 42,
            49, 56, 60, 98, 105}

(* Pupils with every ray, with the corners and a diagonal lost, and dark.  *)
Bright(n) == [i \in 1 .. n |-> [j \in 1 .. n |-> (37 * i * i + 911 * j + 5 * i * j * j) % 5880]]
Round(n) == [i \in 1 .. n |-> [j \in 1 .. n |->
    IF {i, j} \subseteq {1, n} \/ i + j = 5 THEN Null ELSE Bright(n)[i][j]]]
Failed(n) == [i \in 1 .. n |-> [j \in 1 .. n |-> Null]]
MCWavefronts == {Bright(2), Bright(3), Bright(4), Round(4), Failed(4), Bright(6), Round(6)}

(* Problems of n unknowns and m residuals, and square ones whose Jacobian  *)
(* lacks a column, repeats one, or whose residuals are nought.             *)
Entry(s, k) == <<(s * 37 + k * k * 101 + s * s * k * 7 + k * 13 + 5) % Prime, 0>>
Column_(s, m, o) == Kept([i \in 1 .. m |-> Entry(s, i + o)])
Problem(s, n, m) ==
    [fjac |-> Kept([j \in 1 .. n |-> Column_(s, m, 10 * j)]),
     fvec |-> Column_(s, m, 100), diag |-> Column_(s, n, 200), delta |-> Entry(s, 300),
     par |-> IF s % 2 = 0 THEN Zero ELSE Entry(s, 301),
     trial |-> Column_(s, m, 310), accepted |-> s % 3 = 0]
Deficient(s) ==
    LET square == Problem(s, 2, 2)
    IN  {[square EXCEPT !.fjac[2] = <<Zero, Zero>>],
         [square EXCEPT !.fjac[2] = [i \in 1 .. 2 |-> Scaled(2, square.fjac[1][i])]],
         [square EXCEPT !.fvec = <<Zero, Zero>>],
         [Problem(s, 3, 3) EXCEPT !.fjac[1] = <<Zero, Zero, Zero>>],
         [Problem(s, 2, 3) EXCEPT !.fjac[1] = <<Zero, Zero, Zero>>]}
MCProblems ==
    UNION {Deficient(s) : s \in 1 .. 20}
        \cup {Problem(s, 2, 2) : s \in 1 .. 150} \cup {Problem(s, 2, 3) : s \in 1 .. 100}
        \cup {Problem(s, 3, 3) : s \in 1 .. 300} \cup {Problem(s, 1, m) : s, m \in 1 .. 2}

(* Two generic curves of samples with their slopes.                        *)
MCSample(x, v) ==
    [x |-> x, y |-> (x * x * x * 7 + v * (x * 31 + 411) + 3) % Prime,
     d |-> (v * x * x * 13 + 77 + x) % Prime]

(* A unit direction, from two angles.                                      *)
Heading(a, b) ==
    LET across == Turn(b, 840)
        up == Turn(a, 840)
    IN  <<(up[2] * across[1]) % Prime, (up[2] * across[2]) % Prime, up[1]>>

(* Rays that reach, if they can, nine surfaces of the three kinds at the   *)
(* nearer distance.                                                        *)
Profiles ==
    {[kind |-> "Spherical", cv |-> c, ec |-> 1, coefs |-> << >>] : c \in {0, 3, Prime - 11}}
        \cup {[kind |-> "Even", cv |-> 5, ec |-> e, coefs |-> <<2, 9, 31>>] : e \in {0, 1, 4}}
        \cup {[kind |-> "Even", cv |-> 0, ec |-> 1, coefs |-> <<7>>]}
        \cup {[kind |-> "Radial", cv |-> 8, ec |-> e, coefs |-> <<3, 12, 5>>] : e \in {1, 6}}
Place(s, a, d) ==
    LET q == <<(31 * a) % Prime, (17 * a * a + 5) % Prime, 0>>
        p == <<q[1], q[2], IF MissesAt(s, q) THEN 12 ELSE sag(s, q)>>
    IN  minus(p, times(d, 7))
MCIncidents ==
    {[profile |-> s, d |-> Heading(a + i, 3 * a), p |-> Place(s, a, Heading(a + i, 3 * a)),
      z_dir |-> IF a % 3 = 0 THEN -1 ELSE 1, n_in |-> i, n_out |-> 5 - i,
      mode |-> IF a % 5 = 0 THEN "reflect" ELSE IF a % 7 = 0 THEN "dummy" ELSE "transmit"]
        : s \in Profiles, a \in 1 .. 12, i \in {1, 3}}

(* Rays from one object point, or parallel ones, and a chief ray in the    *)
(* meridional plane.                                                       *)
Object(s) == <<0, (7 * s) % Prime, (-100 * s - 3) % Prime>>
Beam(s, a, b, far) ==
    LET d0 == IF far THEN Heading(11 + s, 210) ELSE Heading(a, b)
    IN  [d0 |-> d0,
         p1 |-> IF far THEN <<(a * 3) % Prime, (b + 2 * a) % Prime, (a * a) % Prime>>
                ELSE plus(Object(s), times(d0, 101 + 13 * a + b)),
         p |-> <<(17 * a + b) % Prime, (5 * b + a * a) % Prime, (3 * a + s) % Prime>>,
         d |-> Heading(a + 2 * b + s, 3 * a + b + 1), op |-> (211 * a + 31 * b * b + 7 * s) % Prime]
Lens(s) ==
    LET far == s % 2 = 0
        chief == [Beam(s, 2, 210, far) EXCEPT !.d = Heading(s - 3, 210), !.p[1] = 0]
    IN  [n_obj |-> IF s % 3 = 0 THEN -1 ELSE 1, n_img |-> IF s % 4 = 3 THEN 3 ELSE 1,
         thi |-> 40 + s, parax |-> -50 - s, object |-> Object(s), chief |-> chief,
         rays |-> <<chief, Beam(s, 1, 50, far), Lost, Beam(s, 4, 333, far),
                    Beam(s, 5, 111, far)>>]
MCSystems == {Lens(s) : s \in 1 .. 8}
MCTargets == {[pt |-> << >>, delta |-> <<0, 0>>], [pt |-> <<3, 8>>, delta |-> <<0, 0>>],
              [pt |-> << >>, delta |-> <<2, -5>>]}
MCBig == {r \in 0 .. Prime - 1 : r % 5 = 0}

(* Fields that are vignetted on any side, up to a whole half of the pupil, *)
(* at six frequencies; and calibrations that succeed, fail and are refused.*)
Vignetted == {[vlx |-> a, vux |-> b, vly |-> c, vuy |-> d] :
                a \in {0, 2}, b \in {0, 1, 4}, c \in {0, 3}, d \in {0, 2}}
Pattern == <<[pupil |-> <<384, 0>>, weight |-> 3], [pupil |-> <<-192, 320>>, weight |-> 2],
             [pupil |-> <<-192, -320>>, weight |-> 5], [pupil |-> <<128, 64>>, weight |-> 1],
             [pupil |-> <<-64, -128>>, weight |-> 1]>>
MCRequests ==
    {[fld |-> v, cx |-> 0, cy |-> 0, nominal |-> Pattern, nu |-> nu, fno |-> 64,
      unity |-> 2560, gain |-> <<20, 20>>, calibrate |-> FALSE] : v \in Vignetted, nu \in 0 .. 5}
        \cup {[fld |-> [vlx |-> 0, vux |-> 1, vly |-> 2, vuy |-> 0], cx |-> 0, cy |-> 0,
               nominal |-> Pattern, nu |-> nu, fno |-> -64, unity |-> 2560,
               gain |-> <<g, h>>, calibrate |-> TRUE]
                 : nu \in 1 .. 3, g \in {20, -16, 10, 5, 40, Gone}, h \in {20, 32, 0}}

(* Samples at three wavelengths, some of which fail, and no reference now  *)
(* and then.                                                               *)
Pick(s, k) ==
    LET v == (s * 7 + k * k * 5 + s * s * k) % 23
    IN  IF v = 0 THEN Gone ELSE IF v = 1 THEN NotFinite ELSE v - 11
MCTraces ==
    {[reference |-> s % 4, blocks |-> [w \in 1 .. 3 |-> [i \in 1 .. 3 |->
        [weight |-> 1 + ((s + i * w) % 3), rays |-> [k \in 1 .. 3 |-> Pick(s, 9 * w + 3 * i + k)]]]]]
          : s \in 1 .. 60}

NoLine == job = Null /\ wtable = Null /\ pass = Null
NoImage == maxdim = 0 /\ wavefront = << >> /\ stage = "none" /\ grid = << >> /\ line = 0
NoProblem == problem = Unsolved /\ solution = Unsolved
NoCurves == curves = <<Fresh(1), Fresh(2)>> /\ operations = MaxOperations
NoNumbers == NoLine /\ NoImage /\ NoProblem /\ NoCurves
NoWave == /\ system = NoSystem /\ setting = << >> /\ fld = << >> /\ kept = << >>
          /\ result = Unanalysed
NoLight == SurfaceIdle /\ NoWave /\ ContrastIdle

transformVars == <<lineVars, imageVars>>
numberVars == <<transformVars, solverVars, curveVars>>
lightVars == <<surfaceVars, waveVars, contrastVars>>

Nothing == NoNumbers /\ NoLight

NumbersInit == \/ NoNumbers
               \/ LineInit /\ NoImage /\ NoProblem /\ NoCurves
               \/ ImageInit /\ NoProblem /\ NoCurves
               \/ SolverInit /\ NoLine /\ NoImage /\ NoCurves
               \/ CurveInit /\ NoLine /\ NoImage /\ NoProblem
LightInit == \/ SurfaceInit /\ NoWave /\ ContrastIdle
             \/ WaveInit /\ SurfaceIdle /\ ContrastIdle
             \/ ContrastInit /\ SurfaceIdle /\ NoWave
Init == ClientInit /\ ((NumbersInit /\ NoLight) \/ (LightInit /\ NoNumbers))

Line == job # Null /\ Pass /\ UNCHANGED imageVars
Numbers == \/ (Line \/ ImageNext) /\ UNCHANGED <<solverVars, curveVars>>
           \/ problem # Unsolved /\ Solve /\ UNCHANGED <<transformVars, curveVars>>
           \/ CurveNext /\ UNCHANGED <<transformVars, solverVars>>
Light == \/ SurfaceNext /\ UNCHANGED <<waveVars, contrastVars>>
         \/ WaveNext /\ UNCHANGED <<surfaceVars, contrastVars>>
         \/ ContrastNext /\ UNCHANGED <<surfaceVars, waveVars>>
Next == \/ Nothing /\ ClientNext /\ UNCHANGED <<numberVars, lightVars>>
        \/ Numbers /\ UNCHANGED <<clientVars, lightVars>>
        \/ Light /\ UNCHANGED <<clientVars, numberVars>>
Spec == Init /\ [][Next]_<<clientVars, numberVars, lightVars>>
=============================================================================
