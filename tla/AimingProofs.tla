---------------------------- MODULE AimingProofs ----------------------------
(* For any points, distances and limits of the hybrid method, the ray it    *)
(* returns is the ray of its solution, and no step moves away from the      *)
(* target.  For any lenses, step, trials and samples of the wide-angle      *)
(* search, its interval straddles the stop centre, it finds a centre in     *)
(* reach, and aiming again does not move the pupil.                         *)
EXTENDS Aiming, WellFoundedInduction, TLAPS

-----------------------------------------------------------------------------
(* The hybrid method *)

Places == {"start", "jacobian", "trial", "return", "aimed", "secant", "threw"}

ShapeOK ==
  /\ norm \in [Points -> 0 .. Dark]
  /\ x \in Points
  /\ last \in Points \union {Probe}
  /\ at \in Places

IInv == ShapeOK /\ AimedRayIsReturned

LEMMA DarkIsNat == Dark \in Nat
  BY HybrdAssumption DEF Dark

\* A step that is accepted has brought a reduction.
LEMMA AcceptedReduces ==
  ASSUME ShapeOK, NEW p \in Points,
         NEW actred \in Reductions(p), NEW ratio \in Ratios(actred),
         Accepted(ratio)
  PROVE  norm[p] < norm[x]
<1>1. norm[p] \in Int /\ norm[x] \in Int
  BY DarkIsNat DEF ShapeOK
<1>2. actred # "none"
  BY DEF Ratios, Accepted
<1>3. CASE norm[p] >= norm[x]
  BY <1>2, <1>3 DEF Reductions
<1> QED
  BY <1>1, <1>3

\* What one trial step leaves behind.
LEMMA TrialStep ==
  ASSUME ShapeOK, Trial
  PROVE  /\ norm' = norm
         /\ x' \in Points
         /\ norm[x'] <= norm[x]
         /\ last' \in Points
         /\ at' \in {"return", "jacobian", "trial"}
<1>1. PICK p \in Points, converged \in BOOLEAN, stuck \in BOOLEAN :
        /\ Evaluate(p)
        /\ \E actred \in Reductions(p) : \E ratio \in Ratios(actred) :
             /\ x' = (IF Accepted(ratio) THEN p ELSE x)
             /\ at' = IF info' # 0 THEN "return"
                      ELSE IF ncfail' = 2 THEN "jacobian" ELSE "trial"
  BY DEF Trial
<1>2. PICK actred \in Reductions(p) : \E ratio \in Ratios(actred) :
        /\ x' = (IF Accepted(ratio) THEN p ELSE x)
        /\ at' = IF info' # 0 THEN "return"
                 ELSE IF ncfail' = 2 THEN "jacobian" ELSE "trial"
  BY <1>1
<1>3. PICK ratio \in Ratios(actred) :
        /\ x' = (IF Accepted(ratio) THEN p ELSE x)
        /\ at' = IF info' # 0 THEN "return"
                 ELSE IF ncfail' = 2 THEN "jacobian" ELSE "trial"
  BY <1>2
<1>4. norm' = norm
  BY DEF Trial
<1>5. last' = p
  BY <1>1 DEF Evaluate
<1>6. norm[x] \in Int /\ norm[p] \in Int
  BY DarkIsNat DEF ShapeOK
<1>7. x' \in Points /\ norm[x'] <= norm[x]
  <2>1. CASE Accepted(ratio)
    <3>1. norm[p] < norm[x]
      BY <2>1, AcceptedReduces
    <3> QED
      BY <1>3, <1>6, <2>1, <3>1
  <2>2. CASE ~Accepted(ratio)
    BY <1>3, <1>6, <2>2 DEF ShapeOK
  <2> QED
    BY <2>1, <2>2
<1> QED
  BY <1>3, <1>4, <1>5, <1>7

\* Every other step of the hybrid method stays at its point, and control
\* reaches "aimed" only through Judge.
LEMMA OtherStep ==
  ASSUME ShapeOK, First \/ Jacobian \/ JacobianThrows \/ TrialThrows
  PROVE  /\ norm' = norm /\ x' = x
         /\ last' \in Points \union {Probe}
         /\ at' \in {"threw", "jacobian", "trial"}
<1>1. CASE First
  BY <1>1 DEF First, Evaluate, Throws, ShapeOK
<1>2. CASE Jacobian
  BY <1>2 DEF Jacobian
<1>3. CASE JacobianThrows
  BY <1>3 DEF JacobianThrows, Throws
<1>4. CASE TrialThrows
  BY <1>4 DEF TrialThrows, Evaluate, Throws
<1> QED
  BY <1>1, <1>2, <1>3, <1>4

\* The caller takes a solution whose ray it has just traced.
LEMMA JudgeStep ==
  ASSUME ShapeOK, Judge
  PROVE  /\ norm' = norm /\ x' = x /\ last' = x
         /\ at' \in {"aimed", "threw"}
         /\ at' = "aimed" => norm[x] <= 1
BY DEF Judge, hybrd1

LEMMA HybrdStepOK ==
  ASSUME IInv, TwoDimensional
  PROVE  IInv' /\ norm'[x'] <= norm[x]
<1>1. ShapeOK /\ norm[x] \in Int
  BY DarkIsNat DEF IInv, ShapeOK
<1>2. CASE Trial
  <2>1. /\ norm' = norm /\ x' \in Points /\ norm[x'] <= norm[x]
        /\ last' \in Points /\ at' \in {"return", "jacobian", "trial"}
    BY <1>1, <1>2, TrialStep
  <2>2. at' # "aimed" /\ at' \in Places
    BY <2>1 DEF Places
  <2> QED
    BY <1>1, <2>1, <2>2 DEF IInv, ShapeOK, AimedRayIsReturned
<1>3. CASE First \/ Jacobian \/ JacobianThrows \/ TrialThrows
  <2>1. /\ norm' = norm /\ x' = x /\ last' \in Points \union {Probe}
        /\ at' \in {"threw", "jacobian", "trial"}
    BY <1>1, <1>3, OtherStep
  <2>2. at' # "aimed" /\ at' \in Places
    BY <2>1 DEF Places
  <2> QED
    BY <1>1, <2>1, <2>2 DEF IInv, ShapeOK, AimedRayIsReturned
<1>4. CASE Judge
  <2>1. /\ norm' = norm /\ x' = x /\ last' = x
        /\ at' \in {"aimed", "threw"} /\ (at' = "aimed" => norm[x] <= 1)
    BY <1>1, <1>4, JudgeStep
  <2> QED
    BY <1>1, <2>1 DEF IInv, ShapeOK, AimedRayIsReturned, Places
<1> QED
  BY <1>2, <1>3, <1>4 DEF TwoDimensional, get_2d_solution_raw, HybrdNext

LEMMA InitOK == Init => IInv
<1> SUFFICES ASSUME Init PROVE IInv
  OBVIOUS
<1>1. norm \in [Points -> 0 .. Dark] /\ x = Origin /\ last = Probe /\ at = "start"
  BY DEF Init, HybrdInit
<1> QED
  BY <1>1, HybrdAssumption DEF IInv, ShapeOK, AimedRayIsReturned, Places

LEMMA StepOK == IInv /\ [Next]_vars => IInv'
<1> SUFFICES ASSUME IInv, [Next]_vars PROVE IInv'
  OBVIOUS
<1> USE DEF IInv, ShapeOK, AimedRayIsReturned
<1>1. CASE Wide
  BY <1>1 DEF Wide, hybrd_vars
<1>2. CASE TwoDimensional
  BY <1>2, HybrdStepOK
<1>3. CASE OneDimensional
  BY <1>3 DEF OneDimensional, get_1d_solution_raw, FindRoot, Places
<1>4. CASE Floating
  BY <1>4 DEF Floating, Places
<1>5. CASE CatchReverse
  BY <1>5, HybrdAssumption DEF CatchReverse
<1>6. CASE UNCHANGED vars
  BY <1>6 DEF vars, hybrd_vars
<1> QED
  BY <1>1, <1>2, <1>3, <1>4, <1>5, <1>6 DEF Next, Aimed

LEMMA IInvHolds == Spec => []IInv
BY InitOK, StepOK, PTL DEF Spec

\* The ray get_2d_solution returns is that of its solution and lands on the
\* target, however many probes and rejected trials came after it.
THEOREM SolutionsHaveTheirRay == Spec => []AimedRayIsReturned
<1>1. IInv => AimedRayIsReturned
  BY DEF IInv
<1> QED
  BY <1>1, IInvHolds, PTL

\* No step of MinPack::hybrd leaves a point for one that is worse.
THEOREM HybridDescends == Spec => HybridNeverWorse
<1>1. IInv /\ [Next]_vars => [TwoDimensional => norm'[x'] <= norm[x]]_vars
  BY HybrdStepOK
<1> QED
  BY <1>1, IInvHolds, PTL DEF Spec, HybridNeverWorse

-----------------------------------------------------------------------------
(* Arithmetic. *)

LEMMA Multiples ==
  ASSUME NEW d \in Nat \ {0}, NEW k \in Int
  PROVE  (k * d) % d = 0 /\ (d * k) \div d = k
  <1>1. (k * d) % d = 0
    BY SMTT(30)
  <1>2. (d * k) \div d = k
    BY SMTT(30)
  <1> QED BY <1>1, <1>2

LEMMA Signs ==
  ASSUME NEW y \in Int, NEW z \in Int, NEW r \in Int
  PROVE  (y - r) * (z - r) < 0 <=> (y < r /\ r < z) \/ (z < r /\ r < y)
  BY SMTT(30)

\* The ray of the t-th trial, counted from zero, while the search goes away
\* from the paraxial pupil.
Place(t) == IF t < Divisions THEN (Divisions - t) * Step
            ELSE -1 - (t - Divisions) * Step

LEMMA PlaceFacts ==
  ASSUME NEW t \in Nat
  PROVE  /\ Place(t) \in Int
         /\ Place(0) = enp_dist
         /\ Place(t + 1) < Place(t)
         /\ Place(t + 1) = Place(t) - Step \/ (Place(t) = Step /\ Place(t + 1) = -1)
         /\ Nudged(Place(t) - Step, -Step) = Place(t + 1)
         /\ Place(t) <= enp_dist
  <1> USE StepAssumption DEF Place, enp_dist
  <1>1. Place(t) \in Int /\ Place(0) = enp_dist
    OBVIOUS
  <1>2. CASE t + 1 < Divisions
    <2>1. (Divisions - t) * Step = (Divisions - (t + 1)) * Step + Step
      OBVIOUS
    <2>2. (Divisions - (t + 1)) * Step > 0
      BY <1>2
    <2>3. Divisions * Step - (Divisions - t) * Step = t * Step /\ t * Step >= 0
      OBVIOUS
    <2> QED BY <1>1, <1>2, <2>1, <2>2, <2>3 DEF Nudged
  <1>3. CASE t + 1 = Divisions
    <2>1. (Divisions - t) * Step = Step /\ (t + 1 - Divisions) * Step = 0
      BY <1>3
    <2>2. Divisions * Step - (Divisions - t) * Step = t * Step /\ t * Step >= 0
      OBVIOUS
    <2> QED BY <1>1, <1>3, <2>1, <2>2 DEF Nudged
  <1>4. CASE t >= Divisions
    <2>1. (t + 1 - Divisions) * Step = (t - Divisions) * Step + Step
      OBVIOUS
    <2>2. (t - Divisions) * Step >= 0 /\ Divisions * Step > 0
      BY <1>4
    <2> QED BY <1>1, <1>4, <2>1, <2>2 DEF Nudged
  <1> QED BY <1>2, <1>3, <1>4

\* No step lands on a root in reach.
LEMMA NoLanding ==
  ASSUME NEW r \in Int, r % Step # 0, r < 0 => (r + 1) % Step # 0
  PROVE  /\ \A k \in Int : r # k * Step
         /\ \A t \in Nat : r # Place(t)
  <1> USE StepAssumption
  <1>1. \A k \in Int : r # k * Step
    BY Multiples
  <1>2. ASSUME NEW t \in Nat, r = Place(t) PROVE FALSE
    <2>1. CASE t < Divisions
      BY <1>1, <1>2, <2>1, Divisions - t \in Int DEF Place
    <2>2. CASE ~(t < Divisions)
      <3> DEFINE k == -(t - Divisions)
      <3>1. k \in Int /\ k <= 0
        BY <2>2
      <3>2. (t - Divisions) * Step = -(k * Step) /\ k * Step <= 0
        BY <3>1
      <3>3. r + 1 = k * Step /\ r < 0
        BY <1>2, <2>2, <3>1, <3>2 DEF Place
      <3>4. (k * Step) % Step = 0
        BY <3>1, Multiples
      <3> HIDE DEF k
      <3> QED BY <3>3, <3>4
    <2> QED BY <2>1, <2>2
  <1> QED BY <1>1, <1>2

-----------------------------------------------------------------------------
(* The edge of the beam. *)

LEMMA LeastElement ==
  ASSUME NEW T, T \subseteq Nat, T # {}
  PROVE  \E m \in T : \A k \in T : m <= k
  <1> DEFINE Less == {p \in Nat \X Nat : p[1] < p[2]}
  <1>1. IsWellFoundedOn(Less, Nat)
    <2>1. OpToRel(<, Nat) = Less
      BY DEF OpToRel
    <2> QED BY <2>1, NatLessThanWellFounded
  <1>2. PICK m \in T : \A k \in T : ~(<<k, m>> \in Less)
    <2> HIDE DEF Less
    <2> QED BY <1>1, WFMin
  <1>3. \A k \in T : ~(k < m)
    BY <1>2
  <1> QED BY <1>3

LEMMA CountUp ==
  ASSUME NEW N \in Nat, NEW T, 0 \in T, \A i \in 1 .. N : i - 1 \in T => i \in T
  PROVE  0 .. N \subseteq T
  <1> DEFINE U == {i \in 0 .. N : i \notin T}
  <1> SUFFICES ASSUME U # {} PROVE FALSE
    OBVIOUS
  <1>1. PICK m \in U : \A k \in U : m <= k
    <2>1. U \subseteq Nat
      OBVIOUS
    <2> HIDE DEF U
    <2> QED BY <2>1, LeastElement
  <1>2. m \in 1 .. N /\ m - 1 \in 0 .. N /\ m - 1 < m
    BY <1>1
  <1>3. m - 1 \in T
    BY <1>1, <1>2
  <1> QED BY <1>1, <1>2, <1>3

\* One bisection, and the interval that k of them leave.
Halved(e) ==
  LET c == e[1] + (e[2] - e[1]) \div 2
  IN  IF Passes(c) THEN <<c, e[2]>> ELSE <<e[1], c>>

Bisections(f, z, w, k) == f = [i \in 0 .. k |-> IF i = 0 THEN <<z, w>> ELSE Halved(f[i - 1])]
Bisected(z, w) == CHOOSE f : Bisections(f, z, w, EdgeHalvings)

LEMMA BisectionsExist ==
  ASSUME NEW z, NEW w
  PROVE  Bisections(Bisected(z, w), z, w, EdgeHalvings)
  <1> DEFINE T == {k \in 0 .. EdgeHalvings : \E f : Bisections(f, z, w, k)}
  <1>1. 0 \in T
    <2>1. Bisections([i \in 0 .. 0 |-> <<z, w>>], z, w, 0)
      BY DEF Bisections
    <2> QED BY <2>1, StepAssumption
  <1>2. ASSUME NEW k \in 1 .. EdgeHalvings, k - 1 \in T PROVE k \in T
    <2>1. PICK f : Bisections(f, z, w, k - 1)
      BY <1>2
    <2> DEFINE g == [i \in 0 .. k |-> IF i = k THEN Halved(f[k - 1]) ELSE f[i]]
    <2>2. \A i \in 0 .. k : g[i] = IF i = 0 THEN <<z, w>> ELSE Halved(g[i - 1])
      <3>1. \A i \in 0 .. k - 1 : i # k /\ i \in 0 .. k /\ (i # 0 => i - 1 \in 0 .. k - 1)
        OBVIOUS
      <3>2. k \in 0 .. k /\ k - 1 \in 0 .. k /\ k # 0 /\ k - 1 # k
        OBVIOUS
      <3>3. \A i \in 0 .. k - 1 : f[i] = IF i = 0 THEN <<z, w>> ELSE Halved(f[i - 1])
        BY <2>1 DEF Bisections
      <3>4. \A i \in 0 .. k - 1 : g[i] = f[i]
        BY <3>1
      <3>5. g[k] = Halved(f[k - 1]) /\ g[k - 1] = f[k - 1]
        BY <3>2
      <3>6. \A i \in 0 .. k : i \in 0 .. k - 1 \/ i = k
        OBVIOUS
      <3> HIDE DEF g
      <3>7. \A i \in 0 .. k - 1 : g[i] = IF i = 0 THEN <<z, w>> ELSE Halved(g[i - 1])
        BY <3>1, <3>3, <3>4
      <3> QED BY <3>2, <3>5, <3>6, <3>7
    <2>3. g = [i \in 0 .. k |-> g[i]]
      OBVIOUS
    <2> HIDE DEF g
    <2>4. Bisections(g, z, w, k)
      BY <2>2, <2>3 DEF Bisections
    <2>5. k \in 0 .. EdgeHalvings
      BY StepAssumption
    <2> QED BY <2>4, <2>5
  <1>3. EdgeHalvings \in T
    <2> HIDE DEF T
    <2>1. 0 .. EdgeHalvings \subseteq T
      BY <1>1, <1>2, CountUp, StepAssumption
    <2> QED BY <2>1, StepAssumption
  <1> QED BY <1>3 DEF Bisected

LEMMA EdgeIs ==
  ASSUME NEW z, NEW w
  PROVE  find_edge(z, w) = LET e == Bisected(z, w)[EdgeHalvings]
                           IN  IF Passes(e[2]) THEN e[2] ELSE e[1]
  <1>1. Bisected(z, w) = CHOOSE f : f = [i \in 0 .. EdgeHalvings |->
                                          IF i = 0 THEN <<z, w>> ELSE Halved(f[i - 1])]
    BY DEF Bisected, Bisections
  <1> QED BY <1>1 DEF find_edge, Halved

LensOK == lens \in Lenses

LEMMA LensTypes ==
  ASSUME LensOK
  PROVE  /\ lens.lo \in Int /\ lens.hi \in Int /\ lens.root \in Int /\ lens.root2 \in Int
         /\ lens.front_lo \in Int /\ lens.front_hi \in Int
         /\ lens.deep \in BOOLEAN /\ lens.bent \in BOOLEAN /\ lens.axial \in BOOLEAN
  BY LensAssumption DEF LensOK

\* The ends of an interval of bisections from z, a ray that traces, towards w:
\* the near end traces, the far end is w or fails, and they are at most d
\* apart.
Narrowing(e, z, w, d) ==
  /\ e = <<e[1], e[2]>> /\ e[1] \in Int /\ e[2] \in Int
  /\ Passes(e[1]) /\ (e[2] = w \/ ~Passes(e[2]))
  /\ z < w => z <= e[1] /\ e[1] <= e[2] /\ e[2] <= w /\ e[2] - e[1] <= d
  /\ w < z => w <= e[2] /\ e[2] <= e[1] /\ e[1] <= z /\ e[1] - e[2] <= d

LEMMA HalvedNarrows ==
  ASSUME LensOK, NEW z \in Int, NEW w \in Int, z # w, NEW c \in Int, NEW d \in Int, c <= 2 * d,
         NEW e, Narrowing(e, z, w, c)
  PROVE  Narrowing(Halved(e), z, w, d)
  <1> DEFINE gap == e[2] - e[1]
             mid == e[1] + gap \div 2
  <1>1. e[1] \in Int /\ e[2] \in Int /\ gap \in Int /\ mid \in Int
    BY DEF Narrowing
  <1>2. gap \div 2 \in Int /\ 2 * (gap \div 2) <= gap /\ gap <= 2 * (gap \div 2) + 1
    BY <1>1
  <1> HIDE DEF mid
  <1>3. Halved(e) = IF Passes(mid) THEN <<mid, e[2]>> ELSE <<e[1], mid>>
    BY DEF Halved, mid
  <1>4. CASE Passes(mid)
    <2> DEFINE h == <<mid, e[2]>>
    <2>1. h[1] = mid /\ h[2] = e[2] /\ h = <<h[1], h[2]>> /\ Halved(e) = h
      BY <1>3, <1>4
    <2> HIDE DEF h
    <2>2. z < w => z <= mid /\ mid <= e[2] /\ e[2] <= w /\ e[2] - mid <= d
      BY <1>1, <1>2 DEF Narrowing, mid
    <2>3. w < z => w <= e[2] /\ e[2] <= mid /\ mid <= z /\ mid - e[2] <= d
      BY <1>1, <1>2 DEF Narrowing, mid
    <2> QED BY <1>1, <1>4, <2>1, <2>2, <2>3 DEF Narrowing
  <1>5. CASE ~Passes(mid)
    <2> DEFINE h == <<e[1], mid>>
    <2>1. h[1] = e[1] /\ h[2] = mid /\ h = <<h[1], h[2]>> /\ Halved(e) = h
      BY <1>3, <1>5
    <2> HIDE DEF h
    <2>2. z < w => z <= e[1] /\ e[1] <= mid /\ mid <= w /\ mid - e[1] <= d
      BY <1>1, <1>2 DEF Narrowing, mid
    <2>3. w < z => w <= mid /\ mid <= e[1] /\ e[1] <= z /\ e[1] - mid <= d
      BY <1>1, <1>2 DEF Narrowing, mid
    <2> QED BY <1>1, <1>5, <2>1, <2>2, <2>3 DEF Narrowing
  <1> QED BY <1>4, <1>5

\* What find_edge returns traces, and is either the far end or the last ray
\* before one that fails.
EdgeOf(edge, z, w) ==
  /\ edge \in Int /\ Passes(edge)
  /\ z < w => z <= edge /\ edge <= w /\ (edge = w \/ ~Passes(edge + 1))
  /\ w < z => w <= edge /\ edge <= z /\ (edge = w \/ ~Passes(edge - 1))

LEMMA EdgeFound ==
  ASSUME LensOK, NEW z \in Int, Passes(z), NEW w \in {z - Step, z + Step}
  PROVE  EdgeOf(find_edge(z, w), z, w)
  <1> USE StepAssumption
  <1>1. PICK h \in [0 .. EdgeHalvings -> 1 .. Step] :
          /\ h[0] = Step /\ h[EdgeHalvings] = 1
          /\ \A k \in 1 .. EdgeHalvings : h[k - 1] <= 2 * h[k]
    BY UnitAssumption
  <1> DEFINE f == Bisected(z, w)
             T == {k \in 0 .. EdgeHalvings : Narrowing(f[k], z, w, h[k])}
  <1>2. f = [i \in 0 .. EdgeHalvings |-> IF i = 0 THEN <<z, w>> ELSE Halved(f[i - 1])]
    BY BisectionsExist DEF Bisections
  <1> HIDE DEF f
  <1>3. f[0] = <<z, w>> /\ \A k \in 1 .. EdgeHalvings : f[k] = Halved(f[k - 1])
    <2>1. 0 \in 0 .. EdgeHalvings /\ \A k \in 1 .. EdgeHalvings : k \in 0 .. EdgeHalvings /\ k # 0
      OBVIOUS
    <2> QED BY <1>2, <2>1
  <1>4. w \in Int /\ z # w
    OBVIOUS
  <1>5. 0 \in T
    <2> DEFINE e == <<z, w>>
    <2>1. e[1] = z /\ e[2] = w /\ e = <<e[1], e[2]>> /\ f[0] = e
      BY <1>3
    <2> HIDE DEF e
    <2>2. Narrowing(e, z, w, Step)
      BY <1>4, <2>1 DEF Narrowing
    <2> QED BY <1>1, <2>1, <2>2
  <1>6. ASSUME NEW k \in 1 .. EdgeHalvings, k - 1 \in T PROVE k \in T
    <2>1. h[k - 1] \in Int /\ h[k] \in Int /\ h[k - 1] <= 2 * h[k]
      BY <1>1
    <2>2. Narrowing(f[k - 1], z, w, h[k - 1])
      BY <1>6
    <2>3. Narrowing(Halved(f[k - 1]), z, w, h[k])
      BY <1>4, <2>1, <2>2, HalvedNarrows
    <2> QED BY <1>3, <2>3
  <1>7. Narrowing(f[EdgeHalvings], z, w, 1)
    <2> HIDE DEF T
    <2>1. 0 .. EdgeHalvings \subseteq T
      BY <1>5, <1>6, CountUp
    <2> QED BY <1>1, <2>1 DEF T
  <1> DEFINE e == f[EdgeHalvings]
  <1>8. find_edge(z, w) = IF Passes(e[2]) THEN e[2] ELSE e[1]
    BY EdgeIs DEF f
  <1>9. CASE Passes(e[2])
    BY <1>4, <1>7, <1>8, <1>9 DEF Narrowing, EdgeOf
  <1>10. CASE ~Passes(e[2])
    <2>1. e[1] # e[2]
      BY <1>7, <1>10 DEF Narrowing
    <2> HIDE DEF e
    <2>2. e[1] \in Int /\ e[2] \in Int
      BY <1>7 DEF Narrowing, e
    <2>3. z < w => e[2] = e[1] + 1
      <3>1. z < w => e[1] <= e[2] /\ e[2] - e[1] <= 1
        BY <1>7 DEF Narrowing, e
      <3> QED BY <2>1, <2>2, <3>1
    <2>4. w < z => e[2] = e[1] - 1
      <3>1. w < z => e[2] <= e[1] /\ e[1] - e[2] <= 1
        BY <1>7 DEF Narrowing, e
      <3> QED BY <2>1, <2>2, <3>1
    <2> QED BY <1>4, <1>7, <1>8, <1>10, <2>2, <2>3, <2>4 DEF Narrowing, EdgeOf, e
  <1> QED BY <1>9, <1>10

-----------------------------------------------------------------------------
(* Heights and estimates. *)

LEMMA StraightHeights ==
  ASSUME LensOK, ~lens.bent, NEW y \in Int, NEW z \in Int
  PROVE  /\ Height(z) = z - lens.root
         /\ Height(y) = Height(z) <=> y = z
         /\ Straddle(y, z) <=> (y < lens.root /\ lens.root < z) \/ (z < lens.root /\ lens.root < y)
  <1>1. lens.root \in Int
    BY LensTypes
  <1>2. Height(z) = z - lens.root /\ Height(y) = y - lens.root
    <2>1. Height(z) = (z - lens.root) * 1 /\ Height(y) = (y - lens.root) * 1
      BY DEF Height
    <2> QED BY <1>1, <2>1
  <1>3. Straddle(y, z) <=> (y - lens.root) * (z - lens.root) < 0
    BY <1>2 DEF Straddle
  <1>4. (y - lens.root) * (z - lens.root) < 0 <=>
          (y < lens.root /\ lens.root < z) \/ (z < lens.root /\ lens.root < y)
    BY <1>1, Signs
  <1>5. Height(y) = Height(z) <=> y = z
    BY <1>1, <1>2
  <1> QED BY <1>2, <1>3, <1>4, <1>5

LEMMA HeightIsInt ==
  ASSUME LensOK, NEW z \in Int
  PROVE  Height(z) \in Int
  <1>1. (z - lens.root) * (z - lens.root2) \in Int
    BY LensTypes
  <1> QED BY <1>1, LensTypes DEF Height

LEMMA EstimateIsRoot ==
  ASSUME LensOK, ~lens.bent, NEW y \in Int, NEW z \in Int
  PROVE  Estimate(y, z) = IF y = z THEN y ELSE lens.root
  <1> DEFINE r == lens.root
             k == y - r
             d == z - y
  <1>1. r \in Int /\ k \in Int /\ d \in Int
    BY LensTypes
  <1>2. Height(y) = k /\ Height(z) - Height(y) = d /\ (Height(z) = Height(y) <=> z = y)
    BY <1>1, StraightHeights
  <1>3. z # y => Quotient(d * k, d) = k
    <2>1. CASE d > 0
      <3>1. (d * k) \div d = k
        BY <1>1, <2>1, Multiples
      <3> QED BY <2>1, <3>1 DEF Quotient
    <2>2. CASE d < 0
      <3> DEFINE c == -d
      <3>1. c \in Nat \ {0}
        BY <1>1, <2>2
      <3>2. (c * k) \div c = k
        BY <1>1, <3>1, Multiples
      <3>3. -(d * k) = c * k /\ ~(d > 0)
        BY <1>1, <2>2
      <3> HIDE DEF c
      <3>4. -d = c
        BY DEF c
      <3> QED BY <3>2, <3>3, <3>4 DEF Quotient
    <2> QED BY <1>1, <2>1, <2>2
  <1>4. z # y => Estimate(y, z) = y - Quotient(d * k, d)
    BY <1>2 DEF Estimate
  <1>5. z = y => Estimate(y, z) = y
    BY <1>2 DEF Estimate
  <1>6. y - k = r
    BY <1>1
  <1> QED BY <1>3, <1>4, <1>5, <1>6

-----------------------------------------------------------------------------
(* The search is in order *)

\* What the search keeps of a ray is its position.
MaybePlace == Int \union {None}

ShapeEnp ==
  /\ LensOK
  /\ z_enp \in Int /\ del_z \in {Step, -Step}
  /\ start_z \in MaybePlace /\ prev_z \in MaybePlace /\ end_z \in MaybePlace
  /\ direction \in {"first", "reverse"} /\ keep_going \in BOOLEAN
  /\ first_surf_misses \in Nat /\ trial \in 0 .. MaxTrials /\ successes \in Nat
  /\ pc \in {"cached", "search", "solve", "done"}

\* Every ray the search holds is one that traced, and it holds a last one as
\* soon as it holds a first one.
FoundTrace ==
  /\ start_z # None => Passes(start_z)
  /\ prev_z # None => Passes(prev_z)
  /\ end_z # None => Passes(end_z)
  /\ start_z = None <=> end_z = None
  /\ successes = 0 <=> end_z = None

\* The interval of IntervalStraddles, whose straight line meets the centre.
BracketOK ==
  pc = "solve" =>
    /\ start_z # end_z => 
         /\ bracket.a \in Int /\ bracket.b \in Int
         /\ Passes(bracket.a) /\ Passes(bracket.b) /\ Straddle(bracket.a, bracket.b)
         /\ ~lens.bent => bracket.estimate = lens.root

\* Inductive for every lens, bent or not.
EnpInv == ShapeEnp /\ FoundTrace /\ BracketOK

LEMMA AdvanceShape ==
  ASSUME ShapeEnp, NEW from \in Int, NEW del \in {Step, -Step}, Advance(from, del),
         trial < MaxTrials
  PROVE  z_enp' \in Int /\ del_z' \in {Step, -Step} /\ trial' \in 0 .. MaxTrials
  BY StepAssumption DEF ShapeEnp, Advance, Nudged

LEMMA NoneIsNoPlace == ASSUME NEW z \in MaybePlace, z # None PROVE z \in Int
  BY DEF MaybePlace

LEMMA PassesKeepOrder ==
  ASSUME ShapeEnp, FoundTrace, RayPasses
  PROVE  (ShapeEnp /\ FoundTrace /\ BracketOK)'
  <1> USE DEF RayPasses, Searching
  <1> DEFINE first == IF start_z = None THEN z_enp ELSE start_z
  <1>1. first \in Int /\ Passes(first) /\ z_enp \in Int /\ z_enp # None /\ first # None
    BY NoneAssumption DEF ShapeEnp, FoundTrace, MaybePlace
  <1>2. successes' = successes + 1 /\ successes' \in Nat /\ successes' # 0
        /\ prev_z' = end_z /\ keep_going' \in BOOLEAN /\ lens' = lens /\ pc' = "search"
        /\ first_surf_misses' = first_surf_misses
    BY DEF ShapeEnp
  <1>3. CASE WrongWay(first)
    <2>1. /\ direction' = "reverse" /\ start_z' = z_enp /\ end_z' = first
          /\ Advance(enp_dist, -del_z)
      BY <1>3 DEF TurnRound
    <2>2. enp_dist \in Int /\ -del_z \in {Step, -Step}
      BY StepAssumption DEF ShapeEnp, enp_dist
    <2>3. z_enp' \in Int /\ del_z' \in {Step, -Step} /\ trial' \in 0 .. MaxTrials
      BY <2>1, <2>2, AdvanceShape
    <2> QED BY <1>1, <1>2, <2>1, <2>3 DEF ShapeEnp, FoundTrace, BracketOK,
                                             MaybePlace, Passes, LensOK
  <1>4. CASE ~WrongWay(first)
    <2>1. /\ direction' = direction /\ start_z' = first /\ end_z' = z_enp
          /\ Advance(z_enp, del_z)
      BY <1>4
    <2>2. z_enp' \in Int /\ del_z' \in {Step, -Step} /\ trial' \in 0 .. MaxTrials
      BY <1>1, <2>1, AdvanceShape DEF ShapeEnp
    <2> QED BY <1>1, <1>2, <2>1, <2>2 DEF ShapeEnp, FoundTrace, BracketOK,
                                             MaybePlace, Passes, LensOK
  <1> QED BY <1>3, <1>4

LEMMA FailsKeepOrder ==
  ASSUME ShapeEnp, FoundTrace, RayFails
  PROVE  (ShapeEnp /\ FoundTrace /\ BracketOK)'
  <1> USE DEF RayFails, Searching
  <1> DEFINE miss == MissesFirst(z_enp)
             turn == start_z # None /\ direction = "first"
             del  == IF miss = turn THEN del_z ELSE -del_z
             from == IF miss \/ turn THEN enp_dist ELSE z_enp
  <1>1. /\ first_surf_misses' = first_surf_misses + (IF miss THEN 1 ELSE 0)
        /\ Advance(from, del)
        /\ keep_going' = (start_z = None \/ turn)
        /\ IF turn THEN TurnRound(start_z, end_z)
                   ELSE UNCHANGED <<start_z, end_z, direction>>
    OBVIOUS
  <1>2. lens' = lens /\ pc' = "search" /\ prev_z' = prev_z /\ successes' = successes
    OBVIOUS
  <1>3. from \in Int /\ del \in {Step, -Step}
    BY StepAssumption DEF ShapeEnp, enp_dist
  <1>4. first_surf_misses' \in Nat /\ keep_going' \in BOOLEAN
    BY <1>1 DEF ShapeEnp
  <1> HIDE DEF from, del, miss
  <1>5. z_enp' \in Int /\ del_z' \in {Step, -Step} /\ trial' \in 0 .. MaxTrials
    BY <1>1, <1>3, AdvanceShape
  <1>6. CASE turn
    <2>1. direction' = "reverse" /\ start_z' = end_z /\ end_z' = start_z
      BY <1>1, <1>6 DEF TurnRound
    <2> HIDE DEF turn
    <2> QED BY <1>2, <1>4, <1>5, <2>1 DEF ShapeEnp, FoundTrace, BracketOK, Passes, LensOK
  <1>7. CASE ~turn
    BY <1>1, <1>2, <1>4, <1>5, <1>7 DEF ShapeEnp, FoundTrace, BracketOK, Passes, LensOK
  <1> QED BY <1>6, <1>7

\* What Solve leaves when its two rays trace and straddle the stop centre.
LEMMA SolveStraddles ==
  ASSUME ShapeEnp, NEW y \in Int, NEW z \in Int, Passes(y), Passes(z), Straddle(y, z),
         Solve(y, z, y, z), lens' = lens
  PROVE  pc' = "solve" /\ BracketOK'
  <1>1. /\ bracket'.a = y /\ bracket'.b = z /\ bracket'.estimate = Estimate(y, z)
        /\ pc' = "solve"
    BY DEF Solve
  <1>2. LensOK
    BY DEF ShapeEnp
  <1>3. ~lens.bent => Estimate(y, z) = lens.root
    <2> SUFFICES ASSUME ~lens.bent PROVE Estimate(y, z) = lens.root
      OBVIOUS
    <2>1. y # z
      BY <1>2, StraightHeights, LensTypes
    <2> QED BY <1>2, <2>1, EstimateIsRoot
  <1>4. Passes(y)' /\ Passes(z)' /\ Straddle(y, z)'
    BY DEF Passes, Straddle, Height
  <1>5. Passes(bracket.a)' /\ Passes(bracket.b)' /\ Straddle(bracket.a, bracket.b)'
    BY <1>1, <1>4 DEF Passes, Straddle, Height
  <1> QED BY <1>1, <1>3, <1>5 DEF BracketOK, Passes, Straddle, Height

LEMMA StraddleTurns ==
  ASSUME LensOK, NEW y \in Int, NEW z \in Int, Straddle(y, z)
  PROVE  Straddle(z, y)
  <1>1. Height(y) * Height(z) = Height(z) * Height(y)
    BY HeightIsInt
  <1> QED BY <1>1 DEF Straddle

LEMMA EndsKeepOrder ==
  ASSUME ShapeEnp, FoundTrace, SingleRay \/ Crossing \/ EdgesOfBeam
  PROVE  /\ pc' \in {"solve", "done"} /\ BracketOK'
         /\ UNCHANGED <<lens, fld_z_enp, search, aims>>
  <1> USE DEF search, found, counts
  <1>1. CASE SingleRay
    <2>1. /\ start_z' = end_z' /\ pc' \in {"solve", "done"}
          /\ UNCHANGED <<lens, fld_z_enp, search, aims>>
      BY <1>1 DEF SingleRay, Solve, Return
    <2> QED BY <2>1 DEF BracketOK
  <1>2. CASE Crossing
    <2>1. /\ start_z \in Int /\ end_z \in Int /\ Passes(start_z) /\ Passes(end_z)
          /\ Straddle(start_z, end_z) /\ lens' = lens
      BY <1>2 DEF Crossing, ShapeEnp, FoundTrace, MaybePlace
    <2>2. CASE prev_z # None /\ Straddle(prev_z, end_z)
      <3>1. prev_z \in Int /\ Passes(prev_z) /\ Solve(prev_z, end_z, prev_z, end_z)
        BY <1>2, <2>2 DEF Crossing, ShapeEnp, FoundTrace, MaybePlace
      <3>2. pc' = "solve" /\ BracketOK'
        BY <2>1, <2>2, <3>1, SolveStraddles
      <3> QED BY <1>2, <3>2 DEF Crossing
    <2>3. CASE ~(prev_z # None /\ Straddle(prev_z, end_z))
      <3>1. Solve(start_z, end_z, start_z, end_z)
        BY <1>2, <2>3 DEF Crossing
      <3>2. pc' = "solve" /\ BracketOK'
        BY <2>1, <3>1, SolveStraddles
      <3> QED BY <1>2, <3>2 DEF Crossing
    <2> QED BY <2>2, <2>3
  <1>3. CASE EdgesOfBeam
    <2> DEFINE edge_b == find_edge(end_z, end_z + del_z)
               edge_a == find_edge(start_z, start_z - del_z)
    <2>1. /\ start_z \in Int /\ end_z \in Int /\ Passes(start_z) /\ Passes(end_z)
          /\ lens' = lens /\ start_z # end_z /\ LensOK
      BY <1>3 DEF EdgesOfBeam, ShapeEnp, FoundTrace, MaybePlace
    <2>2. /\ end_z + del_z \in {end_z - Step, end_z + Step}
          /\ start_z - del_z \in {start_z - Step, start_z + Step}
      BY <2>1, StepAssumption DEF ShapeEnp
    <2>3. edge_b \in Int /\ Passes(edge_b) /\ edge_a \in Int /\ Passes(edge_a)
      BY <2>1, <2>2, EdgeFound DEF EdgeOf
    <2>4. /\ IF Straddle(edge_b, end_z) THEN Solve(end_z, edge_b, end_z, edge_b)
             ELSE IF Straddle(edge_a, start_z) THEN Solve(start_z, edge_a, start_z, edge_a)
             ELSE Return(end_z) /\ UNCHANGED <<bracket, reused>>
          /\ UNCHANGED <<lens, fld_z_enp, search, aims>>
      BY <1>3 DEF EdgesOfBeam
    <2> HIDE DEF edge_a, edge_b
    <2>5. CASE Straddle(edge_b, end_z)
      <3>1. pc' = "solve" /\ BracketOK'
        BY <2>1, <2>3, <2>4, <2>5, SolveStraddles, StraddleTurns
      <3> QED BY <2>4, <3>1
    <2>6. CASE ~Straddle(edge_b, end_z) /\ Straddle(edge_a, start_z)
      <3>1. pc' = "solve" /\ BracketOK'
        BY <2>1, <2>3, <2>4, <2>6, SolveStraddles, StraddleTurns
      <3> QED BY <2>4, <3>1
    <2>7. CASE ~Straddle(edge_b, end_z) /\ ~Straddle(edge_a, start_z)
      <3>1. pc' = "done"
        BY <2>4, <2>7 DEF Return
      <3> QED BY <2>4, <3>1 DEF BracketOK
    <2> QED BY <2>5, <2>6, <2>7
  <1> QED BY <1>1, <1>2, <1>3

LEMMA SearchUnchanged ==
  ASSUME ShapeEnp, FoundTrace, UNCHANGED <<lens, search>>,
         pc' \in {"cached", "search", "solve", "done"}
  PROVE  (ShapeEnp /\ FoundTrace)'
  BY DEF ShapeEnp, FoundTrace, search, found, counts, Passes, LensOK

LEMMA FreshIsInOrder ==
  ASSUME LensOK', z_enp' = enp_dist, del_z' = -Step, start_z' = None, prev_z' = None, end_z' = None,
         direction' = "first", keep_going' = TRUE, first_surf_misses' = 0, trial' = 0,
         successes' = 0, pc' = "cached"
  PROVE  EnpInv'
  BY StepAssumption DEF EnpInv, ShapeEnp, FoundTrace, BracketOK, MaybePlace, enp_dist

LEMMA EnpInvStep ==
  ASSUME EnpInv, EnpNext
  PROVE  EnpInv'
  <1> USE DEF EnpInv
  <1>1. CASE RayPasses
    BY <1>1, PassesKeepOrder
  <1>2. CASE RayFails
    BY <1>2, FailsKeepOrder
  <1>3. CASE SingleRay \/ Crossing \/ EdgesOfBeam
    BY <1>3, EndsKeepOrder, SearchUnchanged
  <1>4. CASE TryCached \/ NothingPasses \/ SecantThenBrent
    <2>1. UNCHANGED <<lens, search>> /\ pc' \in {"search", "done"}
      BY <1>4 DEF TryCached, NothingPasses, SecantThenBrent, Return
    <2> QED BY <2>1, SearchUnchanged DEF BracketOK
  <1>5. CASE AimAgain
    BY <1>5, FreshIsInOrder DEF AimAgain, Fresh, LensOK, ShapeEnp
  <1> QED BY <1>1, <1>2, <1>3, <1>4, <1>5 DEF EnpNext

LEMMA EnpInvInit == ASSUME EnpInit PROVE EnpInv
  BY StepAssumption DEF EnpInit, EnpInv, ShapeEnp, FoundTrace, BracketOK, MaybePlace,
                        enp_dist, LensOK

LEMMA StraddleHolds ==
  ASSUME EnpInv
  PROVE  IntervalStraddles
  <1> SUFFICES ASSUME pc = "solve", start_z # end_z
               PROVE  /\ Passes(bracket.a) /\ Passes(bracket.b)
                      /\ Straddle(bracket.a, bracket.b)
                      /\ ~lens.bent => Passes(bracket.estimate)
    BY DEF IntervalStraddles
  <1>1. /\ bracket.a \in Int /\ bracket.b \in Int
        /\ Passes(bracket.a) /\ Passes(bracket.b) /\ Straddle(bracket.a, bracket.b)
        /\ ~lens.bent => bracket.estimate = lens.root
    BY DEF EnpInv, BracketOK
  <1>2. LensOK
    BY DEF EnpInv, ShapeEnp
  <1>3. ~lens.bent => Passes(lens.root)
    BY <1>1, <1>2, StraightHeights, LensTypes DEF Passes
  <1> QED BY <1>1, <1>3

-----------------------------------------------------------------------------
(* The phases of a search that misses no first surface, and finds a centre  *)
(* in reach.                                                                *)

Clean == ~lens.bent /\ first_surf_misses = 0 /\ InReach(lens)

\* No ray has been tried.
Opening ==
  /\ start_z = None /\ prev_z = None /\ end_z = None
  /\ z_enp = enp_dist /\ del_z = -Step
  /\ direction = "first" /\ keep_going = TRUE
  /\ first_surf_misses = 0 /\ trial = 0 /\ successes = 0

\* All rays traced so far; from the second on, the centre lies beyond them.
Forward ==
  /\ direction = "first" /\ del_z = -Step /\ keep_going
  /\ trial >= 1 /\ successes = trial
  /\ start_z = enp_dist /\ end_z = Place(trial - 1) /\ z_enp = Place(trial)
  /\ trial >= 2 => lens.root < end_z

\* Two rays straddle the centre.
Crossed == ~keep_going /\ start_z # None /\ end_z # None /\ Straddle(start_z, end_z)

\* The search turned round, and looks behind the paraxial pupil.
Turned ==
  /\ direction = "reverse" /\ del_z = Step /\ successes >= 1 /\ trial >= 2
  /\ start_z \in Int /\ end_z \in Int /\ start_z <= enp_dist /\ enp_dist <= end_z
  /\ keep_going => z_enp = end_z + Step

\* The way it went first was right: the centre lies before the first ray
\* that failed there.
Below ==
  /\ Turned /\ lens.root < start_z
  /\ ~Passes(start_z - Step) \/ (start_z = Step /\ ~Passes(-1))

\* The way it went first was wrong.
Above ==
  /\ Turned /\ end_z < lens.root
  /\ IF keep_going THEN end_z = enp_dist + (trial - 2) * Step ELSE ~Passes(end_z + Step)

Phases == Opening \/ Forward \/ Crossed \/ Below \/ Above

PhaseInv == pc = "search" /\ Clean => Phases

LEMMA ReachFacts ==
  ASSUME ShapeEnp, InReach(lens)
  PROVE  /\ lens.root \in Int /\ lens.lo \in Int /\ lens.hi \in Int /\ enp_dist \in Int
         /\ lens.lo < lens.root /\ lens.root < lens.hi /\ Passes(enp_dist) /\ Passes(lens.root)
         /\ \A k \in Int : lens.root # k * Step
         /\ \A t \in Nat : lens.root # Place(t)
         /\ lens.root # enp_dist
         /\ lens.root - enp_dist < (MaxTrials - 2) * Step
         /\ enp_dist - lens.root < (MaxTrials - 2) * Step
  <1>1. LensOK
    BY DEF ShapeEnp
  <1>2. /\ lens.root \in Int /\ lens.lo \in Int /\ lens.hi \in Int /\ enp_dist \in Int
        /\ (MaxTrials - 2) * Step \in Int
    BY <1>1, LensTypes, StepAssumption DEF enp_dist
  <1>3. lens.lo < lens.root /\ lens.root < lens.hi /\ Passes(enp_dist) /\ Passes(lens.root)
    BY <1>2 DEF InReach, Passes
  <1>4. (\A k \in Int : lens.root # k * Step) /\ \A t \in Nat : lens.root # Place(t)
    BY <1>2, NoLanding DEF InReach
  <1>5. lens.root # enp_dist
    BY <1>4, StepAssumption DEF enp_dist
  <1>6. /\ lens.root - enp_dist < (MaxTrials - 2) * Step
        /\ enp_dist - lens.root < (MaxTrials - 2) * Step
    BY <1>2 DEF InReach, Abs
  <1> QED BY <1>2, <1>3, <1>4, <1>5, <1>6

\* The ray after the paraxial one traces.
LEMMA ForwardPasses ==
  ASSUME EnpInv, Clean, Clean', Forward, RayPasses
  PROVE  Phases'
  <1> USE StepAssumption
  <1>1. LensOK /\ ShapeEnp /\ ~lens.bent /\ trial \in Nat /\ trial - 1 \in Nat
    BY DEF EnpInv, ShapeEnp, Clean, Forward
  <1>2. /\ lens.root \in Int /\ enp_dist \in Int /\ lens.root # enp_dist
        /\ \A t \in Nat : lens.root # Place(t)
    BY <1>1, ReachFacts DEF Clean
  <1>0. PICK y \in Int, z \in Int : y = Place(trial - 1) /\ z = Place(trial)
    BY <1>1, PlaceFacts
  <1>3. y \in Int /\ z \in Int /\ z < y /\ y <= enp_dist /\ lens.root # y /\ lens.root # z
        /\ Nudged(z - Step, -Step) = Place(trial + 1)
    <2>1. (trial - 1) + 1 = trial
      BY <1>1
    <2> QED BY <1>0, <1>1, <1>2, <2>1, PlaceFacts
  <1>4. /\ start_z = enp_dist /\ start_z # None /\ end_z = y /\ z_enp = z /\ del_z = -Step
        /\ direction = "first"
    BY <1>0, <1>2, NoneAssumption DEF Forward
  <1>5. /\ successes' = trial + 1 /\ successes = trial
        /\ prev_z' = y /\ keep_going' = ~Straddle(y, z)
        /\ lens' = lens /\ trial' = trial + 1
        /\ IF WrongWay(enp_dist) THEN TurnRound(enp_dist, z) /\ Advance(enp_dist, Step)
           ELSE start_z' = enp_dist /\ end_z' = z /\ Advance(z, -Step) /\ direction' = "first"
    <2>1. -(-Step) = Step
      OBVIOUS
    <2> QED BY <1>1, <1>4, <2>1 DEF RayPasses, Advance, Forward
  <1>6. /\ Straddle(y, z) <=> z < lens.root /\ lens.root < y
        /\ Height(z) = z - lens.root /\ Height(enp_dist) = enp_dist - lens.root
        /\ Straddle(enp_dist, z) <=> z < lens.root /\ lens.root < enp_dist
        /\ Straddle(z, enp_dist) <=> z < lens.root /\ lens.root < enp_dist
    BY <1>1, <1>2, <1>3, StraightHeights
  <1>7. WrongWay(enp_dist) <=> trial = 1 /\ Abs(Height(enp_dist)) < Abs(Height(z))
    BY <1>4, <1>5 DEF WrongWay
  <1>8. z # None /\ enp_dist # None
    BY <1>2, <1>3, NoneAssumption
  <1>9. CASE WrongWay(enp_dist)
    <2>1. trial = 1 /\ y = enp_dist
      <3>1. trial = 1 /\ trial - 1 = 0
        BY <1>1, <1>7, <1>9
      <3> QED BY <3>1, PlaceFacts, <1>0
    <2>2. /\ start_z' = z /\ end_z' = enp_dist /\ direction' = "reverse"
          /\ del_z' = Step /\ z_enp' = enp_dist + Step /\ trial' = 2
      <3>1. enp_dist + Step # 0
        BY DEF enp_dist
      <3> QED BY <1>5, <1>9, <2>1, <3>1 DEF TurnRound, Advance, Nudged
    <2>3. CASE Straddle(y, z)
      <3>1. Straddle(z, enp_dist)
        BY <1>6, <2>1, <2>3
      <3>2. Straddle(z, enp_dist)'
        BY <1>5, <3>1 DEF Straddle, Height, enp_dist
      <3>3. Crossed'
        BY <1>5, <1>8, <2>2, <2>3, <3>2 DEF Crossed, enp_dist
      <3> QED BY <3>3 DEF Phases
    <2>4. CASE ~Straddle(y, z)
      <3>1. enp_dist < lens.root
        BY <1>2, <1>3, <1>6, <1>7, <1>9, <2>1, <2>4 DEF Abs
      <3>2. keep_going' = TRUE
        BY <1>5, <2>4
      <3>3. enp_dist' = enp_dist /\ enp_dist + (2 - 2) * Step = enp_dist
        BY <1>2 DEF enp_dist
      <3>4. Turned'
        BY <1>2, <1>3, <1>5, <2>1, <2>2, <3>2, <3>3 DEF Turned
      <3>5. Above'
        BY <1>5, <2>2, <3>1, <3>2, <3>3, <3>4 DEF Above
      <3> QED BY <3>5 DEF Phases
    <2> QED BY <2>3, <2>4
  <1>10. CASE ~WrongWay(enp_dist)
    <2>1. /\ start_z' = enp_dist /\ end_z' = z /\ direction' = "first"
          /\ del_z' = -Step /\ z_enp' = Place(trial + 1)
      <3>1. z + -Step = z - Step
        BY <1>3
      <3> QED BY <1>3, <1>5, <1>10, <3>1 DEF Advance
    <2>2. CASE Straddle(y, z)
      <3>1. Straddle(enp_dist, z)
        BY <1>2, <1>3, <1>6, <2>2
      <3>2. Straddle(enp_dist, z)'
        BY <1>5, <3>1 DEF Straddle, Height, enp_dist
      <3>3. Crossed'
        BY <1>5, <1>8, <2>1, <2>2, <3>2 DEF Crossed, enp_dist
      <3> QED BY <3>3 DEF Phases
    <2>3. CASE ~Straddle(y, z)
      <3>1. lens.root < z
        <4>1. CASE trial = 1
          <5>1. y = enp_dist
            <6>1. trial - 1 = 0
              BY <4>1
            <6> QED BY <6>1, PlaceFacts, <1>0
          <5> QED BY <1>2, <1>3, <1>6, <1>7, <1>10, <2>3, <4>1, <5>1 DEF Abs
        <4>2. CASE trial >= 2
          <5>1. lens.root < y
            BY <1>4, <4>2 DEF Forward
          <5> QED BY <1>2, <1>3, <1>6, <2>3, <5>1
        <4> QED BY <1>1, <4>1, <4>2
      <3>2. keep_going' = TRUE
        BY <1>5, <2>3
      <3>3. enp_dist' = enp_dist /\ (trial + 1) - 1 = trial /\ trial' - 1 = trial
        BY <1>1, <1>5 DEF enp_dist
      <3>4. Place(trial - 1)' = z /\ Place(trial)' = Place(trial + 1)
        BY <1>0, <1>5, <3>3 DEF Place
      <3>5. Forward'
        BY <1>1, <1>5, <2>1, <3>1, <3>2, <3>3, <3>4 DEF Forward
      <3> QED BY <3>5 DEF Phases
    <2> QED BY <2>2, <2>3
  <1> QED BY <1>9, <1>10

LEMMA OpeningPasses ==
  ASSUME EnpInv, Clean, Opening, RayPasses
  PROVE  Phases'
  <1> USE StepAssumption
  <1>1. /\ start_z' = enp_dist /\ end_z' = enp_dist /\ direction' = "first"
        /\ Advance(enp_dist, -Step) /\ successes' = 1 /\ keep_going' = TRUE
    <2>1. ~WrongWay(z_enp) /\ ~(successes > 0)
      BY DEF Opening, WrongWay
    <2>2. start_z' = z_enp /\ end_z' = z_enp /\ Advance(z_enp, del_z) /\ UNCHANGED direction
      BY <2>1 DEF RayPasses, Opening
    <2>3. keep_going' = TRUE
      BY <2>1 DEF RayPasses
    <2>4. successes' = 1
      BY DEF RayPasses, Opening
    <2> QED BY <2>2, <2>3, <2>4 DEF Opening
  <1>2. z_enp' = Place(1) /\ del_z' = -Step /\ trial' = 1
    <2>1. Nudged(Place(0) - Step, -Step) = Place(0 + 1) /\ Place(0) = enp_dist
      BY PlaceFacts
    <2>2. enp_dist + -Step = enp_dist - Step /\ 0 + 1 = 1
      BY DEF enp_dist
    <2> QED BY <1>1, <2>1, <2>2 DEF Advance, Opening
  <1>3. Place(trial - 1)' = enp_dist /\ Place(trial)' = Place(1)
    <2>1. trial' - 1 = 0
      BY <1>2
    <2> QED BY <1>2, <2>1, PlaceFacts
  <1>4. Forward'
    BY <1>1, <1>2, <1>3 DEF Forward
  <1> QED BY <1>4 DEF Phases

LEMMA TurnedPasses ==
  ASSUME EnpInv, Clean, Below \/ Above, RayPasses
  PROVE  Phases'
  <1> USE StepAssumption
  <1>1. /\ start_z \in Int /\ end_z \in Int /\ z_enp = end_z + Step /\ z_enp \in Int
        /\ start_z <= enp_dist /\ enp_dist <= end_z /\ enp_dist \in Int
        /\ end_z < z_enp /\ start_z # None /\ z_enp # None
        /\ ShapeEnp /\ LensOK /\ ~lens.bent /\ lens.root \in Int
        /\ successes \in Nat /\ successes >= 1 /\ trial \in Nat /\ trial >= 2
        /\ direction = "reverse" /\ del_z = Step
    BY NoneAssumption, ReachFacts
       DEF RayPasses, Searching, Below, Above, Turned, EnpInv, ShapeEnp, Clean, enp_dist
  <1>2. /\ start_z' = start_z /\ end_z' = z_enp /\ direction' = "reverse"
        /\ Advance(z_enp, Step) /\ successes' = successes + 1
        /\ keep_going' = ~Straddle(end_z, z_enp) /\ lens' = lens
    BY <1>1 DEF RayPasses, WrongWay
  <1>3. z_enp' = z_enp + Step /\ del_z' = Step /\ trial' = trial + 1
    <2>1. z_enp + Step # 0
      BY <1>1 DEF enp_dist
    <2> QED BY <1>2, <2>1 DEF Advance, Nudged
  <1>4. /\ Straddle(end_z, z_enp) <=> (end_z < lens.root /\ lens.root < z_enp)
        /\ Straddle(start_z, z_enp) <=> (start_z < lens.root /\ lens.root < z_enp)
    BY <1>1, StraightHeights
  <1>5. Turned'
    BY <1>1, <1>2, <1>3 DEF Turned, enp_dist
  <1>6. CASE Below
    <2>1. Below'
      BY <1>1, <1>2, <1>5, <1>6 DEF Below, Passes
    <2> QED BY <2>1 DEF Phases
  <1>7. CASE Above
    <2>1. CASE Straddle(end_z, z_enp)
      <3>1. Straddle(start_z, z_enp)
        BY <1>1, <1>4, <2>1
      <3>2. Straddle(start_z, end_z)'
        BY <1>2, <3>1 DEF Straddle, Height
      <3>3. Crossed'
        BY <1>1, <1>2, <2>1, <3>2 DEF Crossed
      <3> QED BY <3>3 DEF Phases
    <2>2. CASE ~Straddle(end_z, z_enp)
      <3>1. z_enp = enp_dist + (trial - 1) * Step
        <4>1. end_z = enp_dist + (trial - 2) * Step
          BY <1>7 DEF Above, RayPasses, Searching
        <4>2. (trial - 1) * Step = (trial - 2) * Step + Step
          BY <1>1
        <4> QED BY <1>1, <4>1, <4>2
      <3>2. lens.root # z_enp
        <4>1. z_enp = (Divisions + trial - 1) * Step
          BY <1>1, <3>1 DEF enp_dist
        <4>2. Divisions + trial - 1 \in Int
          BY <1>1
        <4>3. ShapeEnp /\ InReach(lens)
          BY <1>1 DEF Clean
        <4> QED BY <4>1, <4>2, <4>3, ReachFacts
      <3>3. z_enp < lens.root
        <4>1. end_z < lens.root
          BY <1>7 DEF Above
        <4> QED BY <1>1, <1>4, <2>2, <3>2, <4>1
      <3>4. enp_dist + (trial' - 2) * Step = z_enp
        <4>1. trial' - 2 = trial - 1
          BY <1>1, <1>3
        <4> QED BY <3>1, <4>1
      <3>5. keep_going' = TRUE
        BY <1>2, <2>2
      <3>6. Above'
        BY <1>2, <1>5, <3>3, <3>4, <3>5 DEF Above, enp_dist
      <3> QED BY <3>6 DEF Phases
    <2> QED BY <2>1, <2>2
  <1> QED BY <1>6, <1>7

\* A failing ray turns the search round, or ends it.
LEMMA ForwardFails ==
  ASSUME EnpInv, Clean, Clean', Forward, RayFails
  PROVE  Phases'
  <1> USE StepAssumption
  <1>1. LensOK /\ ShapeEnp /\ ~lens.bent /\ trial \in Nat /\ trial - 1 \in Nat /\ trial >= 1
    BY DEF EnpInv, ShapeEnp, Clean, Forward
  <1>2. /\ lens.root \in Int /\ enp_dist \in Int /\ lens.root # enp_dist
        /\ lens.lo \in Int /\ lens.hi \in Int /\ lens.lo <= enp_dist /\ enp_dist <= lens.hi
        /\ lens.lo < lens.root /\ lens.root < lens.hi
    BY <1>1, ReachFacts DEF Clean, Passes
  <1>0. PICK y \in Int, z \in Int : y = Place(trial - 1) /\ z = Place(trial)
    BY <1>1, PlaceFacts
  <1>3. z < y /\ y <= enp_dist /\ (z = y - Step \/ (y = Step /\ z = -1))
    <2>1. (trial - 1) + 1 = trial
      BY <1>1
    <2> QED BY <1>0, <1>1, <2>1, PlaceFacts
  <1>4. /\ start_z = enp_dist /\ start_z # None /\ end_z = y /\ z_enp = z /\ del_z = -Step
        /\ direction = "first" /\ successes = trial
    BY <1>0, <1>2, NoneAssumption DEF Forward
  <1>5. ~MissesFirst(z) /\ ~Passes(z)
    <2>1. first_surf_misses' = first_surf_misses + (IF MissesFirst(z) THEN 1 ELSE 0)
      BY <1>4 DEF RayFails
    <2>2. first_surf_misses = 0 /\ first_surf_misses' = 0
      BY DEF Clean
    <2> QED BY <1>4, <2>1, <2>2 DEF RayFails
  <1>6. /\ start_z' = y /\ end_z' = enp_dist /\ direction' = "reverse"
        /\ Advance(enp_dist, Step) /\ keep_going' = TRUE /\ successes' = trial /\ lens' = lens
    <2>1. -(-Step) = Step
      OBVIOUS
    <2> QED BY <1>4, <1>5, <2>1 DEF RayFails, TurnRound
  <1>7. z_enp' = enp_dist + Step /\ del_z' = Step /\ trial' = trial + 1
    <2>1. enp_dist + Step # 0
      BY DEF enp_dist
    <2> QED BY <1>6, <2>1 DEF Advance, Nudged
  <1>8. Turned'
    BY <1>1, <1>2, <1>3, <1>6, <1>7 DEF Turned, enp_dist
  <1>9. CASE lens.root < y
    <2>1. ~Passes(start_z - Step)' \/ (start_z' = Step /\ ~Passes(-1)')
      BY <1>3, <1>5, <1>6 DEF Passes
    <2>2. Below'
      BY <1>6, <1>8, <1>9, <2>1 DEF Below
    <2> QED BY <2>2 DEF Phases
  <1>10. CASE ~(lens.root < y)
    <2>1. trial = 1 /\ y = enp_dist
      <3>1. trial = 1
        BY <1>1, <1>4, <1>10 DEF Forward
      <3>2. trial - 1 = 0
        BY <3>1
      <3> QED BY <1>0, <3>1, <3>2, PlaceFacts
    <2>2. enp_dist + (trial' - 2) * Step = enp_dist
      <3>1. trial' - 2 = 0
        BY <1>7, <2>1
      <3> QED BY <1>2, <3>1
    <2>3. Above'
      BY <1>2, <1>6, <1>8, <1>10, <2>1, <2>2 DEF Above, enp_dist
    <2> QED BY <2>3 DEF Phases
  <1> QED BY <1>9, <1>10

LEMMA TurnedFails ==
  ASSUME EnpInv, Clean, Clean', Below \/ Above, RayFails
  PROVE  Phases'
  <1> USE StepAssumption
  <1>1. /\ start_z \in Int /\ end_z \in Int /\ z_enp = end_z + Step
        /\ start_z # None /\ direction = "reverse" /\ del_z = Step
        /\ trial \in Nat /\ trial >= 2
    BY NoneAssumption DEF RayFails, Searching, Below, Above, Turned, EnpInv, ShapeEnp
  <1>2. ~MissesFirst(z_enp) /\ ~Passes(z_enp)
    <2>1. first_surf_misses' = first_surf_misses + (IF MissesFirst(z_enp) THEN 1 ELSE 0)
      BY DEF RayFails
    <2>2. first_surf_misses = 0 /\ first_surf_misses' = 0
      BY DEF Clean
    <2> QED BY <2>1, <2>2 DEF RayFails
  <1>3. /\ keep_going' = FALSE /\ Advance(z_enp, Step)
        /\ UNCHANGED <<lens, start_z, end_z, direction, successes>>
    <2>1. direction # "first"
      BY <1>1
    <2>2. /\ Advance(z_enp, del_z) /\ UNCHANGED <<start_z, end_z, direction>>
      <3> DEFINE turn == start_z # None /\ direction = "first"
      <3>1. ~turn /\ (MissesFirst(z_enp) = turn)
        BY <1>2, <2>1 DEF MissesFirst
      <3> HIDE DEF turn
      <3>2. Advance(IF MissesFirst(z_enp) \/ turn THEN enp_dist ELSE z_enp,
                    IF MissesFirst(z_enp) = turn THEN del_z ELSE -del_z)
        BY DEF RayFails, turn
      <3>3. IF turn THEN TurnRound(start_z, end_z) ELSE UNCHANGED <<start_z, end_z, direction>>
        BY DEF RayFails, turn
      <3> QED BY <1>2, <3>1, <3>2, <3>3
    <2>3. keep_going' = FALSE
      BY <1>1, <2>1 DEF RayFails
    <2> QED BY <1>1, <2>2, <2>3 DEF RayFails
  <1>4. del_z' = Step /\ trial' = trial + 1
    BY <1>3 DEF Advance
  <1>5. Turned'
    BY <1>1, <1>3, <1>4 DEF Turned, Below, Above, enp_dist
  <1>6. CASE Below
    <2>1. Below'
      BY <1>3, <1>5, <1>6 DEF Below, Passes
    <2> QED BY <2>1 DEF Phases
  <1>7. CASE Above
    <2>1. ~Passes(end_z + Step)'
      BY <1>1, <1>2, <1>3 DEF Passes
    <2>2. Above'
      BY <1>3, <1>5, <1>7, <2>1 DEF Above
    <2> QED BY <2>2 DEF Phases
  <1> QED BY <1>6, <1>7

-----------------------------------------------------------------------------
(* How the search of such a lens ends. *)

LEMMA PlaceIsFar ==
  ASSUME NEW t \in Nat
  PROVE  Place(t) <= enp_dist - t * Step
  <1> USE StepAssumption DEF Place, enp_dist
  <1>1. CASE t < Divisions
    <2>1. (Divisions - t) * Step = Divisions * Step - t * Step
      OBVIOUS
    <2> QED BY <1>1, <2>1
  <1>2. CASE ~(t < Divisions)
    <2>1. (t - Divisions) * Step = t * Step - Divisions * Step
      OBVIOUS
    <2> QED BY <1>2, <2>1
  <1> QED BY <1>1, <1>2

\* The trials are enough.
LEMMA TrialsSuffice ==
  ASSUME EnpInv, Clean, Searched
  PROVE  ~Opening /\ ~Forward /\ (Above => ~keep_going)
  <1> USE StepAssumption
  <1>1. ShapeEnp /\ InReach(lens) /\ trial \in Nat /\ trial <= MaxTrials
    BY DEF EnpInv, Clean, ShapeEnp
  <1>2. /\ lens.root \in Int /\ enp_dist \in Int
        /\ lens.root - enp_dist < (MaxTrials - 2) * Step
        /\ enp_dist - lens.root < (MaxTrials - 2) * Step
    BY <1>1, ReachFacts
  <1>3. (MaxTrials - 2) * Step > 0
    BY <1>2
  <1>4. MaxTrials > 2
    <2>1. MaxTrials - 2 \in Int /\ (MaxTrials - 2 <= 0 => (MaxTrials - 2) * Step <= 0)
      OBVIOUS
    <2> QED BY <1>3, <2>1
  <1>5. keep_going => trial = MaxTrials
    BY <1>1 DEF Searched, Searching, Clean
  <1>6. ~Opening
    BY <1>4, <1>5 DEF Opening
  <1>7. ASSUME Forward PROVE FALSE
    <2>1. trial = MaxTrials /\ trial - 1 \in Nat
      BY <1>4, <1>5, <1>7 DEF Forward
    <2>2. lens.root < Place(trial - 1) /\ Place(trial - 1) <= enp_dist - (trial - 1) * Step
          /\ Place(trial - 1) \in Int
      BY <1>4, <1>7, <2>1, PlaceIsFar, PlaceFacts DEF Forward
    <2>3. (trial - 1) * Step = (MaxTrials - 2) * Step + Step
      BY <2>1
    <2> QED BY <1>2, <2>2, <2>3
  <1>8. ASSUME Above, keep_going PROVE FALSE
    <2>1. trial = MaxTrials /\ end_z = enp_dist + (trial - 2) * Step /\ end_z < lens.root
      BY <1>5, <1>8 DEF Above
    <2> QED BY <1>2, <2>1
  <1> QED BY <1>6, <1>7, <1>8

\* One of the samples around a ray that traces does, in a beam wide enough.
LEMMA SampleTraces ==
  ASSUME ShapeEnp, InReach(lens), del_z = Step
  PROVE  \E z \in Around(enp_dist) : Passes(z)
  <1> USE StepAssumption
  <1> DEFINE m == Samples - 1
             g == (2 * Step) \div m
             z(i) == enp_dist - Step + g * i
  <1>1. /\ lens.lo \in Int /\ lens.hi \in Int /\ enp_dist \in Int
        /\ lens.lo <= enp_dist /\ enp_dist <= lens.hi /\ g <= lens.hi - lens.lo
    BY ReachFacts DEF Passes, InReach
  <1>2. m \in Nat \ {0} /\ g \in Int /\ 2 * Step = m * g
    BY SMTT(30)
  <1>3. \A i \in 0 .. m : z(i) \in Int /\ enp_dist - del_z + (2 * del_z * i) \div m = z(i)
    <2> TAKE i \in 0 .. m
    <2>1. 2 * del_z * i = m * (g * i)
      <3>1. (m * g) * i = m * (g * i)
        BY <1>2
      <3> QED BY <1>2, <3>1
    <2>2. g * i \in Int
      BY <1>2
    <2> HIDE DEF m, g
    <2>3. (m * (g * i)) \div m = g * i
      BY <1>2, <2>2, Multiples
    <2> QED BY <1>1, <2>1, <2>2, <2>3
  <1> HIDE DEF g
  <1>4. \E i \in 0 .. m : lens.lo <= z(i) /\ z(i) <= lens.hi
    <2> DEFINE T == {i \in 0 .. m : lens.lo <= z(i)}
    <2>1. m \in T
      <3>1. z(m) = enp_dist + Step
        BY <1>1, <1>2
      <3> QED BY <1>1, <1>2, <3>1
    <2>2. PICK i \in T : \A k \in T : i <= k
      <3>1. T \subseteq Nat /\ T # {}
        BY <2>1
      <3> HIDE DEF T
      <3> QED BY <3>1, LeastElement
    <2>3. CASE i = 0
      <3>1. z(0) = enp_dist - Step
        BY <1>1, <1>2
      <3> QED BY <1>1, <2>2, <2>3, <3>1
    <2>4. CASE i # 0
      <3>1. i - 1 \in 0 .. m /\ ~(i - 1 \in T)
        BY <2>2, <2>4
      <3>2. z(i - 1) < lens.lo
        BY <1>1, <1>3, <3>1
      <3>3. z(i) = z(i - 1) + g
        BY <1>1, <1>2, <3>1
      <3>4. z(i - 1) \in Int /\ z(i) \in Int
        BY <1>3, <2>2, <3>1
      <3> HIDE DEF z
      <3>5. z(i) <= lens.hi
        BY <1>1, <1>2, <3>2, <3>3, <3>4
      <3> QED BY <2>2, <3>5
    <2> QED BY <2>3, <2>4
  <1>5. PICK i \in 0 .. m : lens.lo <= z(i) /\ z(i) <= lens.hi
    BY <1>4
  <1>6. z(i) \in Around(enp_dist)
    BY <1>3, <1>5 DEF Around
  <1>7. Passes(z(i))
    BY <1>1, <1>3, <1>5 DEF Passes
  <1> QED BY <1>6, <1>7

LEMMA FirstAndLast ==
  ASSUME LensOK, del_z \in {Step, -Step}, NEW S, S # {}, \A z \in S : z \in Int /\ Passes(z)
  PROVE  FirstOf(S) \in S /\ LastOf(S) \in S
  <1> USE StepAssumption
  <1>1. lens.lo \in Int /\ lens.hi \in Int /\ \A z \in S : z \in Int /\ lens.lo <= z /\ z <= lens.hi
    BY LensTypes DEF Passes
  <1>2. PICK u \in S : \A y \in S : y - u \in Nat
    <2> DEFINE T == {z - lens.lo : z \in S}
    <2>1. PICK k \in T : \A j \in T : k <= j
      <3>1. T \subseteq Nat /\ T # {}
        BY <1>1
      <3> HIDE DEF T
      <3> QED BY <3>1, LeastElement
    <2>2. PICK z \in S : k = z - lens.lo
      BY <2>1
    <2>3. \A y \in S : y - z \in Nat
      <3> TAKE y \in S
      <3>1. y - lens.lo \in T
        OBVIOUS
      <3>2. k <= y - lens.lo
        BY <2>1, <3>1
      <3> HIDE DEF T
      <3> QED BY <1>1, <2>2, <3>2
    <2> QED BY <2>3
  <1>3. PICK v \in S : \A y \in S : v - y \in Nat
    <2> DEFINE T == {lens.hi - z : z \in S}
    <2>1. PICK k \in T : \A j \in T : k <= j
      <3>1. T \subseteq Nat /\ T # {}
        BY <1>1
      <3> HIDE DEF T
      <3> QED BY <3>1, LeastElement
    <2>2. PICK z \in S : k = lens.hi - z
      BY <2>1
    <2>3. \A y \in S : z - y \in Nat
      <3> TAKE y \in S
      <3>1. lens.hi - y \in T
        OBVIOUS
      <3>2. k <= lens.hi - y
        BY <2>1, <3>1
      <3> HIDE DEF T
      <3> QED BY <1>1, <2>2, <3>2
    <2> QED BY <2>3
  <1>4. CASE del_z = Step
    <2>1. \A y \in S : (y - u) * del_z >= 0 /\ (v - y) * del_z >= 0
      BY <1>2, <1>3, <1>4
    <2>2. \E z \in S : \A y \in S : (y - z) * del_z >= 0
      BY <2>1
    <2>3. \E z \in S : \A y \in S : (z - y) * del_z >= 0
      BY <2>1
    <2> QED BY <2>2, <2>3 DEF FirstOf, LastOf
  <1>5. CASE del_z = -Step
    <2>1. \A y \in S : (y - v) * del_z >= 0 /\ (u - y) * del_z >= 0
      <3> TAKE y \in S
      <3>1. PICK p \in Nat, q \in Nat : p = v - y /\ q = y - u
        BY <1>2, <1>3
      <3>2. y - v = -p /\ u - y = -q
        BY <1>1, <3>1
      <3>3. (-p) * del_z = p * Step /\ (-q) * del_z = q * Step
        BY <1>5
      <3>4. p * Step >= 0 /\ q * Step >= 0
        OBVIOUS
      <3> QED BY <3>2, <3>3, <3>4
    <2>2. \E z \in S : \A y \in S : (y - z) * del_z >= 0
      BY <2>1
    <2>3. \E z \in S : \A y \in S : (z - y) * del_z >= 0
      BY <2>1
    <2> QED BY <2>2, <2>3 DEF FirstOf, LastOf
  <1> QED BY <1>4, <1>5

Estimated == bracket.estimate \in Int /\ Passes(bracket.estimate)

\* An estimate between rays that trace traces.
LEMMA SolveEstimates ==
  ASSUME ShapeEnp, Clean, NEW a, NEW b, NEW y \in Int, NEW z \in Int, Passes(y),
         Solve(a, b, y, z), lens' = lens
  PROVE  pc' = "solve" /\ Estimated'
  <1>1. LensOK /\ ~lens.bent /\ InReach(lens)
    BY DEF ShapeEnp, Clean
  <1>2. lens.root \in Int /\ Passes(lens.root)
    BY <1>1, ReachFacts
  <1>3. Estimate(y, z) \in Int /\ Passes(Estimate(y, z))
    BY <1>1, <1>2, EstimateIsRoot
  <1>4. bracket'.estimate = Estimate(y, z) /\ pc' = "solve"
    BY DEF Solve
  <1>5. PICK w \in Int : w = Estimate(y, z) /\ Passes(w)
    BY <1>3
  <1> QED BY <1>4, <1>5 DEF Estimated, Passes

LEMMA SingleRayEnds ==
  ASSUME EnpInv, Clean, Phases, SingleRay
  PROVE  pc' = "solve" /\ Estimated'
  <1> USE StepAssumption
  <1>1. ShapeEnp /\ LensOK /\ ~lens.bent /\ InReach(lens)
    BY DEF EnpInv, ShapeEnp, Clean
  <1>2. ~Opening /\ ~Forward
    BY TrialsSuffice DEF SingleRay
  <1>3. ~Crossed
    <2> SUFFICES ASSUME Crossed PROVE FALSE
      OBVIOUS
    <2>1. start_z \in Int /\ Straddle(start_z, start_z)
      BY <1>1 DEF Crossed, ShapeEnp, MaybePlace, SingleRay
    <2> QED BY <1>1, <2>1, StraightHeights, LensTypes
  <1>4. del_z = Step /\ start_z = enp_dist /\ lens' = lens
    BY <1>2, <1>3 DEF Phases, Below, Above, Turned, SingleRay, enp_dist
  <1> DEFINE S == {z \in Around(start_z) : Passes(z)}
  <1>5. S # {}
    BY <1>1, <1>4, SampleTraces
  <1>6. \A z \in S : z \in Int /\ Passes(z)
    <2>1. Samples - 1 \in Nat \ {0}
      OBVIOUS
    <2>2. \A i \in 0 .. Samples - 1 : (2 * del_z * i) \div (Samples - 1) \in Int
      BY <1>4, <2>1
    <2> QED BY <1>4, <2>2 DEF Around, enp_dist
  <1>7. Solve(FirstOf(S), LastOf(S), FirstOf(S), LastOf(S))
    BY <1>5 DEF SingleRay
  <1> HIDE DEF S
  <1>8. FirstOf(S) \in Int /\ Passes(FirstOf(S)) /\ LastOf(S) \in Int
    BY <1>1, <1>4, <1>5, <1>6, FirstAndLast
  <1> QED BY <1>1, <1>4, <1>7, <1>8, SolveEstimates

LEMMA CrossingEnds ==
  ASSUME EnpInv, Clean, Crossing
  PROVE  pc' = "solve" /\ Estimated'
  <1>1. /\ ShapeEnp /\ lens' = lens
        /\ start_z \in Int /\ end_z \in Int /\ Passes(start_z) /\ Passes(end_z)
        /\ prev_z # None => prev_z \in Int /\ Passes(prev_z)
    BY DEF Crossing, EnpInv, ShapeEnp, FoundTrace, MaybePlace
  <1>2. \/ prev_z # None /\ Solve(prev_z, end_z, prev_z, end_z)
        \/ Solve(start_z, end_z, start_z, end_z)
    BY DEF Crossing
  <1> QED BY <1>1, <1>2, SolveEstimates

LEMMA EdgesEnd ==
  ASSUME EnpInv, Clean, Phases, EdgesOfBeam
  PROVE  pc' = "solve" /\ Estimated'
  <1> USE StepAssumption
  <1>1. /\ ShapeEnp /\ LensOK /\ ~lens.bent /\ InReach(lens) /\ lens' = lens
        /\ start_z \in Int /\ end_z \in Int /\ Passes(start_z) /\ Passes(end_z)
    BY DEF EdgesOfBeam, EnpInv, ShapeEnp, FoundTrace, MaybePlace, Clean
  <1>2. /\ lens.root \in Int /\ lens.lo \in Int /\ lens.hi \in Int
        /\ lens.lo < lens.root /\ lens.root < lens.hi
        /\ \A k \in Int : lens.root # k * Step
    BY <1>1, ReachFacts
  <1>3. ~Opening /\ ~Forward /\ (Above => ~keep_going)
    BY TrialsSuffice DEF EdgesOfBeam
  <1>4. ~Crossed
    BY DEF Crossed, EdgesOfBeam
  <1>5. (Below \/ Above) /\ del_z = Step
    BY <1>3, <1>4 DEF Phases, Below, Above, Turned
  <1>6. PICK b \in Int : /\ b = find_edge(end_z, end_z + del_z)
                         /\ EdgeOf(b, end_z, end_z + Step)
    <2>1. EdgeOf(find_edge(end_z, end_z + Step), end_z, end_z + Step)
      BY <1>1, EdgeFound
    <2> QED BY <1>5, <2>1 DEF EdgeOf
  <1>7. PICK a \in Int : /\ a = find_edge(start_z, start_z - del_z)
                         /\ EdgeOf(a, start_z, start_z - Step)
    <2>1. EdgeOf(find_edge(start_z, start_z - Step), start_z, start_z - Step)
      BY <1>1, EdgeFound
    <2> QED BY <1>5, <2>1 DEF EdgeOf
  <1>8. IF Straddle(b, end_z) THEN Solve(end_z, b, end_z, b)
        ELSE IF Straddle(a, start_z) THEN Solve(start_z, a, start_z, a)
        ELSE Return(end_z) /\ UNCHANGED <<bracket, reused>>
    BY <1>6, <1>7 DEF EdgesOfBeam
  <1>9. Straddle(b, end_z) \/ Straddle(a, start_z)
    <2>1. CASE Below
      <3>1. lens.root < start_z
        BY <2>1 DEF Below
      <3>2. /\ start_z - Step <= a /\ a <= start_z /\ Passes(a)
            /\ a = start_z - Step \/ ~Passes(a - 1)
        BY <1>1, <1>7 DEF EdgeOf
      <3>3. a < lens.root
        <4>1. CASE ~Passes(a - 1)
          BY <1>1, <1>2, <3>2, <4>1 DEF Passes
        <4>2. CASE Passes(a - 1)
          <5>1. a = start_z - Step /\ start_z = Step /\ ~Passes(-1)
            BY <2>1, <3>2, <4>2 DEF Below
          <5>2. a - 1 = -1
            BY <5>1
          <5> QED BY <4>2, <5>1, <5>2
        <4> QED BY <4>1, <4>2
      <3>4. Straddle(a, start_z)
        BY <1>1, <1>2, <3>1, <3>3, StraightHeights
      <3> QED BY <3>4
    <2>2. CASE Above
      <3>1. end_z < lens.root /\ ~Passes(end_z + Step)
        BY <1>3, <2>2 DEF Above
      <3>2. /\ end_z <= b /\ b <= end_z + Step /\ Passes(b)
            /\ b = end_z + Step \/ ~Passes(b + 1)
        BY <1>1, <1>6 DEF EdgeOf
      <3>3. lens.root < b
        BY <1>1, <1>2, <3>1, <3>2 DEF Passes
      <3>4. Straddle(b, end_z)
        BY <1>1, <1>2, <3>1, <3>3, StraightHeights
      <3> QED BY <3>4
    <2> QED BY <1>5, <2>1, <2>2
  <1>10. Solve(end_z, b, end_z, b) \/ Solve(start_z, a, start_z, a)
    BY <1>8, <1>9
  <1> QED BY <1>1, <1>10, SolveEstimates

\* Where control is, what the phases have led to.
CachedOK == pc = "cached" => Opening
SolveOK == pc = "solve" /\ Clean => Estimated
DoneOK == pc = "done" /\ ~reused /\ ~lens.axial /\ Clean => result = lens.root

PupilInv == EnpInv /\ CachedOK /\ PhaseInv /\ SolveOK /\ DoneOK

\* The conditions of a clean search were met before every step of it.
LEMMA CleanBefore ==
  ASSUME EnpInv, RayPasses \/ RayFails, Clean'
  PROVE  Clean
  <1>1. lens' = lens /\ first_surf_misses \in Nat
    BY DEF RayPasses, RayFails, EnpInv, ShapeEnp
  <1>2. first_surf_misses = 0
    BY <1>1 DEF RayPasses, RayFails, Clean
  <1> QED BY <1>1, <1>2 DEF Clean, InReach, Passes

LEMMA CleanStays ==
  ASSUME UNCHANGED <<lens, search>>, Clean'
  PROVE  Clean
  BY DEF Clean, InReach, Passes, search, counts

LEMMA PupilStep ==
  ASSUME PupilInv, EnpNext
  PROVE  PupilInv'
  <1> USE DEF PupilInv
  <1>1. EnpInv'
    BY EnpInvStep
  <1>2. CASE RayPasses \/ RayFails
    <2>1. pc = "search" /\ pc' = "search"
      BY <1>2 DEF RayPasses, RayFails, Searching
    <2>2. ASSUME Clean' PROVE Phases'
      <3>1. Clean /\ Phases
        BY <1>2, <2>1, <2>2, CleanBefore DEF PhaseInv
      <3>2. ~Crossed
        BY <1>2 DEF Crossed, RayPasses, RayFails, Searching
      <3>3. CASE Opening
        <4>1. ShapeEnp /\ InReach(lens)
          BY <3>1 DEF EnpInv, Clean
        <4>2. Passes(z_enp)
          BY <3>3, <4>1, ReachFacts DEF Opening
        <4>3. RayPasses
          BY <1>2, <4>2 DEF RayFails
        <4> QED BY <3>1, <3>3, <4>3, OpeningPasses
      <3>4. CASE Forward
        BY <1>2, <2>2, <3>1, <3>4, ForwardPasses, ForwardFails
      <3>5. CASE Below \/ Above
        BY <1>2, <2>2, <3>1, <3>5, TurnedPasses, TurnedFails
      <3> QED BY <3>1, <3>2, <3>3, <3>4, <3>5 DEF Phases
    <2> QED BY <1>1, <2>1, <2>2 DEF CachedOK, PhaseInv, SolveOK, DoneOK
  <1>3. CASE NothingPasses
    <2>1. pc = "search" /\ pc' = "done" /\ UNCHANGED <<lens, search>>
      BY <1>3 DEF NothingPasses, Searched, Return
    <2>2. ASSUME Clean' PROVE FALSE
      <3>1. Clean /\ Phases
        BY <2>1, <2>2, CleanStays DEF PhaseInv
      <3>2. ~Opening /\ ~Forward
        BY <1>3, <3>1, TrialsSuffice DEF NothingPasses
      <3>3. start_z = None
        BY <1>3 DEF NothingPasses
      <3> QED BY <3>1, <3>2, <3>3, NoneAssumption DEF Phases, Crossed, Below, Above, Turned
    <2> QED BY <1>1, <2>1, <2>2 DEF CachedOK, PhaseInv, SolveOK, DoneOK
  <1>4. CASE SingleRay \/ Crossing \/ EdgesOfBeam
    <2>1. pc = "search" /\ pc' \in {"solve", "done"} /\ UNCHANGED <<lens, search>>
      BY <1>4, EndsKeepOrder DEF EnpInv, SingleRay, Crossing, EdgesOfBeam, Searched
    <2>2. ASSUME Clean' PROVE pc' = "solve" /\ Estimated'
      <3>1. Clean /\ Phases
        BY <2>1, <2>2, CleanStays DEF PhaseInv
      <3> QED BY <1>4, <3>1, SingleRayEnds, CrossingEnds, EdgesEnd
    <2> QED BY <1>1, <2>1, <2>2 DEF CachedOK, PhaseInv, SolveOK, DoneOK
  <1>5. CASE SecantThenBrent
    <2>1. pc = "solve" /\ pc' = "done" /\ UNCHANGED <<lens, search>>
      BY <1>5 DEF SecantThenBrent, Return
    <2>2. ASSUME Clean' PROVE result' = lens.root
      <3>1. Clean /\ Estimated
        BY <2>1, <2>2, CleanStays DEF SolveOK
      <3>2. Secant(bracket.estimate) = {Root(lens.root, TRUE, lens.root)}
        BY <3>1 DEF Secant, Estimated, Clean
      <3>3. ReachesStop(lens.root)
        <4>1. ShapeEnp /\ InReach(lens)
          BY <3>1 DEF EnpInv, Clean
        <4> QED BY <4>1, ReachFacts DEF ReachesStop
      <3>4. Return(lens.root)
        BY <1>5, <3>2, <3>3 DEF SecantThenBrent, Root
      <3> QED BY <3>4 DEF Return
    <2>3. lens' = lens
      BY <2>1
    <2> QED BY <1>1, <2>1, <2>2, <2>3 DEF CachedOK, PhaseInv, SolveOK, DoneOK
  <1>6. CASE TryCached
    <2>1. pc = "cached" /\ Opening /\ UNCHANGED <<lens, search>>
      BY <1>6 DEF TryCached, CachedOK
    <2>2. \/ pc' = "search"
          \/ pc' = "done" /\ (reused' \/ lens.axial)
      BY <1>6 DEF TryCached, Return
    <2>3. Opening'
      BY <2>1 DEF Opening, search, found, counts, enp_dist
    <2>4. lens' = lens
      BY <2>1
    <2> QED BY <1>1, <2>2, <2>3, <2>4 DEF CachedOK, PhaseInv, SolveOK, DoneOK, Phases
  <1>7. CASE AimAgain
    <2>1. pc' = "cached" /\ Opening'
      BY <1>7 DEF AimAgain, Fresh, Opening, enp_dist
    <2> QED BY <1>1, <2>1 DEF CachedOK, PhaseInv, SolveOK, DoneOK
  <1> QED BY <1>2, <1>3, <1>4, <1>5, <1>6, <1>7 DEF EnpNext

LEMMA PupilInit == ASSUME EnpInit PROVE PupilInv
  <1>1. EnpInv
    BY EnpInvInit
  <1> QED BY <1>1 DEF EnpInit, PupilInv, CachedOK, PhaseInv, SolveOK, DoneOK, Opening

\* The other ways of aiming leave the search alone.
LEMMA PupilStutters == ASSUME PupilInv, UNCHANGED enp_vars PROVE PupilInv'
  BY DEF PupilInv, EnpInv, ShapeEnp, FoundTrace, BracketOK, CachedOK, PhaseInv, SolveOK, DoneOK,
         Opening, Phases, Forward, Crossed, Turned, Below, Above, Clean, Estimated, InReach, LensOK,
         Passes, Straddle, Height, enp_vars, search, found, counts, Place, enp_dist

\* The search of a wide-angle field hands the root finders two rays that
\* trace and straddle the stop centre; and when no ray misses the first
\* surface and the centre is in reach, the pupil it returns is the one whose
\* ray goes through the centre (Wideangle::find_real_enp_rev1).
THEOREM SearchFindsThePupil == Spec => []SearchFindsPupil
  <1>1. Init => PupilInv
    BY PupilInit DEF Init
  <1>2. PupilInv /\ [Next]_vars => PupilInv'
    <2> SUFFICES ASSUME PupilInv, [Next]_vars PROVE PupilInv'
      OBVIOUS
    <2>1. CASE Wide
      BY <2>1, PupilStep DEF Wide
    <2>2. CASE ~Wide
      <3>1. UNCHANGED enp_vars
        BY <2>2 DEF Next, TwoDimensional, get_2d_solution_raw, OneDimensional, get_1d_solution_raw, FindRoot, Floating, CatchReverse, Aimed, vars
      <3> QED BY <3>1, PupilStutters
    <2> QED BY <2>1, <2>2
  <1>3. PupilInv => SearchFindsPupil
    <2> SUFFICES ASSUME PupilInv PROVE SearchFindsPupil
      OBVIOUS
    <2>1. IntervalStraddles
      BY StraddleHolds DEF PupilInv
    <2>2. FindsPupil
      BY DEF PupilInv, DoneOK, Clean, FindsPupil
    <2> QED BY <2>1, <2>2 DEF SearchFindsPupil
  <1> QED BY <1>1, <1>2, <1>3, PTL DEF Spec

-----------------------------------------------------------------------------
(* A search is determined by its lens. *)

SearchState ==
  [z |-> z_enp, del |-> del_z, start |-> start_z, prev |-> prev_z, end |-> end_z,
   direction |-> direction, going |-> keep_going,
   misses |-> first_surf_misses, trial |-> trial, successes |-> successes]

Searches ==
  [z : Int, del : {Step, -Step}, start : MaybePlace, prev : MaybePlace, end : MaybePlace,
   direction : {"first", "reverse"}, going : BOOLEAN,
   misses : Nat, trial : Nat, successes : Nat]

Start ==
  [z |-> enp_dist, del |-> -Step, start |-> None, prev |-> None, end |-> None,
   direction |-> "first", going |-> TRUE, misses |-> 0, trial |-> 0, successes |-> 0]

Goes(s) == s.going /\ s.trial < MaxTrials /\ s.misses < 2

\* One pass of the loop as a function of the state of the search.
AfterPass(s) ==
  LET first == IF s.start = None THEN s.z ELSE s.start
      wrong == /\ s.successes = 1 /\ s.direction = "first"
               /\ Abs(Height(first)) < Abs(Height(s.z))
      del == IF wrong THEN -s.del ELSE s.del
  IN  [z |-> Nudged((IF wrong THEN enp_dist ELSE s.z) + del, del), del |-> del,
       start |-> IF wrong THEN s.z ELSE first, prev |-> s.end,
       end |-> IF wrong THEN first ELSE s.z,
       direction |-> IF wrong THEN "reverse" ELSE s.direction,
       going |-> ~(s.successes > 0 /\ Straddle(s.end, s.z)),
       misses |-> s.misses, trial |-> s.trial + 1, successes |-> s.successes + 1]

AfterFailure(s) ==
  LET miss == MissesFirst(s.z)
      turn == s.start # None /\ s.direction = "first"
      del == IF miss = turn THEN s.del ELSE -s.del
  IN  [z |-> Nudged((IF miss \/ turn THEN enp_dist ELSE s.z) + del, del), del |-> del,
       start |-> IF turn THEN s.end ELSE s.start, prev |-> s.prev,
       end |-> IF turn THEN s.start ELSE s.end,
       direction |-> IF turn THEN "reverse" ELSE s.direction,
       going |-> (s.start = None \/ turn),
       misses |-> s.misses + (IF miss THEN 1 ELSE 0), trial |-> s.trial + 1,
       successes |-> s.successes]

After(s) == IF Passes(s.z) THEN AfterPass(s) ELSE AfterFailure(s)

\* The states a search of this lens goes through, and those it stops in.
Closed(C) == Start \in C /\ \A s \in C : Goes(s) => After(s) \in C
Reached == {s \in Searches : \A C \in SUBSET Searches : Closed(C) => s \in C}
Ends == {s \in Reached : ~Goes(s)}

LEMMA LoopIsAfter ==
  ASSUME ShapeEnp, RayPasses \/ RayFails
  PROVE  Goes(SearchState) /\ SearchState' = After(SearchState)
  <1> DEFINE s == SearchState
  <1>1. Goes(s)
    BY DEF RayPasses, RayFails, Searching, SearchState, Goes
  <1>2. CASE RayPasses
    <2>1. Passes(s.z) 
      BY <1>2 DEF RayPasses, SearchState
    <2> DEFINE first == IF start_z = None THEN z_enp ELSE start_z
    <2>2. CASE WrongWay(first)
      <3>1. /\ start_z' = z_enp /\ end_z' = first /\ direction' = "reverse" /\ prev_z' = end_z
            /\ del_z' = -del_z /\ z_enp' = Nudged(enp_dist + -del_z, -del_z)
            /\ first_surf_misses' = first_surf_misses
            /\ trial' = trial + 1 /\ successes' = successes + 1
        BY <1>2, <2>2 DEF RayPasses, TurnRound, Advance
      <3>2. keep_going' = ~(successes > 0 /\ Straddle(end_z, z_enp))
        BY <1>2 DEF RayPasses
      <3>3. SearchState' = AfterPass(s)
        BY <2>2, <3>1, <3>2 DEF SearchState, AfterPass, WrongWay
      <3> QED BY <1>1, <2>1, <3>3 DEF After
    <2>3. CASE ~WrongWay(first)
      <3>1. /\ start_z' = first /\ end_z' = z_enp /\ direction' = direction /\ prev_z' = end_z
            /\ del_z' = del_z /\ z_enp' = Nudged(z_enp + del_z, del_z)
            /\ first_surf_misses' = first_surf_misses
            /\ trial' = trial + 1 /\ successes' = successes + 1
        BY <1>2, <2>3 DEF RayPasses, Advance
      <3>2. keep_going' = ~(successes > 0 /\ Straddle(end_z, z_enp))
        BY <1>2 DEF RayPasses
      <3>3. SearchState' = AfterPass(s)
        BY <2>3, <3>1, <3>2 DEF SearchState, AfterPass, WrongWay
      <3> QED BY <1>1, <2>1, <3>3 DEF After
    <2> QED BY <2>2, <2>3
  <1>3. CASE RayFails
    <2>1. ~Passes(s.z) 
      BY <1>3 DEF RayFails, SearchState
    <2> DEFINE miss == MissesFirst(z_enp)
               turn == start_z # None /\ direction = "first"
               del  == IF miss = turn THEN del_z ELSE -del_z
    <2>2. /\ first_surf_misses' = first_surf_misses + (IF miss THEN 1 ELSE 0)
          /\ del_z' = del /\ z_enp' = Nudged((IF miss \/ turn THEN enp_dist ELSE z_enp) + del, del)
          /\ trial' = trial + 1 /\ keep_going' = (start_z = None \/ turn)
          /\ IF turn THEN TurnRound(start_z, end_z) ELSE UNCHANGED <<start_z, end_z, direction>>
          /\ prev_z' = prev_z /\ successes' = successes
      BY <1>3 DEF RayFails, Advance
    <2>3. /\ start_z' = IF turn THEN end_z ELSE start_z
          /\ end_z' = IF turn THEN start_z ELSE end_z
          /\ direction' = IF turn THEN "reverse" ELSE direction
      BY <2>2 DEF TurnRound
    <2>4. SearchState' = AfterFailure(s)
      BY <2>2, <2>3 DEF SearchState, AfterFailure
    <2> QED BY <1>1, <2>1, <2>4 DEF After
  <1> QED BY <1>2, <1>3

LEMMA StateIsSearch == ASSUME ShapeEnp PROVE SearchState \in Searches
  BY DEF ShapeEnp, SearchState, Searches

LEMMA AfterIsSearch ==
  ASSUME NEW s \in Searches
  PROVE  After(s) \in Searches /\ After(s).trial = s.trial + 1
  <1> USE StepAssumption
  <1>1. /\ s.z \in Int /\ s.del \in {Step, -Step} /\ s.start \in MaybePlace
        /\ s.prev \in MaybePlace /\ s.end \in MaybePlace /\ s.direction \in {"first", "reverse"}
        /\ s.misses \in Nat /\ s.trial \in Nat /\ s.successes \in Nat
        /\ s.z \in MaybePlace /\ enp_dist \in Int
    BY DEF Searches, MaybePlace, enp_dist
  <1>2. \A from \in Int, del \in {Step, -Step} : Nudged(from + del, del) \in Int
    BY DEF Nudged
  <1>3. CASE Passes(s.z)
    <2> DEFINE first == IF s.start = None THEN s.z ELSE s.start
               wrong == /\ s.successes = 1 /\ s.direction = "first"
                        /\ Abs(Height(first)) < Abs(Height(s.z))
               del == IF wrong THEN -s.del ELSE s.del
               from == IF wrong THEN enp_dist ELSE s.z
    <2>1. del \in {Step, -Step} /\ from \in Int /\ first \in MaybePlace
      BY <1>1
    <2>2. Nudged(from + del, del) \in Int
      BY <1>2, <2>1
    <2>3. /\ (IF wrong THEN s.z ELSE first) \in MaybePlace
          /\ (IF wrong THEN first ELSE s.z) \in MaybePlace
          /\ (IF wrong THEN "reverse" ELSE s.direction) \in {"first", "reverse"}
      BY <1>1, <2>1
    <2>4. (~(s.successes > 0 /\ Straddle(s.end, s.z))) \in BOOLEAN
      OBVIOUS
    <2>5. AfterPass(s) =
            [z |-> Nudged(from + del, del), del |-> del,
             start |-> IF wrong THEN s.z ELSE first, prev |-> s.end,
             end |-> IF wrong THEN first ELSE s.z,
             direction |-> IF wrong THEN "reverse" ELSE s.direction,
             going |-> ~(s.successes > 0 /\ Straddle(s.end, s.z)),
             misses |-> s.misses, trial |-> s.trial + 1, successes |-> s.successes + 1]
      BY DEF AfterPass
    <2> HIDE DEF first, wrong, del, from
    <2> QED BY <1>1, <1>3, <2>1, <2>2, <2>3, <2>4, <2>5 DEF After, Searches
  <1>4. CASE ~Passes(s.z)
    <2> DEFINE miss == MissesFirst(s.z)
               turn == s.start # None /\ s.direction = "first"
               del == IF miss = turn THEN s.del ELSE -s.del
               from == IF miss \/ turn THEN enp_dist ELSE s.z
               k == IF miss THEN 1 ELSE 0
    <2>1. del \in {Step, -Step} /\ from \in Int /\ k \in Nat
      BY <1>1
    <2>2. Nudged(from + del, del) \in Int
      BY <1>2, <2>1
    <2>3. /\ (IF turn THEN s.end ELSE s.start) \in MaybePlace
          /\ (IF turn THEN s.start ELSE s.end) \in MaybePlace
          /\ (IF turn THEN "reverse" ELSE s.direction) \in {"first", "reverse"}
      BY <1>1
    <2>4. (s.start = None \/ turn) \in BOOLEAN
      OBVIOUS
    <2>5. AfterFailure(s) =
            [z |-> Nudged(from + del, del), del |-> del,
             start |-> IF turn THEN s.end ELSE s.start, prev |-> s.prev,
             end |-> IF turn THEN s.start ELSE s.end,
             direction |-> IF turn THEN "reverse" ELSE s.direction,
             going |-> (s.start = None \/ turn),
             misses |-> s.misses + k, trial |-> s.trial + 1, successes |-> s.successes]
      BY DEF AfterFailure
    <2> HIDE DEF miss, turn, del, from, k
    <2> QED BY <1>1, <1>4, <2>1, <2>2, <2>3, <2>4, <2>5 DEF After, Searches
  <1> QED BY <1>3, <1>4

LEMMA StartIsSearch == Start \in Searches /\ Start.trial = 0
  BY StepAssumption DEF Start, Searches, MaybePlace, enp_dist

LEMMA ReachedIsClosed == Closed(Reached)
  <1>1. Start \in Reached
    BY StartIsSearch DEF Reached, Closed
  <1>2. ASSUME NEW s \in Reached, Goes(s) PROVE After(s) \in Reached
    <2>1. s \in Searches /\ After(s) \in Searches
      BY AfterIsSearch DEF Reached
    <2>2. ASSUME NEW C \in SUBSET Searches, Closed(C) PROVE After(s) \in C
      BY <1>2, <2>2 DEF Reached, Closed
    <2> QED BY <2>1, <2>2 DEF Reached
  <1> QED BY <1>1, <1>2 DEF Closed

LEMMA ReachedIsLeast ==
  ASSUME NEW C, C \subseteq Reached, Closed(C)
  PROVE  Reached \subseteq C
  BY DEF Reached

\* At most one state for each number of trials.
LEMMA OnePerTrial ==
  ASSUME NEW s \in Reached, NEW t \in Reached, s.trial = t.trial
  PROVE  s = t
  <1> DEFINE From(v) == v = Start \/ \E u \in Reached : Goes(u) /\ v = After(u)
             B == {v \in Reached : From(v)}
             C == {v \in Reached : \A w \in Reached : w.trial = v.trial => w = v}
  <1>1. Closed(B)
    BY ReachedIsClosed DEF Closed
  <1>2. \A v \in Reached : From(v)
    <2> HIDE DEF From
    <2>1. Reached \subseteq B
      <3>1. B \subseteq Reached
        OBVIOUS
      <3> HIDE DEF B
      <3> QED BY <1>1, <3>1, ReachedIsLeast
    <2> QED BY <2>1
  <1>3. \A u \in Reached : u \in Searches /\ After(u).trial = u.trial + 1 /\ u.trial \in Nat
    BY AfterIsSearch DEF Reached, Searches
  <1>4. Start \in C
    <2>1. \A w \in Reached : w.trial = Start.trial => w = Start
      BY <1>2, <1>3, StartIsSearch
    <2> QED BY <2>1, ReachedIsClosed DEF Closed
  <1>5. ASSUME NEW v \in C, Goes(v) PROVE After(v) \in C
    <2>1. After(v) \in Reached
      BY <1>5, ReachedIsClosed DEF Closed
    <2>2. ASSUME NEW w \in Reached, w.trial = After(v).trial PROVE w = After(v)
      <3>1. w.trial = v.trial + 1 /\ v.trial \in Nat
        BY <1>3, <1>5, <2>2
      <3>2. w # Start
        BY <3>1, StartIsSearch
      <3>3. PICK u \in Reached : w = After(u)
        BY <1>2, <3>2
      <3>4. u.trial = v.trial
        BY <1>3, <3>1, <3>3
      <3>5. u = v
        BY <1>5, <3>4
      <3> QED BY <3>3, <3>5
    <2> QED BY <2>1, <2>2
  <1>6. Reached \subseteq C
    <2>1. Closed(C) /\ C \subseteq Reached
      BY <1>4, <1>5 DEF Closed
    <2> HIDE DEF C
    <2> QED BY <2>1, ReachedIsLeast
  <1> QED BY <1>6

\* The search stops in one state.
LEMMA OneEnd ==
  ASSUME NEW s \in Ends, NEW t \in Ends
  PROVE  s = t
  <1>1. ASSUME NEW u \in Ends PROVE \A v \in Reached : v.trial <= u.trial
    <2> DEFINE C == {v \in Reached : v.trial <= u.trial}
    <2>1. \A v \in Reached : v.trial \in Nat /\ After(v).trial = v.trial + 1
      BY AfterIsSearch DEF Reached, Searches
    <2>2. u \in Reached /\ ~Goes(u)
      BY DEF Ends
    <2>3. Start \in C
      BY <2>1, <2>2, StartIsSearch, ReachedIsClosed DEF Closed
    <2>4. ASSUME NEW v \in C, Goes(v) PROVE After(v) \in C
      <3>1. After(v) \in Reached
        BY <2>4, ReachedIsClosed DEF Closed
      <3>2. v.trial # u.trial
        BY <2>2, <2>4, OnePerTrial
      <3> QED BY <2>1, <2>2, <3>1, <3>2
    <2>5. Closed(C) /\ C \subseteq Reached
      BY <2>3, <2>4 DEF Closed
    <2>6. Reached \subseteq C
      <3> HIDE DEF C
      <3> QED BY <2>5, ReachedIsLeast
    <2> QED BY <2>6
  <1>2. s \in Reached /\ t \in Reached /\ s.trial \in Nat /\ t.trial \in Nat
    BY DEF Ends, Reached, Searches
  <1>3. s.trial = t.trial
    BY <1>1, <1>2
  <1> QED BY <1>2, <1>3, OnePerTrial

-----------------------------------------------------------------------------
(* What a search of a lens with one root returns. *)

\* Where the root finders end.
Centre == IF ReachesStop(lens.root) THEN lens.root ELSE None

\* The samples around a single ray that trace.
Sampled(s) ==
  {z \in {s.start - s.del + (2 * s.del * i) \div (Samples - 1) : i \in 0 .. Samples - 1} : Passes(z)}

\* What a search that stops in s returns.
Outcome(s) ==
  IF s.start = None THEN None
  ELSE IF s.start = s.end THEN IF Sampled(s) = {} THEN None ELSE Centre
  ELSE IF \/ Straddle(s.start, s.end)
          \/ Straddle(find_edge(s.end, s.end + s.del), s.end)
          \/ Straddle(find_edge(s.start, s.start - s.del), s.start)
       THEN Centre ELSE s.end

\* What the aim of this lens is, whenever it is computed.
Fixed(r) == IF lens.axial THEN r = enp_dist ELSE \E e \in Ends : r = Outcome(e)

\* For a lens with one root.
Determined ==
  /\ pc = "search" => ~lens.axial /\ SearchState \in Reached
  /\ pc = "solve" =>
       /\ ~lens.axial /\ SearchState \in Ends /\ Outcome(SearchState) = Centre
       /\ Passes(bracket.estimate) \/ bracket.estimate = lens.root
  /\ pc = "done" => Fixed(result)
  /\ fld_z_enp # None \/ aims > 1 => aims > 1 /\ Fixed(fld_z_enp)

StableInv == aims \in Nat /\ aims >= 1 /\ (~lens.bent => Determined)

LEMMA SameSearch ==
  ASSUME UNCHANGED <<lens, search>>
  PROVE  SearchState' = SearchState
  BY DEF search, found, counts, SearchState

LEMMA SameLens ==
  ASSUME lens' = lens
  PROVE  /\ Reached' = Reached /\ Ends' = Ends /\ Centre' = Centre
         /\ \A s \in Searches : Outcome(s)' = Outcome(s)
  <1>1. \A z : Passes(z)' = Passes(z) /\ Height(z)' = Height(z) /\ MissesFirst(z)' = MissesFirst(z)
    BY DEF Passes, Height, MissesFirst
  <1>2. \A s : After(s)' = After(s)
    BY <1>1 DEF After, AfterPass, AfterFailure, Straddle
  <1>3. Reached' = Reached
    BY <1>2 DEF Reached, Closed, Searches, Start, Goes, MaybePlace, enp_dist
  <1>4. Ends' = Ends
    BY <1>3 DEF Ends, Goes
  <1>5. Centre' = Centre
    BY <1>1 DEF Centre, ReachesStop
  <1>6. \A z, w : find_edge(z, w)' = find_edge(z, w)
    BY lens' = lens DEF find_edge, Passes
  <1>7. \A s \in Searches : Outcome(s)' = Outcome(s)
    BY <1>1, <1>5, <1>6 DEF Outcome, Sampled, Straddle
  <1> QED BY <1>3, <1>4, <1>5, <1>7

LEMMA FixedStays ==
  ASSUME lens' = lens, NEW r, Fixed(r)
  PROVE  Fixed(r)'
  <1>1. Ends' = Ends /\ \A s \in Searches : Outcome(s)' = Outcome(s)
    BY SameLens
  <1>2. Ends \subseteq Searches
    BY DEF Ends, Reached
  <1> QED BY <1>1, <1>2 DEF Fixed, enp_dist

\* A search that ends in one of its rays, or gives up, is done.
LEMMA EndReturns ==
  ASSUME ShapeEnp, ~lens.bent, ~lens.axial, SearchState \in Reached,
         NothingPasses \/ SingleRay \/ EdgesOfBeam \/ Crossing, pc' = "done"
  PROVE  SearchState \in Ends /\ result' = Outcome(SearchState)
  <1>1. SearchState \in Ends
    BY DEF Ends, Goes, SearchState, NothingPasses, SingleRay, EdgesOfBeam, Crossing,
           Searched, Searching
  <1> DEFINE s == SearchState
  <1>2. s.start = start_z /\ s.end = end_z /\ s.del = del_z
    BY DEF SearchState
  <1>3. CASE NothingPasses
    BY <1>1, <1>2, <1>3 DEF NothingPasses, Return, Outcome
  <1>4. CASE SingleRay
    <2>1. Sampled(s) = {z \in Around(start_z) : Passes(z)}
      BY <1>2 DEF Sampled, Around
    <2>2. Sampled(s) = {} /\ result' = None
      BY <1>4, <2>1 DEF SingleRay, Solve, Return
    <2> QED BY <1>1, <1>2, <1>4, <2>2 DEF SingleRay, Outcome
  <1>5. CASE Crossing
    BY <1>5 DEF Crossing, Solve
  <1>6. CASE EdgesOfBeam
    <2>1. /\ ~Straddle(find_edge(end_z, end_z + del_z), end_z)
          /\ ~Straddle(find_edge(start_z, start_z - del_z), start_z)
          /\ ~Straddle(start_z, end_z) /\ start_z # None /\ start_z # end_z /\ result' = end_z
      BY <1>6 DEF EdgesOfBeam, Solve, Return
    <2> QED BY <1>1, <1>2, <2>1 DEF Outcome
  <1> QED BY <1>1, <1>3, <1>4, <1>5, <1>6

\* Or it leaves the root finders an estimate.
LEMMA EndSolves ==
  ASSUME ShapeEnp, FoundTrace, ~lens.bent, SearchState \in Reached,
         SingleRay \/ EdgesOfBeam \/ Crossing, pc' = "solve"
  PROVE  /\ SearchState \in Ends /\ Outcome(SearchState) = Centre
         /\ Passes(bracket.estimate)' \/ bracket'.estimate = lens.root
  <1> USE StepAssumption
  <1>1. SearchState \in Ends
    BY DEF Ends, Goes, SearchState, SingleRay, EdgesOfBeam, Crossing, Searched, Searching
  <1> DEFINE s == SearchState
  <1>2. s.start = start_z /\ s.end = end_z /\ s.del = del_z
    BY DEF SearchState
  <1>3. LensOK /\ lens' = lens /\ start_z # None
    BY DEF ShapeEnp, SingleRay, EdgesOfBeam, Crossing
  <1>4. start_z \in Int /\ end_z \in Int /\ Passes(start_z) /\ Passes(end_z)
    BY <1>3 DEF ShapeEnp, FoundTrace, MaybePlace
  <1>5. ASSUME NEW a, NEW b, NEW y \in Int, NEW z \in Int, Passes(y), Solve(a, b, y, z)
        PROVE  Passes(bracket.estimate)' \/ bracket'.estimate = lens.root
    <2>1. bracket'.estimate = Estimate(y, z)
      BY <1>5 DEF Solve
    <2>2. Estimate(y, z) = IF y = z THEN y ELSE lens.root
      BY <1>3, EstimateIsRoot
    <2>3. bracket'.estimate = y \/ bracket'.estimate = lens.root
      BY <2>1, <2>2
    <2> QED BY <1>3, <1>5, <2>3 DEF Passes
  <1>6. CASE SingleRay
    <2> DEFINE S == {z \in Around(start_z) : Passes(z)}
    <2>1. S = Sampled(s)
      BY <1>2 DEF Sampled, Around
    <2>2. S # {} /\ Solve(FirstOf(S), LastOf(S), FirstOf(S), LastOf(S))
      BY <1>6 DEF SingleRay, Return
    <2>3. \A z \in S : z \in Int /\ Passes(z)
      <3>1. Samples - 1 \in Nat \ {0} /\ del_z \in Int
        BY DEF ShapeEnp
      <3>2. \A i \in 0 .. Samples - 1 : (2 * del_z * i) \div (Samples - 1) \in Int
        BY <3>1
      <3> QED BY <1>4, <3>1, <3>2 DEF Around
    <2> HIDE DEF S
    <2>4. FirstOf(S) \in Int /\ LastOf(S) \in Int /\ Passes(FirstOf(S))
      <3>1. FirstOf(S) \in S /\ LastOf(S) \in S
        BY <1>3, <2>2, <2>3, FirstAndLast DEF ShapeEnp
      <3> QED BY <2>3, <3>1
    <2>5. Passes(bracket.estimate)' \/ bracket'.estimate = lens.root
      BY <1>5, <2>2, <2>4
    <2>6. Outcome(s) = Centre
      BY <1>2, <1>3, <1>6, <2>1, <2>2 DEF SingleRay, Outcome
    <2> QED BY <1>1, <2>5, <2>6
  <1>7. CASE Crossing
    <2>1. \/ prev_z # None /\ Solve(prev_z, end_z, prev_z, end_z)
          \/ Solve(start_z, end_z, start_z, end_z)
      BY <1>7 DEF Crossing
    <2>2. prev_z # None => prev_z \in Int /\ Passes(prev_z)
      BY DEF ShapeEnp, FoundTrace, MaybePlace
    <2>3. Passes(bracket.estimate)' \/ bracket'.estimate = lens.root
      BY <1>4, <1>5, <2>1, <2>2
    <2>4. Outcome(s) = Centre
      BY <1>2, <1>7 DEF Crossing, Outcome
    <2> QED BY <1>1, <2>3, <2>4
  <1>8. CASE EdgesOfBeam
    <2>1. PICK b \in Int : b = find_edge(end_z, end_z + del_z)
      BY <1>3, <1>4, EdgeFound DEF ShapeEnp, EdgeOf
    <2>2. PICK a \in Int : a = find_edge(start_z, start_z - del_z)
      <3>1. start_z - del_z \in {start_z - Step, start_z + Step}
        BY <1>4 DEF ShapeEnp
      <3> QED BY <1>3, <1>4, <3>1, EdgeFound DEF EdgeOf
    <2>3. \/ Straddle(b, end_z) /\ Solve(end_z, b, end_z, b)
          \/ Straddle(a, start_z) /\ Solve(start_z, a, start_z, a)
      BY <1>8, <2>1, <2>2 DEF EdgesOfBeam, Return
    <2>4. Passes(bracket.estimate)' \/ bracket'.estimate = lens.root
      BY <1>4, <1>5, <2>3
    <2>5. Outcome(s) = Centre
      BY <1>2, <1>8, <2>1, <2>2, <2>3 DEF EdgesOfBeam, Outcome
    <2> QED BY <1>1, <2>4, <2>5
  <1> QED BY <1>6, <1>7, <1>8

LEMMA SolvedAtCentre ==
  ASSUME ShapeEnp, ~lens.bent, SecantThenBrent,
         Passes(bracket.estimate) \/ bracket.estimate = lens.root
  PROVE  pc' = "done" /\ result' = Centre
  <1> DEFINE e == bracket.estimate
  <1>1. PICK s \in Secant(e) :
          IF ~ReachesStop(s.last) THEN Return(None)
          ELSE IF s.converged \/ Height(s.last) = 0 THEN Return(s.z)
          ELSE \E t \in Brent(bracket.a, bracket.b) : Return(IF t.converged THEN t.z ELSE s.z)
    BY DEF SecantThenBrent
  <1>2. s.z = lens.root /\ s.last = lens.root
    BY DEF Secant, Root
  <1>3. Height(lens.root) = 0
    BY StraightHeights, LensTypes DEF ShapeEnp
  <1>4. Return(Centre)
    BY <1>1, <1>2, <1>3 DEF Centre
  <1> QED BY <1>4 DEF Return

LEMMA StableStep ==
  ASSUME PupilInv, StableInv, EnpNext
  PROVE  StableInv'
  <1>0. lens' = lens /\ ShapeEnp /\ FoundTrace /\ EnpInv
    BY DEF EnpNext, TryCached, RayPasses, RayFails, NothingPasses, SingleRay, Crossing,
           EdgesOfBeam, SecantThenBrent, AimAgain, PupilInv, EnpInv
  <1>1. aims' \in Nat /\ aims' >= 1 /\ (~AimAgain => aims' = aims /\ fld_z_enp' = fld_z_enp)
    BY DEF StableInv, EnpNext, TryCached, RayPasses, RayFails, NothingPasses, SingleRay, Crossing,
           EdgesOfBeam, SecantThenBrent, AimAgain
  <1> SUFFICES ASSUME ~lens.bent PROVE Determined'
    BY <1>0, <1>1 DEF StableInv
  <1>2. Determined
    BY DEF StableInv
  <1>3. ~AimAgain => (fld_z_enp' # None \/ aims' > 1 => aims' > 1 /\ Fixed(fld_z_enp)')
    <2> SUFFICES ASSUME ~AimAgain, fld_z_enp # None \/ aims > 1 PROVE aims > 1 /\ Fixed(fld_z_enp)'
      BY <1>1
    <2>1. aims > 1 /\ Fixed(fld_z_enp) /\ fld_z_enp' = fld_z_enp
      BY <1>1, <1>2 DEF Determined
    <2>2. PICK r : r = fld_z_enp
      OBVIOUS
    <2>3. Fixed(r)'
      BY <1>0, <2>1, <2>2, FixedStays
    <2> QED BY <2>1, <2>2, <2>3
  <1>4. CASE RayPasses \/ RayFails
    <2>1. pc = "search" /\ pc' = "search"
      BY <1>4 DEF RayPasses, RayFails, Searching
    <2>2. Goes(SearchState) /\ SearchState' = After(SearchState)
      BY <1>0, <1>4, LoopIsAfter
    <2>3. SearchState \in Reached /\ ~lens.axial
      BY <1>2, <2>1 DEF Determined
    <2>4. After(SearchState) \in Reached
      BY <2>2, <2>3, ReachedIsClosed DEF Closed
    <2>5. Reached' = Reached /\ ~AimAgain
      BY <1>0, <2>1, SameLens DEF AimAgain
    <2> QED BY <1>0, <1>3, <2>1, <2>2, <2>3, <2>4, <2>5 DEF Determined
  <1>5. CASE NothingPasses \/ SingleRay \/ EdgesOfBeam \/ Crossing
    <2>1. pc = "search" /\ pc' \in {"solve", "done"} /\ UNCHANGED <<lens, search>>
      BY <1>0, <1>5, EndsKeepOrder DEF NothingPasses, SingleRay, EdgesOfBeam, Crossing, Return, Searched
    <2>2. SearchState \in Reached /\ ~lens.axial /\ SearchState \in Searches
      BY <1>2, <2>1 DEF Determined, Reached
    <2>3. PICK s \in Searches : s = SearchState
      BY <2>2
    <2>4. SearchState' = s /\ Ends' = Ends /\ Outcome(s)' = Outcome(s) /\ Centre' = Centre
      BY <1>0, <2>1, <2>3, SameSearch, SameLens
    <2>5. CASE pc' = "done"
      <3>1. s \in Ends /\ result' = Outcome(s)
        BY <1>0, <1>5, <2>2, <2>3, <2>5, EndReturns
      <3>2. Fixed(result')
        BY <2>2, <3>1 DEF Fixed
      <3>3. PICK r : r = result'
        OBVIOUS
      <3>4. Fixed(r)'
        BY <1>0, <3>2, <3>3, FixedStays
      <3>5. Fixed(result)'
        BY <3>3, <3>4
      <3>6. ~AimAgain
        BY <2>1 DEF AimAgain
      <3> QED BY <1>3, <2>5, <3>5, <3>6 DEF Determined
    <2>6. CASE pc' = "solve"
      <3>1. SingleRay \/ EdgesOfBeam \/ Crossing
        BY <1>5, <2>6 DEF NothingPasses, Return
      <3>2. /\ s \in Ends /\ Outcome(s) = Centre
            /\ Passes(bracket.estimate)' \/ bracket'.estimate = lens.root
        BY <1>0, <2>2, <2>3, <2>6, <3>1, EndSolves
      <3>3. SearchState' \in Ends' /\ Outcome(SearchState)' = Centre'
        BY <2>4, <3>2
      <3>4. ~AimAgain
        BY <2>1 DEF AimAgain
      <3> QED BY <1>0, <1>3, <2>2, <2>6, <3>2, <3>3, <3>4 DEF Determined
    <2> QED BY <2>1, <2>5, <2>6
  <1>6. CASE SecantThenBrent
    <2>1. pc = "solve" /\ UNCHANGED <<lens, search>> /\ ~AimAgain
      BY <1>6 DEF SecantThenBrent, AimAgain
    <2>2. /\ ~lens.axial /\ SearchState \in Ends /\ Outcome(SearchState) = Centre
          /\ Passes(bracket.estimate) \/ bracket.estimate = lens.root
      BY <1>2, <2>1 DEF Determined
    <2>3. pc' = "done" /\ result' = Centre
      BY <1>0, <1>6, <2>2, SolvedAtCentre
    <2>4. Fixed(result')
      BY <2>2, <2>3 DEF Fixed
    <2>5. PICK r : r = result'
      OBVIOUS
    <2>6. Fixed(r)'
      BY <1>0, <2>4, <2>5, FixedStays
    <2>7. Fixed(result)'
      BY <2>5, <2>6
    <2> QED BY <1>3, <2>1, <2>3, <2>7 DEF Determined
  <1>7. CASE TryCached
    <2>1. pc = "cached" /\ Opening /\ UNCHANGED <<lens, search>> /\ ~AimAgain
      BY <1>7 DEF TryCached, PupilInv, CachedOK, AimAgain
    <2>2. \/ pc' = "done" /\ result' = fld_z_enp /\ fld_z_enp # None
          \/ pc' = "done" /\ result' = enp_dist /\ lens.axial
          \/ pc' = "search" /\ ~lens.axial
      BY <1>7 DEF TryCached, Return
    <2>3. CASE pc' = "done"
      <3>1. Fixed(result')
        BY <1>2, <2>2, <2>3 DEF Determined, Fixed
      <3>2. PICK r : r = result'
        OBVIOUS
      <3>3. Fixed(r)'
        BY <1>0, <3>1, <3>2, FixedStays
      <3>4. Fixed(result)'
        BY <3>2, <3>3
      <3> QED BY <1>3, <2>1, <2>3, <3>4 DEF Determined
    <2>4. CASE pc' = "search"
      <3>1. SearchState = Start
        BY <2>1 DEF Opening, SearchState, Start
      <3>2. SearchState' = Start /\ Start \in Reached /\ Reached' = Reached
        BY <1>0, <2>1, <3>1, SameSearch, SameLens, ReachedIsClosed DEF Closed
      <3>3. SearchState' \in Reached'
        BY <3>2
      <3> QED BY <1>0, <1>3, <2>1, <2>2, <2>4, <3>3 DEF Determined
    <2> QED BY <2>2, <2>3, <2>4
  <1>8. CASE AimAgain
    <2>1. pc = "done" /\ fld_z_enp' = result /\ aims' = aims + 1 /\ pc' = "cached"
      BY <1>8 DEF AimAgain
    <2>2. PICK r : r = result
      OBVIOUS
    <2>3. Fixed(r)'
      BY <1>0, <1>2, <2>1, <2>2, FixedStays DEF Determined
    <2>4. Fixed(fld_z_enp)'
      BY <2>1, <2>2, <2>3
    <2>5. aims' > 1
      BY <2>1 DEF StableInv
    <2> QED BY <2>1, <2>4, <2>5 DEF Determined
  <1> QED BY <1>4, <1>5, <1>6, <1>7, <1>8 DEF EnpNext

LEMMA StableStutters == ASSUME StableInv, UNCHANGED enp_vars PROVE StableInv'
  <1>1. UNCHANGED <<lens, search>> /\ UNCHANGED <<fld_z_enp, bracket, result, aims, pc>>
    BY DEF enp_vars
  <1>2. /\ SearchState' = SearchState /\ Reached' = Reached /\ Ends' = Ends /\ Centre' = Centre
        /\ \A s \in Searches : Outcome(s)' = Outcome(s)
    BY <1>1, SameSearch, SameLens
  <1>3. Ends \subseteq Searches
    BY DEF Ends, Reached
  <1>4. PICK s : s = SearchState
    OBVIOUS
  <1>5. PICK r, f : r = result /\ f = fld_z_enp
    OBVIOUS
  <1>6. (Fixed(r) => Fixed(r)') /\ (Fixed(f) => Fixed(f)')
    BY <1>1, FixedStays
  <1>7. s \in Ends => Outcome(s)' = Outcome(s)
    BY <1>2, <1>3
  <1>8. lens' = lens /\ bracket' = bracket
    BY <1>1
  <1> SUFFICES ASSUME ~lens.bent, Determined PROVE Determined'
    BY <1>1 DEF StableInv
  <1>9. pc = "solve" => SearchState' \in Ends' /\ Outcome(SearchState)' = Centre'
    BY <1>2, <1>4, <1>7 DEF Determined
  <1> QED BY <1>1, <1>2, <1>5, <1>6, <1>8, <1>9 DEF Determined, Passes

LEMMA StableInit == ASSUME EnpInit PROVE StableInv
  BY DEF EnpInit, StableInv, Determined

\* However often the model is updated, a wide-angle field whose lens has one
\* root keeps its pupil: either the pupil it has is good, or the search that
\* runs again is the search that found it.
THEOREM PupilsStay == Spec => []AimingIsStable
  <1> DEFINE Inv == PupilInv /\ StableInv
  <1>1. Init => Inv
    BY PupilInit, StableInit DEF Init
  <1>2. Inv /\ [Next]_vars => Inv'
    <2> SUFFICES ASSUME Inv, [Next]_vars PROVE Inv'
      OBVIOUS
    <2>1. CASE Wide
      BY <2>1, PupilStep, StableStep DEF Wide
    <2>2. CASE ~Wide
      <3>1. UNCHANGED enp_vars
        BY <2>2 DEF Next, TwoDimensional, get_2d_solution_raw, OneDimensional, get_1d_solution_raw, FindRoot, Floating, CatchReverse, Aimed, vars
      <3> QED BY <3>1, PupilStutters, StableStutters
    <2> QED BY <2>1, <2>2
  <1>3. Inv => AimingIsStable
    <2> SUFFICES ASSUME Inv, pc = "done", aims > 1, ~lens.bent PROVE result = fld_z_enp
      BY DEF AimingIsStable
    <2>1. Fixed(result) /\ Fixed(fld_z_enp)
      BY DEF StableInv, Determined
    <2>2. CASE lens.axial
      BY <2>1, <2>2 DEF Fixed
    <2>3. CASE ~lens.axial
      BY <2>1, <2>3, OneEnd DEF Fixed
    <2> QED BY <2>2, <2>3
  <1> QED BY <1>1, <1>2, <1>3, PTL DEF Spec
=============================================================================
