------------------------ MODULE OptimizationBuilder ------------------------
(***************************************************************************)
(* What a trial's settings make of a prescription: which aspheric terms    *)
(* are accepted, the checks of build(), the parameters that are varied,    *)
(* the goals, and what the solver may write through the variables.         *)
(*                                                                         *)
(* Surface numbers are the code's, from 0.  A variable is <<kind, surface, *)
(* number>>, the number a configuration or a coefficient index, and a goal *)
(* is <<kind, field or surface, wavelength, sample or frequency,           *)
(* direction>>, with 0 for what the kind does not have.                    *)
(***************************************************************************)
EXTENDS Prescription, OptimizationTrial

CONSTANTS RAY_FAN_SAMPLES, NUM_TRANSVERSE_RAYS

Surface(p, s) == p.surfaces[s + 1]
SurfaceNumbers(p) == 0..(Len(p.surfaces) - 1)
IsStop(p, s) == Surface(p, s).cell \in {"AS", "FS"}

-----------------------------------------------------------------------------
(* Explicit aspheric terms, <<surface, index, scale>>. *)

\* A mistake: a varied sphere becomes an even asphere in any file.
EvenForSpheres(p, s) ==
  IF Surface(p, s).type # Spherical THEN Surface(p, s).type ELSE Even

asphereTypeOf(p, s) ==
  IF Surface(p, s).type # Spherical THEN Surface(p, s).type
  ELSE IF has_radial_aspheric(p) THEN Radial
  ELSE IF has_even_a2_aspheric(p) THEN EvenA2
  ELSE Even

coefficientOf(p, s, index) ==
  IF index + 1 \in DOMAIN Surface(p, s).coeffs THEN Surface(p, s).coeffs[index + 1] ELSE 0

addAsphericTerm(p, term, before) ==
  /\ term[1] \in SurfaceNumbers(p) /\ ~IsStop(p, term[1])
  /\ \A i \in DOMAIN before : before[i][1] # term[1] \/ before[i][2] # term[2]
  /\ term[2] >= 0 =>
       /\ HasTerm(asphereTypeOf(p, term[1]), term[2])
       /\ \/ term[3] > 0
          \/ coefficientOf(p, term[1], term[2]) # 0
          \/ Surface(p, term[1]).diameter > 0

\* Reader::apply: the prescription-dependent checks made at every stage.
apply(p, c, lens) ==
  /\ Len(p.surfaces) = Len(lens)
  /\ c.curvatureConstraint # <<>> /\ ~c.curvatures.all =>
       \A i \in DOMAIN c.curvatures.listed : Surface(p, c.curvatures.listed[i]).radius # 0
  /\ \A i \in DOMAIN c.asphericTerms :
       addAsphericTerm(p, c.asphericTerms[i], SubSeq(c.asphericTerms, 1, i - 1))

-----------------------------------------------------------------------------
(* build(): the checks. *)

scenarioCount(p) ==
  Max({1, Len(p.firstBy)} \cup {Len(p.surfaces[s].thickBy) : s \in DOMAIN p.surfaces})

validateSurfaces(p, listed) ==
  Distinct(listed) /\ Range(listed) \subseteq SurfaceNumbers(p)

validateWeights(c, weights) ==
  Len(weights) = Len(c.fields) /\ \A i \in DOMAIN weights : weights[i] >= 0

validateTargets(c, targets) ==
  validateWeights(c, targets) /\ \A i \in DOMAIN targets : targets[i] <= 100

ValidSpots(c, goals) ==
  \A i \in DOMAIN goals : validateWeights(c, goals[i].targets) /\ validateWeights(c, goals[i].weights)

validate(p, c) ==
  LET frequencies(goals) == [i \in DOMAIN goals |-> goals[i].frequency]
  IN /\ c.fields[1] = 0 /\ \A f \in DOMAIN c.fields : c.fields[f] \in 0..FullField
     /\ c.scenario # 0 => c.scenario < scenarioCount(p)
     /\ c.balanceFields # <<>> =>
          Len(c.balanceFields[1]) = Len(c.fields) /\ c.contrastGoals # <<>>
     /\ Distinct(frequencies(c.mtfGoals)) /\ Distinct(frequencies(c.contrastGoals))
     /\ \A i \in DOMAIN c.mtfGoals :
          /\ validateTargets(c, c.mtfGoals[i].sag) /\ validateTargets(c, c.mtfGoals[i].tan)
          /\ validateWeights(c, c.mtfGoals[i].sagWeights)
          /\ validateWeights(c, c.mtfGoals[i].tanWeights)
     /\ \A i \in DOMAIN c.contrastGoals : /\ validateWeights(c, c.contrastGoals[i].sag)
                                          /\ validateWeights(c, c.contrastGoals[i].tan)
     /\ ValidSpots(c, c.spotRms) /\ ValidSpots(c, c.spotMaxRadius)
     /\ c.spotDeviation # <<>> =>
          /\ validateWeights(c, c.spotDeviation[1]) /\ validateWeights(c, c.spotDeviation[2])
          /\ c.spotRms = <<>> /\ c.spotMaxRadius = <<>> /\ ~c.useHexapolar
     /\ \A s \in {c.curvatures.listed, c.curvatures.except,
                  c.thicknesses.listed, c.thicknesses.except} : validateSurfaces(p, s)

-----------------------------------------------------------------------------
(* build(): the variables. *)

\* explicitAsphericVariables makes the varied spheres aspheric and their
\* coefficients long enough, before it reads them.
WithExplicitTerms(p, terms) ==
  LET on(s) == {i \in DOMAIN terms : terms[i][1] = s - 1}
      longest(s) == Max({terms[i][2] + 1 : i \in on(s)} \cup {Len(p.surfaces[s].coeffs)})
  IN [p EXCEPT !.surfaces =
        [s \in DOMAIN p.surfaces |->
           IF on(s) = {} THEN p.surfaces[s]
           ELSE [p.surfaces[s] EXCEPT !.type = asphereTypeOf(p, s - 1),
                   !.coeffs = [i \in 1..longest(s) |-> coefficientOf(p, s - 1, i - 1)]]]]

CurvatureVariables(p, c) ==
  LET varied == IF c.curvatures.all
                THEN Increasing({s \in SurfaceNumbers(p) :
                       ~IsStop(p, s) /\ Surface(p, s).radius # 0 /\ s \notin Range(c.curvatures.except)})
                ELSE c.curvatures.listed
  IN [i \in DOMAIN varied |-> <<"radius", varied[i], 0>>]

ThicknessVariables(p, c) ==
  LET varied == IF c.thicknesses.all
                THEN Increasing({s \in SurfaceNumbers(p) :
                       /\ thicknessOf(Surface(p, s), c.scenario + 1) # 0
                       /\ s \notin Range(c.thicknesses.except)})
                ELSE c.thicknesses.listed
  IN [i \in DOMAIN varied |-> <<"thickness", varied[i], c.scenario>>]

ExistingAspherics(p, c) ==
  LET explicit == {c.asphericTerms[i][1] : i \in DOMAIN c.asphericTerms}
      of(s) == (IF Surface(p, s).k # 0 THEN << <<"conic", s, 0>> >> ELSE <<>>)
               \o LET held == Increasing({i \in DOMAIN Surface(p, s).coeffs :
                                            Surface(p, s).coeffs[i] # 0})
                  IN [i \in DOMAIN held |-> <<"coefficient", s, held[i] - 1>>]
      varied == Increasing(SurfaceNumbers(p) \ explicit)
  IN IF c.existingAspherics THEN FlattenSeq([i \in DOMAIN varied |-> of(varied[i])]) ELSE <<>>

ExplicitAspherics(c) ==
  [i \in DOMAIN c.asphericTerms |->
     IF c.asphericTerms[i][2] < 0 THEN <<"conic", c.asphericTerms[i][1], 0>>
     ELSE <<"coefficient", c.asphericTerms[i][1], c.asphericTerms[i][2]>>]

buildVariables(p, c) ==
  CurvatureVariables(p, c) \o ThicknessVariables(p, c)
    \o ExistingAspherics(p, c) \o ExplicitAspherics(c)

-----------------------------------------------------------------------------
(* build(): the goals. *)

\* Var::read_from_prescription
valueOf(p, variable) ==
  LET surface == Surface(p, variable[2])
  IN CASE variable[1] = "radius" -> surface.radius
       [] variable[1] = "thickness" -> thicknessOf(surface, variable[3] + 1)
       [] variable[1] = "conic" -> surface.k
       [] OTHER -> surface.coeffs[variable[3] + 1]

\* A mistake: a surface's shape is taken to affect the gap behind it only.
GapsBehind(variables) == {variables[i][2] : i \in DOMAIN variables}

edgeAffectedGaps(variables) ==
  UNION {LET s == variables[i][2]
         IN IF variables[i][1] = "thickness" THEN {s} ELSE {s - 1, s}
         : i \in DOMAIN variables}

\* Crossed gaps are those whose surfaces meet or cross at the edge.
is_constrainable(p, scenario, crossed, gap) ==
  /\ gap \in 0..(Len(p.surfaces) - 2)
  /\ diameterOf(Surface(p, gap), scenario + 1) > 0
  /\ diameterOf(Surface(p, gap + 1), scenario + 1) > 0
  /\ gap \notin crossed

ConstraintGoals(p, c, variables, crossed) ==
  LET of(kind) == {variables[i][2] : i \in {j \in DOMAIN variables : variables[j][1] = kind}}
  IN {<<"thickness", s, 0, 0, 0>> :
        s \in IF c.thicknessConstraint # <<>> THEN of("thickness") ELSE {}}
     \cup {<<"edge", gap, 0, 0, 0>> :
        gap \in IF c.edgeConstraint # <<>>
                THEN {g \in edgeAffectedGaps(variables) : is_constrainable(p, c.scenario, crossed, g)}
                ELSE {}}
     \cup {<<"curvature", s, 0, 0, 0>> :
        s \in IF c.curvatureConstraint # <<>> THEN of("radius") ELSE {}}

\* A fractional constraint needs a finite non-zero starting value.
CanConstrain(p, c, variables) ==
  \A i \in DOMAIN variables :
    /\ variables[i][1] = "thickness" /\ c.thicknessConstraint # <<>> => valueOf(p, variables[i]) # 0
    /\ variables[i][1] = "radius" /\ c.curvatureConstraint # <<>> => valueOf(p, variables[i]) # 0

Sagittal == 1
Tangential == 2
Effective_focal_length == 0
Fno == 9
Directions == {Sagittal, Tangential}

SampleNumbers(sampling) == 0..(sampling[1] * sampling[2] - 1)

MtfGoals(c) ==
  {<<"mtf", f, 0, c.mtfGoals[i].frequency, o>> :
     f \in DOMAIN c.fields, i \in DOMAIN c.mtfGoals, o \in Directions}

\* The first number of a contrast goal is its place among the frequencies.
OneContrast(c, i) ==
  {<<"contrast", f, w, <<i, sample>>, o>> :
     f \in DOMAIN c.fields, w \in DOMAIN c.wavelengths,
     sample \in SampleNumbers(c.contrastSampling), o \in Directions}

ContrastGoals(c) == UNION {OneContrast(c, i) : i \in DOMAIN c.contrastGoals}

BalanceGoals(c) ==
  {<<"balance", f, 0, <<i, 0>>, 0>> :
     f \in IF c.balanceFields = <<>> THEN {} ELSE {f \in DOMAIN c.fields : c.balanceFields[1][f]},
     i \in DOMAIN c.contrastGoals}

RmsGoals(c) ==
  IF c.spotRms = <<>> THEN {} ELSE {<<"rms", f, 0, 0, 0>> : f \in DOMAIN c.fields}

DeviationGoals(c) ==
  IF c.spotDeviation = <<>> THEN {}
  ELSE {<<"deviation", f, w, sample, o>> :
          f \in DOMAIN c.fields, w \in DOMAIN c.wavelengths,
          sample \in SampleNumbers(c.gaussian), o \in Directions}

MaxRadiusGoals(c) ==
  IF c.spotMaxRadius = <<>> THEN {} ELSE {<<"max_radius", f, 0, 0, 0>> : f \in DOMAIN c.fields}

RayGoals(c) ==
  IF c.rayAberrations
  THEN {<<"ray", f, w, sample, o>> :
          f \in DOMAIN c.fields, w \in DOMAIN c.wavelengths,
          sample \in 0..(RAY_FAN_SAMPLES - 1), o \in Directions}
  ELSE {}

\* The focal length and the f-number are always held, at the prescription's
\* values unless the trial sets targets of its own.
ParaxialGoals(c) ==
  {<<"paraxial", id, 0, 0, 0>> :
     id \in {c.paraxialGoals[i][1] : i \in DOMAIN c.paraxialGoals}
              \cup {Effective_focal_length, Fno}}

buildGoals(p, c, variables, crossed) ==
  ConstraintGoals(p, c, variables, crossed)
    \cup MtfGoals(c) \cup ContrastGoals(c) \cup BalanceGoals(c) \cup RmsGoals(c)
    \cup DeviationGoals(c) \cup MaxRadiusGoals(c) \cup RayGoals(c) \cup ParaxialGoals(c)

-----------------------------------------------------------------------------
(* configureAnalysis: how the analysis of a trial is set up. *)

CanConfigure(c) == c.contrastGoals # <<>> => ~(c.calibrateContrast /\ c.exitPupilAiming)

configureAnalysis(c) ==
  LET effective == effectiveAnalysis(c, FALSE)
  IN [spots |-> effective.spots, rays |-> effective.rayAberrations, mtf |-> effective.mtf,
      mtfFrequencies |-> {c.mtfGoals[i].frequency : i \in DOMAIN c.mtfGoals},
      hexapolar |-> effective.hexapolar,
      gaussian |-> c.gaussian, hexapolarRays |-> c.hexapolarRays,
      retainFailedRays |-> effective.retainFailedRays,
      contrasts |-> Len(c.contrastGoals),
      contrastSampling |-> c.contrastSampling]

-----------------------------------------------------------------------------
(* Var::write_to_prescription. *)

\* What a parameter holds once every variable has been written.
ValueAfter(variables, values, parameter, before) ==
  IF \E i \in DOMAIN variables : variables[i] = parameter
  THEN values[CHOOSE i \in DOMAIN variables : variables[i] = parameter] ELSE before

WritesThickness(variables, s) ==
  {i \in DOMAIN variables : variables[i][1] = "thickness" /\ variables[i][2] = s}

\* A mistake: a thickness is written for every scenario.
EveryScenario(surface, s, variables, values) ==
  IF WritesThickness(variables, s) = {} THEN surface
  ELSE LET value == values[CHOOSE i \in WritesThickness(variables, s) : TRUE]
       IN [surface EXCEPT !.thick = value, !.thickBy = [c \in DOMAIN @ |-> value]]

\* A thickness all configurations share is written to its one slot, whichever
\* configuration the trial is of.
VarThickness(surface, s, variables, values) ==
  IF WritesThickness(variables, s) = {} THEN surface
  ELSE IF surface.thickBy = <<>>
  THEN [surface EXCEPT !.thick = values[CHOOSE i \in WritesThickness(variables, s) : TRUE]]
  ELSE [surface EXCEPT !.thickBy =
          [c \in DOMAIN @ |-> ValueAfter(variables, values, <<"thickness", s, c - 1>>, @[c])]]

write_to_prescription(surface, s, variables, values) ==
  [VarThickness(surface, s, variables, values) EXCEPT
     !.radius = ValueAfter(variables, values, <<"radius", s, 0>>, @),
     !.k = ValueAfter(variables, values, <<"conic", s, 0>>, @),
     !.coeffs = [i \in DOMAIN @ |-> ValueAfter(variables, values, <<"coefficient", s, i - 1>>, @[i])]]

\* The prescription once every variable has its value.
WithValues(p, variables, values) ==
  [p EXCEPT !.surfaces =
     [s \in DOMAIN @ |-> write_to_prescription(@[s], s - 1, variables, values)]]
=============================================================================
